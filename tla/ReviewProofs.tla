---------------------------- MODULE ReviewProofs ----------------------------
(***************************************************************************)
(* Proofs about ReviewDecision, for any users, groups, policy and number   *)
(* of review requests, and about ReviewExecution, for any number of        *)
(* executions and restarts, with and without database failures.            *)
(*                                                                         *)
(* A request writes a draft that may be stale, so what is to be shown of   *)
(* the review has to hold of every draft as well: Sound says it of a       *)
(* status with its rows, and DecisionInv of the review and of all drafts.  *)
(***************************************************************************)
EXTENDS ReviewExecution, FiniteSetTheorems, TLAPS

\* The rows created with the review stay, an approval is backed, nobody approved
\* what they asked for, and a denial has its row.
Sound(st, rows, f) ==
    /\ \A x \in Reviewers : rows[x] # NoRow
    /\ st = "APPROVED" => f \/ Cardinality(ApprovedRows(rows)) >= Quorum
    /\ \A x \in ApprovedRows(rows) : rows[x].by = Owner => IsAdmin(Owner)
    /\ st \in {"REJECTED", "REVOKED"} =>
          \E x \in RowIds : rows[x].status = st /\ rows[x].by \in Users

DecisionInv ==
    /\ TypeOK
    /\ Sound(status, groups, forced)
    /\ \A r \in Requests : Sound(draft[r].status, draft[r].groups, draft[r].forced)

-----------------------------------------------------------------------------
(* Counting rows *)

\* The rows of a review are finitely many.
LEMMA RowsFinite == IsFiniteSet(RowIds)
  BY GroupsAssumption, FS_Union DEF RowIds

\* More approved rows, a larger count.
LEMMA ApprovedMonotonic ==
    ASSUME NEW rows, NEW more, ApprovedRows(rows) \subseteq ApprovedRows(more)
    PROVE  /\ Cardinality(ApprovedRows(rows)) \in Nat
           /\ Cardinality(ApprovedRows(more)) \in Nat
           /\ Cardinality(ApprovedRows(rows)) <= Cardinality(ApprovedRows(more))
<1>1. IsFiniteSet(ApprovedRows(more)) /\ IsFiniteSet(ApprovedRows(rows))
  BY RowsFinite, FS_Subset DEF ApprovedRows
<1>2. QED
  BY <1>1, FS_Subset, FS_CardinalityType

\* The quorum is a number.
LEMMA QuorumType == Quorum \in Nat
<1>1. Cardinality(Reviewers) \in Nat
  BY GroupsAssumption, FS_CardinalityType
<1>2. QED
  BY <1>1, PolicyAssumption DEF Quorum, MinOf

\* reviewsCountNeeded never falls below the policy's number of approvals: denials
\* and forced reviews only append rows.
LEMMA NeededIsQuorum ==
    ASSUME \A x \in Reviewers : groups[x] # NoRow
    PROVE  ReviewsCountNeeded >= Quorum /\ ReviewsCountNeeded \in Nat
<1>1. Reviewers \subseteq Present(groups)
  BY DEF Present, RowIds
<1>2. IsFiniteSet(Present(groups))
  BY RowsFinite, FS_Subset DEF Present
<1>3. Cardinality(Reviewers) \in Nat /\ Cardinality(Present(groups)) \in Nat
  BY <1>2, GroupsAssumption, FS_CardinalityType
<1>4. Cardinality(Reviewers) <= Cardinality(Present(groups))
  BY <1>1, <1>2, FS_Subset
<1>5. QED
  BY <1>3, <1>4, PolicyAssumption DEF ReviewsCountNeeded, Quorum, MinOf

-----------------------------------------------------------------------------
(* Drafts *)

\* Whatever review a request that passed the checks reads, its draft is well typed
\* and its status is a decision or PENDING.
LEMMA DraftTyped ==
    ASSUME TypeOK, NEW r \in Requests, NEW u \in Users, NEW st \in Decisions,
           MayDecide(u, st),
           NEW d \in ForcedDrafts(r, u, st) \union IndividualDrafts(r, u, st)
    PROVE  d \in Draft /\ d.status \in Decisions \union {"PENDING"}
<1> DEFINE W(x, g, f) == [status |-> st, forced |-> f,
                          groups |-> [groups EXCEPT ![x] = Reviewed(g, st, u)]]
<1>1. ASSUME NEW x \in RowIds, NEW g \in Groups \union {NoGroup}, NEW f \in BOOLEAN, d = W(x, g, f)
      PROVE  d \in Draft /\ d.status \in Decisions \union {"PENDING"}
  <2>1. Reviewed(g, st, u) \in Row
    BY DEF Reviewed, Row, Decisions, Statuses
  <2>2. [groups EXCEPT ![x] = Reviewed(g, st, u)] \in Rows
    BY <2>1 DEF TypeOK, Rows
  <2>3. QED
    BY <1>1, <2>2 DEF Draft, Decisions, Statuses
<1>2. CASE d = [status |-> IndividualStatus(u, st), forced |-> FALSE, groups |-> Marked(u, st)]
  <2>1. Marked(u, st) \in Rows
    BY DEF TypeOK, Marked, Rows, Row, Reviewed, Decisions, Statuses
  <2>2. IndividualStatus(u, st) \in Decisions \union {"PENDING"}
    BY DEF IndividualStatus, MayDecide, Decisions
  <2>3. QED
    BY <1>2, <2>1, <2>2 DEF Draft, Decisions, Statuses
<1>3. CASE d \in ForcedDrafts(r, u, st)
  <2>1. PICK g \in GroupsOf[u], x \in RowIds : d = W(x, g, st = "APPROVED")
    BY <1>3 DEF ForcedDrafts, Present, RowIds
  <2>2. QED
    BY <1>1, <2>1, UsersAssumption
<1>4. CASE d \in IndividualDrafts(r, u, st)
  <2>1. CASE \E n \in DenialNames(u) : d = W(r, n, FALSE)
    BY <1>1, <2>1, UsersAssumption, GroupsAssumption DEF DenialNames, RowIds
  <2>2. QED
    BY <1>2, <1>4, <2>1 DEF IndividualDrafts
<1>5. QED
  BY <1>3, <1>4

\* A forced draft computed from a sound review is sound.
LEMMA ForcedDraftSound ==
    ASSUME DecisionInv, NEW r \in Requests, NEW u \in Users, NEW st \in Decisions,
           MayDecide(u, st), NEW d \in ForcedDrafts(r, u, st)
    PROVE  Sound(d.status, d.groups, forced \/ d.forced)
<1> DEFINE W(x, g) == [status |-> st, forced |-> st = "APPROVED",
                       groups |-> [groups EXCEPT ![x] = Reviewed(g, st, u)]]
<1>1. PICK g \in GroupsOf[u], x \in RowIds : d = W(x, g)
  BY DEF ForcedDrafts, Present, RowIds
<1>2. d.groups = [groups EXCEPT ![x] = Reviewed(g, st, u)] /\ d.status = st /\ d.forced = (st = "APPROVED")
  BY <1>1
<1>3. \A y \in RowIds : d.groups[y] = IF y = x THEN Reviewed(g, st, u) ELSE groups[y]
  BY <1>2 DEF DecisionInv, TypeOK, Rows
<1>4. Reviewed(g, st, u) # NoRow
  BY DEF Reviewed, NoRow, Decisions
<1>5. \A y \in Reviewers : d.groups[y] # NoRow
  BY <1>3, <1>4 DEF RowIds, DecisionInv, Sound
<1>6. \A y \in ApprovedRows(d.groups) : d.groups[y].by = Owner => IsAdmin(Owner)
  BY <1>3 DEF ApprovedRows, Reviewed, MayDecide, DecisionInv, Sound
<1>7. d.groups[x].status = st /\ d.groups[x].by \in Users
  BY <1>3 DEF Reviewed
<1>8. QED
  BY <1>2, <1>5, <1>6, <1>7 DEF Sound, Decisions

\* A draft of doIndividualReview computed from a sound review is sound.
LEMMA IndividualDraftSound ==
    ASSUME DecisionInv, NEW r \in Requests, NEW u \in Users, NEW st \in Decisions,
           MayDecide(u, st), NEW d \in IndividualDrafts(r, u, st)
    PROVE  Sound(d.status, d.groups, forced \/ d.forced)
<1> USE DEF DecisionInv, TypeOK
<1>1. CASE /\ Eligible(u) \/ (st = "APPROVED" /\ (u = Owner \/ IsAdmin(u)))
           /\ d = [status |-> IndividualStatus(u, st), forced |-> FALSE, groups |-> Marked(u, st)]
  <2>1. d.groups = Marked(u, st) /\ d.status = IndividualStatus(u, st) /\ d.forced = FALSE
    BY <1>1
  <2>2. ASSUME NEW y \in RowIds
        PROVE  /\ \/ Marked(u, st)[y] = groups[y]
                  \/ Marked(u, st)[y] # NoRow /\ Marked(u, st)[y].status = st /\ Marked(u, st)[y].by = u
               /\ groups[y].name \in GroupsOf[u] =>
                     Marked(u, st)[y].status = st /\ Marked(u, st)[y].by = u
    <3>1. CASE groups[y].name \in GroupsOf[u]
      <4>1. Marked(u, st)[y] = Reviewed(groups[y].name, st, u)
        BY <3>1 DEF Marked
      <4>2. QED
        BY <4>1 DEF Reviewed, NoRow, Decisions
    <3>2. CASE groups[y].name \notin GroupsOf[u]
      BY <3>2 DEF Marked
    <3>3. QED
      BY <3>1, <3>2
  <2>3. IndividualStatus(u, st) \in Decisions \union {"PENDING"}
    BY DEF IndividualStatus, MayDecide, Decisions
  <2>4. \A y \in Reviewers : Marked(u, st)[y] # NoRow
    BY <2>2 DEF RowIds, Sound
  <2>5. \A y \in ApprovedRows(Marked(u, st)) : Marked(u, st)[y].by = Owner => IsAdmin(Owner)
    BY <2>2 DEF ApprovedRows, MayDecide, Sound
  <2>6. ASSUME IndividualStatus(u, st) = "APPROVED"
        PROVE  forced \/ Cardinality(ApprovedRows(Marked(u, st))) >= Quorum
    <3>1. st = "APPROVED"
      BY <2>6 DEF IndividualStatus
    <3>2. ApprovedRows(groups) \subseteq ApprovedRows(Marked(u, st))
      BY <2>2, <3>1 DEF ApprovedRows
    <3>3. /\ Cardinality(ApprovedRows(groups)) \in Nat
          /\ Cardinality(ApprovedRows(Marked(u, st))) \in Nat
          /\ Cardinality(ApprovedRows(groups)) <= Cardinality(ApprovedRows(Marked(u, st)))
      BY <3>2, ApprovedMonotonic
    <3>4. ReviewsCountNeeded >= Quorum /\ ReviewsCountNeeded \in Nat
      BY NeededIsQuorum DEF Sound
    <3>5. CASE Cardinality(ApprovedRows(Marked(u, st))) = ReviewsCountNeeded
      BY <3>4, <3>5
    <3>6. CASE status = "APPROVED"
      BY <3>3, <3>6, QuorumType DEF Sound
    <3>7. QED
      BY <2>6, <3>1, <3>5, <3>6 DEF IndividualStatus
  <2>7. ASSUME IndividualStatus(u, st) \in {"REJECTED", "REVOKED"}
        PROVE  \E y \in RowIds : /\ Marked(u, st)[y].status = IndividualStatus(u, st)
                                 /\ Marked(u, st)[y].by \in Users
    <3>1. st # "APPROVED" /\ IndividualStatus(u, st) = st
      BY <2>7 DEF IndividualStatus, MayDecide
    <3>2. PICK y \in Present(groups) : groups[y].name \in GroupsOf[u]
      BY <1>1, <3>1 DEF Eligible
    <3>3. y \in RowIds /\ Marked(u, st)[y].status = st /\ Marked(u, st)[y].by = u
      BY <2>2, <3>2 DEF Present
    <3>4. QED
      BY <3>1, <3>3
  <2>8. QED
    BY <2>1, <2>3, <2>4, <2>5, <2>6, <2>7 DEF Sound
<1>2. CASE \E n \in DenialNames(u) :
              /\ st # "APPROVED"
              /\ d = [status |-> st, forced |-> FALSE,
                      groups |-> [groups EXCEPT ![r] = Reviewed(n, st, u)]]
  <2>1. PICK n \in DenialNames(u) :
              /\ st # "APPROVED"
              /\ d = [status |-> st, forced |-> FALSE,
                      groups |-> [groups EXCEPT ![r] = Reviewed(n, st, u)]]
    BY <1>2
  <2>2. d.groups = [groups EXCEPT ![r] = Reviewed(n, st, u)] /\ d.status = st /\ d.forced = FALSE
    BY <2>1
  <2>3. \A y \in RowIds : d.groups[y] = IF y = r THEN Reviewed(n, st, u) ELSE groups[y]
    BY <2>2 DEF Rows
  <2>4. \A y \in Reviewers : d.groups[y] # NoRow
    BY <2>3 DEF RowIds, Sound, Reviewed, NoRow, Decisions
  <2>5. \A y \in ApprovedRows(d.groups) : d.groups[y].by = Owner => IsAdmin(Owner)
    BY <2>1, <2>3 DEF ApprovedRows, Reviewed, Sound
  <2>6. r \in RowIds /\ d.groups[r].status = st /\ d.groups[r].by \in Users
    BY <2>3 DEF Reviewed, RowIds
  <2>7. QED
    BY <2>1, <2>2, <2>4, <2>5, <2>6 DEF Sound, Decisions
<1>3. QED
  BY <1>1, <1>2 DEF IndividualDrafts

-----------------------------------------------------------------------------
(* The steps *)

\* UpdateReview: what a sound draft says stays true when its rows are merged with
\* the rows other requests appended since it was read.
LEMMA MergeSound ==
    ASSUME NEW st, NEW f, NEW g, NEW rows \in Rows, NEW kept \in Rows,
           Sound(st, rows, f),
           \A x \in ApprovedRows(kept) : kept[x].by = Owner => IsAdmin(Owner),
           g = [x \in RowIds |-> IF rows[x] # NoRow THEN rows[x] ELSE kept[x]]
    PROVE  g \in Rows /\ Sound(st, g, forced \/ f)
<1>1. \A x \in RowIds : g[x] = IF rows[x] # NoRow THEN rows[x] ELSE kept[x]
  OBVIOUS
<1>2. g \in Rows
  BY DEF Rows
<1>3. \A x \in RowIds : rows[x].status # "none" => rows[x] # NoRow
  BY DEF NoRow
<1>4. \A x \in Reviewers : g[x] # NoRow
  BY <1>1 DEF Sound, RowIds
<1>5. ApprovedRows(rows) \subseteq ApprovedRows(g)
  BY <1>1, <1>3 DEF ApprovedRows
<1>6. st = "APPROVED" => (forced \/ f) \/ Cardinality(ApprovedRows(g)) >= Quorum
  <2>1. /\ Cardinality(ApprovedRows(rows)) \in Nat
        /\ Cardinality(ApprovedRows(g)) \in Nat
        /\ Cardinality(ApprovedRows(rows)) <= Cardinality(ApprovedRows(g))
    BY <1>5, ApprovedMonotonic
  <2>2. QED
    BY <2>1, QuorumType DEF Sound
<1>7. \A x \in ApprovedRows(g) : g[x].by = Owner => IsAdmin(Owner)
  BY <1>1 DEF Sound, ApprovedRows
<1>8. st \in {"REJECTED", "REVOKED"} =>
          \E x \in RowIds : g[x].status = st /\ g[x].by \in Users
  BY <1>1, <1>3 DEF Sound
<1>9. QED
  BY <1>2, <1>4, <1>6, <1>7, <1>8 DEF Sound

\* createReview: a new review and the empty drafts are sound.
LEMMA InitSound == Init => DecisionInv
<1> SUFFICES ASSUME Init PROVE DecisionInv
  OBVIOUS
<1>1. \A x \in RowIds : /\ x \in Reviewers => NewRows[x].status = "PENDING"
                        /\ NewRows[x].status # "APPROVED"
                        /\ NewRows[x] \in Row
  <2> SUFFICES ASSUME NEW x \in RowIds
               PROVE  /\ x \in Reviewers => NewRows[x].status = "PENDING"
                      /\ NewRows[x].status # "APPROVED"
                      /\ NewRows[x] \in Row
    OBVIOUS
  <2>1. CASE x \in Reviewers
    <3>1. NewRows[x] = [name |-> x, status |-> "PENDING", by |-> NoUser]
      BY <2>1 DEF NewRows
    <3>2. QED
      BY <2>1, <3>1, GroupsAssumption DEF Row, Statuses
  <2>2. CASE x \notin Reviewers
    <3>1. NewRows[x] = NoRow
      BY <2>2 DEF NewRows
    <3>2. QED
      BY <2>2, <3>1 DEF NoRow, Row
  <2>3. QED
    BY <2>1, <2>2
<1>2. NewRows \in Rows
  BY <1>1 DEF Rows, NewRows
<1>3. \A x \in Reviewers : NewRows[x] # NoRow
  BY <1>1 DEF RowIds, NoRow
<1>4. ApprovedRows(NewRows) = {}
  BY <1>1 DEF ApprovedRows
<1>5. Sound("PENDING", NewRows, FALSE)
  BY <1>3, <1>4 DEF Sound
<1>6. TypeOK
  BY <1>2 DEF Init, TypeOK, Draft, Statuses
<1>7. QED
  BY <1>5, <1>6 DEF Init, DecisionInv

\* DoReview and UpdateReview: every step of every request keeps the review and
\* all the drafts sound.
LEMMA StepSound == DecisionInv /\ [DecisionNext]_decisionVars => DecisionInv'
<1> SUFFICES ASSUME DecisionInv, [DecisionNext]_decisionVars PROVE DecisionInv'
  OBVIOUS
<1>1. CASE UNCHANGED decisionVars
  BY <1>1 DEF decisionVars, DecisionInv, TypeOK, Sound, ApprovedRows
<1>2. ASSUME NEW r \in Requests, NEW u \in Users, NEW st \in Decisions, NEW force \in BOOLEAN,
             DoReviewRead(r, u, st, force)
      PROVE  DecisionInv'
  <2>1. PICK d \in IF force THEN ForcedDrafts(r, u, st) ELSE IndividualDrafts(r, u, st) :
             draft' = [draft EXCEPT ![r] = [d EXCEPT !.forced = forced \/ d.forced]]
    BY <1>2 DEF DoReviewRead
  <2>2. d \in Draft /\ Sound(d.status, d.groups, forced \/ d.forced)
    BY <1>2, <2>1, DraftTyped, ForcedDraftSound, IndividualDraftSound DEF DoReviewRead, DecisionInv
  <2> DEFINE e == [d EXCEPT !.forced = forced \/ d.forced]
  <2>3. e \in Draft /\ e.status = d.status /\ e.groups = d.groups /\ e.forced = (forced \/ d.forced)
    BY <2>2 DEF Draft, DecisionInv, TypeOK
  <2> HIDE DEF e
  <2>4. draft' = [draft EXCEPT ![r] = e]
    BY <2>1 DEF e
  <2>5. draft' \in [Requests -> Draft]
    BY <2>3, <2>4 DEF DecisionInv, TypeOK
  <2>6. \A q \in Requests : draft'[q] = IF q = r THEN e ELSE draft[q]
    BY <2>4 DEF DecisionInv, TypeOK
  <2>7. \A q \in Requests : Sound(draft'[q].status, draft'[q].groups, draft'[q].forced)
    BY <2>2, <2>3, <2>6 DEF DecisionInv
  <2>8. request' \in [Requests -> {"new", "drafted", "done"}]
    BY <1>2 DEF DoReviewRead, DecisionInv, TypeOK
  <2>9. UNCHANGED <<status, groups, session, forced>>
    BY <1>2 DEF DoReviewRead
  <2>10. QED
    BY <2>5, <2>7, <2>8, <2>9 DEF DecisionInv, TypeOK, Sound, ApprovedRows
<1>3. ASSUME NEW r \in Requests, UpdateReview(r) PROVE DecisionInv'
  <2> DEFINE d == draft[r]
  <2>1. d \in Draft /\ Sound(d.status, d.groups, d.forced)
    BY DEF DecisionInv, TypeOK
  <2>2. d.status \in Statuses /\ d.groups \in Rows /\ d.forced \in BOOLEAN
    BY <2>1 DEF Draft
  <2>3. /\ status' = d.status
        /\ groups' = [x \in RowIds |-> IF d.groups[x] # NoRow THEN d.groups[x] ELSE groups[x]]
        /\ session' = CASE d.status = "APPROVED"                -> "ready"
                        [] d.status \in {"REJECTED", "REVOKED"} -> "done"
                        [] OTHER                                -> session
        /\ forced' = (forced \/ d.forced)
        /\ request' = [request EXCEPT ![r] = "done"]
        /\ draft' = draft
    BY <1>3 DEF UpdateReview
  <2> HIDE DEF d
  <2>4. groups' \in Rows /\ Sound(d.status, groups', forced \/ d.forced)
    <3>1. groups \in Rows /\ \A x \in ApprovedRows(groups) : groups[x].by = Owner => IsAdmin(Owner)
      BY DEF DecisionInv, TypeOK, Sound
    <3>2. QED
      BY <2>1, <2>2, <2>3, <3>1, MergeSound
  <2>5. session' \in {"open", "ready", "done"}
    BY <2>3 DEF DecisionInv, TypeOK
  <2>6. TypeOK'
    BY <2>2, <2>3, <2>4, <2>5 DEF DecisionInv, TypeOK
  <2>7. Sound(status', groups', forced')
    BY <2>3, <2>4
  <2>8. \A q \in Requests : Sound(draft'[q].status, draft'[q].groups, draft'[q].forced)
    BY <2>3 DEF DecisionInv
  <2>9. QED
    BY <2>5, <2>6, <2>7, <2>8 DEF DecisionInv, Sound, ApprovedRows
<1>4. ASSUME NEW r \in Requests, UpdateFails(r) PROVE DecisionInv'
  <2>1. TypeOK'
    BY <1>4 DEF UpdateFails, DecisionInv, TypeOK
  <2>2. QED
    BY <1>4, <2>1 DEF UpdateFails, DecisionInv, Sound, ApprovedRows
<1>5. QED
  BY <1>1, <1>2, <1>3, <1>4 DEF DecisionNext

-----------------------------------------------------------------------------
(* The theorems *)

\* The invariant of the review and of all the drafts in flight.
LEMMA DecisionInvariant == Spec => []DecisionInv
  BY InitSound, StepSound, PTL DEF Spec

\* Every variable keeps its type.
THEOREM DecisionTypeCorrect == Spec => []TypeOK
<1>1. DecisionInv => TypeOK
  BY DEF DecisionInv
<1>2. QED
  BY <1>1, DecisionInvariant, PTL

\* doIndividualReview and UpdateReview: a review is approved only with the
\* approvals the policy asks for or by a forced approval, however many stale
\* requests are written.
THEOREM ApprovalBacked == Spec => []ApprovalIsBacked
<1>1. DecisionInv => ApprovalIsBacked
  BY DEF DecisionInv, Sound, ApprovalIsBacked
<1>2. QED
  BY <1>1, DecisionInvariant, PTL

\* validateReviewStatusTransition: no stored approval is the requester's own unless
\* the requester is an administrator.
THEOREM NobodyApprovesOwn == Spec => []NoSelfApproval
<1>1. DecisionInv => NoSelfApproval
  BY DEF DecisionInv, Sound, NoSelfApproval
<1>2. QED
  BY <1>1, DecisionInvariant, PTL

\* UpdateReview: a denial is on record with its author.
THEOREM DenialRecorded == Spec => []DenialIsAttributed
<1>1. DecisionInv => DenialIsAttributed
  BY DEF DecisionInv, Sound, DenialIsAttributed
<1>2. QED
  BY <1>1, DecisionInvariant, PTL

-----------------------------------------------------------------------------
(* Executions *)

\* No draft is in PROCESSING: decisions refuse a review that is.
DraftsDecide == \A r \in Requests : draft[r].status \in Decisions \union {"PENDING"}

ExecTyped == ExecTypeOK /\ DraftsDecide

\* A step of a review request keeps the types of the review and writes a decision
\* or PENDING.
LEMMA DecideTyped ==
    ASSUME TypeOK, DraftsDecide, DecisionNext
    PROVE  /\ TypeOK' /\ DraftsDecide'
           /\ status' = status \/ status' \in Decisions \union {"PENDING"}
           /\ session' = session \/ status' \in Decisions
<1>1. ASSUME NEW r \in Requests, NEW u \in Users, NEW st \in Decisions, NEW force \in BOOLEAN,
             DoReviewRead(r, u, st, force)
      PROVE  TypeOK' /\ DraftsDecide' /\ UNCHANGED <<status, session>>
  <2>1. PICK d \in IF force THEN ForcedDrafts(r, u, st) ELSE IndividualDrafts(r, u, st) :
             draft' = [draft EXCEPT ![r] = [d EXCEPT !.forced = forced \/ d.forced]]
    BY <1>1 DEF DoReviewRead
  <2>2. d \in Draft /\ d.status \in Decisions \union {"PENDING"}
    BY <1>1, <2>1, DraftTyped DEF DoReviewRead
  <2> DEFINE e == [d EXCEPT !.forced = forced \/ d.forced]
  <2>3. e \in Draft /\ e.status = d.status
    BY <2>2 DEF Draft, TypeOK
  <2> HIDE DEF e
  <2>4. draft' = [draft EXCEPT ![r] = e]
    BY <2>1 DEF e
  <2>5. draft' \in [Requests -> Draft] /\ DraftsDecide'
    BY <2>2, <2>3, <2>4 DEF TypeOK, DraftsDecide
  <2>6. QED
    BY <1>1, <2>5 DEF DoReviewRead, TypeOK
<1>2. ASSUME NEW r \in Requests, UpdateReview(r)
      PROVE  /\ TypeOK' /\ DraftsDecide' /\ status' \in Decisions \union {"PENDING"}
             /\ session' = session \/ status' \in Decisions
  <2>1. draft[r].status \in Statuses /\ draft[r].groups \in Rows /\ draft[r].forced \in BOOLEAN
    BY DEF TypeOK, Draft
  <2>2. groups' \in Rows
    BY <1>2, <2>1 DEF UpdateReview, TypeOK, Rows
  <2>3. session' \in {"open", "ready", "done"} /\ (session' = session \/ status' \in Decisions)
    BY <1>2 DEF UpdateReview, TypeOK, Decisions
  <2>4. QED
    BY <1>2, <2>1, <2>2, <2>3 DEF UpdateReview, TypeOK, DraftsDecide
<1>3. ASSUME NEW r \in Requests, UpdateFails(r)
      PROVE  TypeOK' /\ DraftsDecide' /\ UNCHANGED <<status, session>>
  BY <1>3 DEF UpdateFails, TypeOK, DraftsDecide
<1>4. QED
  BY <1>1, <1>2, <1>3 DEF DecisionNext

\* The types of the review, of the handlers and of the gateway sessions.
LEMMA ExecTypeInvariant == ExecSpec => []ExecTyped
<1>1. ExecInit => ExecTyped
  <2> SUFFICES ASSUME ExecInit PROVE ExecTyped
    OBVIOUS
  <2>1. TypeOK
    BY InitSound DEF ExecInit, DecisionInv
  <2>2. DraftsDecide
    BY DEF ExecInit, Init, DraftsDecide
  <2>3. QED
    BY <2>1, <2>2 DEF ExecInit, ExecTyped, ExecTypeOK, ApiStates, RunStates, Statuses
<1>2. ExecTyped /\ [ExecNext]_vars => ExecTyped'
  <2> SUFFICES ASSUME ExecTyped, [ExecNext]_vars PROVE ExecTyped'
    OBVIOUS
  <2>1. CASE UNCHANGED vars
    BY <2>1 DEF vars, decisionVars, execVars, closeVars, ExecTyped, ExecTypeOK, TypeOK, DraftsDecide
  <2>2. CASE Decide
    BY <2>2, DecideTyped DEF Decide, ExecTyped, ExecTypeOK, locks, closeVars
  <2> USE DEF ExecTyped, ExecTypeOK, TypeOK, DraftsDecide, Api, Run, Unlock, Forget, UpdateReviewStatus,
              decisionVars, execVars, closeVars, locks, Disconnect, ApiStates, RunStates, Answered,
              Statuses, Decisions, SettledStatus
  <2>3. ASSUME NEW e \in Execs, ReadReview(e) PROVE ExecTyped'
    BY <2>3 DEF ReadReview
  <2>4. ASSUME NEW e \in Execs, IsLockedForExec(e) PROVE ExecTyped'
    BY <2>4 DEF IsLockedForExec
  <2>5. ASSUME NEW e \in Execs, LockExec(e) PROVE ExecTyped'
    BY <2>5 DEF LockExec
  <2>6. ASSUME NEW e \in Execs, LockMcp(e) PROVE ExecTyped'
    BY <2>6 DEF LockMcp
  <2>7. ASSUME NEW e \in Execs, RefuseExec(e) PROVE ExecTyped'
    <3>1. TypeOK' /\ DraftsDecide'
      BY <2>7 DEF RefuseExec
    <3>2. api' \in [Execs -> ApiStates] /\ saw' \in [Execs -> Statuses]
      BY <2>7 DEF RefuseExec
    <3>3. run' \in [Execs -> RunStates]
      BY <2>7 DEF RefuseExec
    <3>4. /\ httpLock' \in BOOLEAN /\ mcpLock' \in BOOLEAN /\ granted' \in BOOLEAN
          /\ ran' \in Nat /\ restarts' \in Nat
      BY <2>7 DEF RefuseExec
    <3>5. /\ stored' \in Execs \union {NoExec} /\ cut' \subseteq Execs
          /\ closer' \in [Closers -> {"idle", "mark", "settle"}]
          /\ deleting' \in [Closers -> Execs \union {NoExec}]
          /\ reconcile' \in {"pending", "done", "failed"}
          /\ failed' \subseteq {"mark", "settle"} /\ orphaned' \in BOOLEAN
      BY <2>7 DEF RefuseExec
    <3> HIDE DEF TypeOK, DraftsDecide, Statuses, ApiStates, RunStates, Decisions
    <3>6. QED
      BY <3>1, <3>2, <3>3, <3>4, <3>5
  <2>8. ASSUME NEW e \in Execs, StartExec(e) PROVE ExecTyped'
    BY <2>8 DEF StartExec
  <2>9. ASSUME NEW e \in Execs, Respond(e) PROVE ExecTyped'
    <3>1. TypeOK' /\ DraftsDecide'
      BY <2>9 DEF Respond
    <3>2. api' \in [Execs -> ApiStates] /\ saw' \in [Execs -> Statuses]
      BY <2>9 DEF Respond
    <3>3. run' \in [Execs -> RunStates]
      BY <2>9 DEF Respond
    <3>4. /\ httpLock' \in BOOLEAN /\ mcpLock' \in BOOLEAN /\ granted' \in BOOLEAN
          /\ ran' \in Nat /\ restarts' \in Nat
      BY <2>9 DEF Respond
    <3>5. /\ stored' \in Execs \union {NoExec} /\ cut' \subseteq Execs
          /\ closer' \in [Closers -> {"idle", "mark", "settle"}]
          /\ deleting' \in [Closers -> Execs \union {NoExec}]
          /\ reconcile' \in {"pending", "done", "failed"}
          /\ failed' \subseteq {"mark", "settle"} /\ orphaned' \in BOOLEAN
      BY <2>9 DEF Respond
    <3> HIDE DEF TypeOK, DraftsDecide, Statuses, ApiStates, RunStates, Decisions
    <3>6. QED
      BY <3>1, <3>2, <3>3, <3>4, <3>5
  <2>10. ASSUME NEW e \in Execs, TimeoutExec(e) PROVE ExecTyped'
    <3>1. TypeOK' /\ DraftsDecide'
      BY <2>10 DEF TimeoutExec
    <3>2. api' \in [Execs -> ApiStates] /\ saw' \in [Execs -> Statuses]
      BY <2>10 DEF TimeoutExec
    <3>3. run' \in [Execs -> RunStates]
      BY <2>10 DEF TimeoutExec
    <3>4. /\ httpLock' \in BOOLEAN /\ mcpLock' \in BOOLEAN /\ granted' \in BOOLEAN
          /\ ran' \in Nat /\ restarts' \in Nat
      BY <2>10 DEF TimeoutExec
    <3>5. /\ stored' \in Execs \union {NoExec} /\ cut' \subseteq Execs
          /\ closer' \in [Closers -> {"idle", "mark", "settle"}]
          /\ deleting' \in [Closers -> Execs \union {NoExec}]
          /\ reconcile' \in {"pending", "done", "failed"}
          /\ failed' \subseteq {"mark", "settle"} /\ orphaned' \in BOOLEAN
      BY <2>10 DEF TimeoutExec
    <3> HIDE DEF TypeOK, DraftsDecide, Statuses, ApiStates, RunStates, Decisions
    <3>6. QED
      BY <3>1, <3>2, <3>3, <3>4, <3>5
  <2>11. ASSUME NEW e \in Execs, Intercept(e) PROVE ExecTyped'
    BY <2>11 DEF Intercept
  <2>12. ASSUME NEW e \in Execs, MarkProcessing(e) PROVE ExecTyped'
    <3>1. TypeOK' /\ DraftsDecide'
      BY <2>12 DEF MarkProcessing
    <3>2. api' \in [Execs -> ApiStates] /\ saw' \in [Execs -> Statuses]
      BY <2>12 DEF MarkProcessing
    <3>3. run' \in [Execs -> RunStates]
      BY <2>12 DEF MarkProcessing
    <3>4. /\ httpLock' \in BOOLEAN /\ mcpLock' \in BOOLEAN /\ granted' \in BOOLEAN
          /\ ran' \in Nat /\ restarts' \in Nat
      BY <2>12 DEF MarkProcessing
    <3>5. /\ stored' \in Execs \union {NoExec} /\ cut' \subseteq Execs
          /\ closer' \in [Closers -> {"idle", "mark", "settle"}]
          /\ deleting' \in [Closers -> Execs \union {NoExec}]
          /\ reconcile' \in {"pending", "done", "failed"}
          /\ failed' \subseteq {"mark", "settle"} /\ orphaned' \in BOOLEAN
      BY <2>12 DEF MarkProcessing
    <3> HIDE DEF TypeOK, DraftsDecide, Statuses, ApiStates, RunStates, Decisions
    <3>6. QED
      BY <3>1, <3>2, <3>3, <3>4, <3>5
  <2>13. ASSUME NEW e \in Execs, OpenSession(e) PROVE ExecTyped'
    <3>1. TypeOK' /\ DraftsDecide'
      BY <2>13 DEF OpenSession
    <3>2. api' \in [Execs -> ApiStates] /\ saw' \in [Execs -> Statuses]
      BY <2>13 DEF OpenSession
    <3>3. run' \in [Execs -> RunStates]
      BY <2>13 DEF OpenSession
    <3>4. /\ httpLock' \in BOOLEAN /\ mcpLock' \in BOOLEAN /\ granted' \in BOOLEAN
          /\ ran' \in Nat /\ restarts' \in Nat
      BY <2>13 DEF OpenSession
    <3>5. /\ stored' \in Execs \union {NoExec} /\ cut' \subseteq Execs
          /\ closer' \in [Closers -> {"idle", "mark", "settle"}]
          /\ deleting' \in [Closers -> Execs \union {NoExec}]
          /\ reconcile' \in {"pending", "done", "failed"}
          /\ failed' \subseteq {"mark", "settle"} /\ orphaned' \in BOOLEAN
      BY <2>13 DEF OpenSession
    <3> HIDE DEF TypeOK, DraftsDecide, Statuses, ApiStates, RunStates, Decisions
    <3>6. QED
      BY <3>1, <3>2, <3>3, <3>4, <3>5
  <2>14. ASSUME NEW c \in Closers, CloseStream(c) PROVE ExecTyped'
    BY <2>14 DEF CloseStream
  <2>15. ASSUME NEW c \in Closers, CloseReviewed(c) PROVE ExecTyped'
    <3>1. TypeOK' /\ DraftsDecide'
      BY <2>15 DEF CloseReviewed
    <3>2. api' \in [Execs -> ApiStates] /\ saw' \in [Execs -> Statuses]
      BY <2>15 DEF CloseReviewed
    <3>3. run' \in [Execs -> RunStates]
      BY <2>15 DEF CloseReviewed
    <3>4. /\ httpLock' \in BOOLEAN /\ mcpLock' \in BOOLEAN /\ granted' \in BOOLEAN
          /\ ran' \in Nat /\ restarts' \in Nat
      BY <2>15 DEF CloseReviewed
    <3>5. /\ stored' \in Execs \union {NoExec} /\ cut' \subseteq Execs
          /\ closer' \in [Closers -> {"idle", "mark", "settle"}]
          /\ deleting' \in [Closers -> Execs \union {NoExec}]
          /\ reconcile' \in {"pending", "done", "failed"}
          /\ failed' \subseteq {"mark", "settle"} /\ orphaned' \in BOOLEAN
      BY <2>15 DEF CloseReviewed
    <3> HIDE DEF TypeOK, DraftsDecide, Statuses, ApiStates, RunStates, Decisions
    <3>6. QED
      BY <3>1, <3>2, <3>3, <3>4, <3>5
  <2>16. ASSUME NEW c \in Closers, Del(c) PROVE ExecTyped'
    BY <2>16 DEF Del
  <2>17. ASSUME NEW c \in Closers, MarkSessionDone(c) PROVE ExecTyped'
    <3>1. TypeOK' /\ DraftsDecide'
      BY <2>17 DEF MarkSessionDone
    <3>2. api' \in [Execs -> ApiStates] /\ saw' \in [Execs -> Statuses]
      BY <2>17 DEF MarkSessionDone
    <3>3. run' \in [Execs -> RunStates]
      BY <2>17 DEF MarkSessionDone
    <3>4. /\ httpLock' \in BOOLEAN /\ mcpLock' \in BOOLEAN /\ granted' \in BOOLEAN
          /\ ran' \in Nat /\ restarts' \in Nat
      BY <2>17 DEF MarkSessionDone
    <3>5. /\ stored' \in Execs \union {NoExec} /\ cut' \subseteq Execs
          /\ closer' \in [Closers -> {"idle", "mark", "settle"}]
          /\ deleting' \in [Closers -> Execs \union {NoExec}]
          /\ reconcile' \in {"pending", "done", "failed"}
          /\ failed' \subseteq {"mark", "settle"} /\ orphaned' \in BOOLEAN
      BY <2>17 DEF MarkSessionDone
    <3> HIDE DEF TypeOK, DraftsDecide, Statuses, ApiStates, RunStates, Decisions
    <3>6. QED
      BY <3>1, <3>2, <3>3, <3>4, <3>5
  <2>18. ASSUME NEW c \in Closers, Settle(c) PROVE ExecTyped'
    BY ZenonT(60), <2>18 DEF Settle
  <2>19. CASE Restart
    <3>1. run' \in [Execs -> RunStates]
      BY <2>19 DEF Restart
    <3>2. api' \in [Execs -> ApiStates]
      BY <2>19 DEF Restart
    <3>3. request' \in [Requests -> {"new", "drafted", "done"}]
      BY <2>19 DEF Restart
    <3>4. /\ closer' \in [Closers -> {"idle", "mark", "settle"}]
          /\ deleting' \in [Closers -> Execs \union {NoExec}]
      BY <2>19 DEF Restart
    <3>5. UNCHANGED <<status, groups, session, draft, forced, saw, ran, granted, failed, orphaned>>
      BY <2>19 DEF Restart
    <3>6. /\ httpLock' = FALSE /\ mcpLock' = FALSE /\ restarts' \in Nat
          /\ stored' = NoExec /\ cut' = {} /\ reconcile' = "pending"
      BY <2>19 DEF Restart
    <3> HIDE DEF Statuses, ApiStates, RunStates, Decisions
    <3>7. QED
      BY <3>1, <3>2, <3>3, <3>4, <3>5, <3>6
  <2>20. CASE Reconcile
    <3>1. TypeOK' /\ DraftsDecide'
      BY <2>20 DEF Reconcile
    <3>2. api' \in [Execs -> ApiStates] /\ saw' \in [Execs -> Statuses]
      BY <2>20 DEF Reconcile
    <3>3. run' \in [Execs -> RunStates]
      BY <2>20 DEF Reconcile
    <3>4. /\ httpLock' \in BOOLEAN /\ mcpLock' \in BOOLEAN /\ granted' \in BOOLEAN
          /\ ran' \in Nat /\ restarts' \in Nat
      BY <2>20 DEF Reconcile
    <3>5. /\ stored' \in Execs \union {NoExec} /\ cut' \subseteq Execs
          /\ closer' \in [Closers -> {"idle", "mark", "settle"}]
          /\ deleting' \in [Closers -> Execs \union {NoExec}]
          /\ reconcile' \in {"pending", "done", "failed"}
          /\ failed' \subseteq {"mark", "settle"} /\ orphaned' \in BOOLEAN
      BY <2>20 DEF Reconcile
    <3> HIDE DEF TypeOK, DraftsDecide, Statuses, ApiStates, RunStates, Decisions
    <3>6. QED
      BY <3>1, <3>2, <3>3, <3>4, <3>5
  <2>21. QED
    BY <2>1, <2>2, <2>3, <2>4, <2>5, <2>6, <2>7, <2>8, <2>9, <2>10,
       <2>11, <2>12, <2>13, <2>14, <2>15, <2>16, <2>17, <2>18, <2>19, <2>20
    DEF ExecNext, Gateway
<1>3. QED
  BY <1>1, <1>2, PTL DEF ExecSpec

\* Every variable keeps its type.
THEOREM ExecTypeCorrect == ExecSpec => []ExecTypeOK
<1>1. ExecTyped => ExecTypeOK
  BY DEF ExecTyped
<1>2. QED
  BY <1>1, ExecTypeInvariant, PTL

-----------------------------------------------------------------------------
(* Nothing runs without an approval *)

\* A session that passed the interceptor did so on an approval.
GrantInv ==
    /\ status \in {"APPROVED", "PROCESSING"} => granted
    /\ ran > 0 => granted
    /\ \A e \in Execs : run[e] \in {"mark", "go"} => granted

\* getValidatedOneTimeReview: however decisions, executions, responses, failures and
\* restarts interleave, the agent runs nothing that was never approved.
THEOREM RunsGranted == ExecSpec => []RunOnlyIfGranted
<1>1. ExecInit => GrantInv
  BY DEF ExecInit, Init, GrantInv
<1>2. ExecTyped /\ GrantInv /\ [ExecNext]_vars => GrantInv'
  <2> SUFFICES ASSUME ExecTyped, GrantInv, [ExecNext]_vars PROVE GrantInv'
    OBVIOUS
  <2>1. CASE UNCHANGED vars
    BY <2>1 DEF vars, decisionVars, execVars, GrantInv
  <2>2. CASE Decide
    BY <2>2, DecideTyped DEF Decide, GrantInv, ExecTyped, ExecTypeOK, Decisions
  <2> USE DEF GrantInv, ExecTyped, ExecTypeOK, Api, Run, UpdateReviewStatus,
              decisionVars, execVars, SettledStatus, Disconnect
  <2>3. ASSUME NEW e \in Execs, ReadReview(e) PROVE GrantInv'
    BY <2>3 DEF ReadReview
  <2>4. ASSUME NEW e \in Execs, IsLockedForExec(e) PROVE GrantInv'
    BY <2>4 DEF IsLockedForExec
  <2>5. ASSUME NEW e \in Execs, LockExec(e) PROVE GrantInv'
    BY <2>5 DEF LockExec
  <2>6. ASSUME NEW e \in Execs, LockMcp(e) PROVE GrantInv'
    BY <2>6 DEF LockMcp
  <2>7. ASSUME NEW e \in Execs, RefuseExec(e) PROVE GrantInv'
    BY <2>7 DEF RefuseExec
  <2>8. ASSUME NEW e \in Execs, StartExec(e) PROVE GrantInv'
    BY <2>8 DEF StartExec
  <2>9. ASSUME NEW e \in Execs, Respond(e) PROVE GrantInv'
    <3>1. CASE UNCHANGED <<decisionVars, granted>>
      BY <2>9, <3>1 DEF Respond
    <3>2. CASE UpdateReviewStatus("APPROVED")
      BY <2>9, <3>2 DEF Respond
    <3>3. CASE UpdateReviewStatus("EXECUTED")
      BY <2>9, <3>3 DEF Respond
    <3>4. QED
      BY <2>9, <3>1, <3>2, <3>3 DEF Respond
  <2>10. ASSUME NEW e \in Execs, TimeoutExec(e) PROVE GrantInv'
    BY <2>10 DEF TimeoutExec
  <2>11. ASSUME NEW e \in Execs, Intercept(e) PROVE GrantInv'
    BY <2>11 DEF Intercept
  <2>12. ASSUME NEW e \in Execs, MarkProcessing(e) PROVE GrantInv'
    BY <2>12 DEF MarkProcessing
  <2>13. ASSUME NEW e \in Execs, OpenSession(e) PROVE GrantInv'
    BY <2>13 DEF OpenSession
  <2>14. ASSUME NEW c \in Closers, CloseStream(c) PROVE GrantInv'
    BY <2>14 DEF CloseStream
  <2>15. ASSUME NEW c \in Closers, CloseReviewed(c) PROVE GrantInv'
    BY <2>15 DEF CloseReviewed
  <2>16. ASSUME NEW c \in Closers, Del(c) PROVE GrantInv'
    BY <2>16 DEF Del
  <2>17. ASSUME NEW c \in Closers, MarkSessionDone(c) PROVE GrantInv'
    BY <2>17 DEF MarkSessionDone
  <2>18. ASSUME NEW c \in Closers, Settle(c) PROVE GrantInv'
    BY <2>18 DEF Settle
  <2>19. CASE Restart
    BY <2>19 DEF Restart
  <2>20. CASE Reconcile
    BY <2>20 DEF Reconcile
  <2>21. QED
    BY <2>1, <2>2, <2>3, <2>4, <2>5, <2>6, <2>7, <2>8, <2>9, <2>10,
       <2>11, <2>12, <2>13, <2>14, <2>15, <2>16, <2>17, <2>18, <2>19, <2>20
    DEF ExecNext, Gateway
<1>3. GrantInv => RunOnlyIfGranted
  BY DEF GrantInv, RunOnlyIfGranted
<1>4. QED
  BY <1>1, <1>2, <1>3, ExecTypeInvariant, PTL DEF ExecSpec

-----------------------------------------------------------------------------
(* No review is stuck *)

\* Somebody is still going to settle the review, or the code's own exceptions hold.
Closing == \E c \in Closers : closer[c] # "idle"
Excused == reconcile # "done" \/ "settle" \in failed \/ orphaned
Held    == stored # NoExec /\ run[stored] # "refused"
Stale   == status = "PROCESSING" /\ session = "done"

\* The last conjunct is what Del needs: it may take the last stream from the store
\* although the goroutine its Close started has come and gone.  By then the review
\* was settled, or the session was not done and whoever marks it done settles.
SettleInv ==
    /\ stored # NoExec => run[stored] # "none"
    /\ \A c \in Closers : deleting[c] # NoExec => run[deleting[c]] # "none"
    /\ \A e \in Execs : run[e] # "none" => ReviewType = "onetime"
    /\ status = "PROCESSING" => ReviewType = "onetime"
    /\ Stale => Closing \/ Held \/ Excused
    /\ \A c \in Closers : Stale /\ deleting[c] # NoExec => Closing \/ Excused \/ deleting[c] # stored

\* closeSession and ReconcileStaleReviews: a review in PROCESSING whose session is
\* done is still going to be settled, but for statements the database refused and
\* streams nobody finds any more.
THEOREM NotStuck == ExecSpec => []NeverStuckProcessing
<1>1. ExecInit => SettleInv
  BY DEF ExecInit, Init, SettleInv, Stale
<1>2. ExecTyped /\ SettleInv /\ [ExecNext]_vars => SettleInv'
  <2> SUFFICES ASSUME ExecTyped, SettleInv, [ExecNext]_vars PROVE SettleInv'
    OBVIOUS
  <2>1. CASE UNCHANGED vars
    BY <2>1 DEF vars, decisionVars, execVars, closeVars, SettleInv, Stale, Closing, Held, Excused
  <2>2. CASE Decide
    BY <2>2, DecideTyped DEF Decide, SettleInv, ExecTyped, ExecTypeOK, Decisions, closeVars,
       Stale, Closing, Held, Excused
  <2> USE DEF SettleInv, Stale, Closing, Held, Excused, ExecTyped, ExecTypeOK, Api, Run,
              UpdateReviewStatus, decisionVars, execVars, closeVars, SettledStatus, Disconnect, MayExec
  <2>3. ASSUME NEW e \in Execs, ReadReview(e) PROVE SettleInv'
    BY <2>3 DEF ReadReview
  <2>4. ASSUME NEW e \in Execs, IsLockedForExec(e) PROVE SettleInv'
    BY <2>4 DEF IsLockedForExec
  <2>5. ASSUME NEW e \in Execs, LockExec(e) PROVE SettleInv'
    BY <2>5 DEF LockExec
  <2>6. ASSUME NEW e \in Execs, LockMcp(e) PROVE SettleInv'
    BY <2>6 DEF LockMcp
  <2>7. ASSUME NEW e \in Execs, RefuseExec(e) PROVE SettleInv'
    BY <2>7 DEF RefuseExec
  <2>8. ASSUME NEW e \in Execs, StartExec(e) PROVE SettleInv'
    <3>1. e # NoExec /\ run[e] = "none" /\ ReviewType = "onetime"
      BY <2>8, ExecAssumption DEF StartExec
    <3>2. CASE stored' = stored
      BY <2>8, <3>1, <3>2 DEF StartExec
    <3>3. CASE stored' = e
      BY <2>8, <3>1, <3>3 DEF StartExec
    <3>4. QED
      BY <2>8, <3>2, <3>3 DEF StartExec
  <2>9. ASSUME NEW e \in Execs, Respond(e) PROVE SettleInv'
    BY <2>9 DEF Respond
  <2>10. ASSUME NEW e \in Execs, TimeoutExec(e) PROVE SettleInv'
    BY <2>10 DEF TimeoutExec
  <2>11. ASSUME NEW e \in Execs, Intercept(e) PROVE SettleInv'
    BY <2>11 DEF Intercept
  <2>12. ASSUME NEW e \in Execs, MarkProcessing(e) PROVE SettleInv'
    <3>1. CASE orphaned'
      BY <2>12, <3>1 DEF MarkProcessing
    <3>2. CASE UNCHANGED decisionVars /\ ~orphaned'
      BY <2>12, <3>2 DEF MarkProcessing
    <3>3. CASE run' = [run EXCEPT ![e] = "go"] /\ ~orphaned'
      <4>1. stored = e /\ \A c \in Closers : deleting[c] # e
        BY <2>12, <3>3 DEF MarkProcessing
      <4>2. e # NoExec
        BY ExecAssumption
      <4>3. QED
        BY <2>12, <3>3, <4>1, <4>2 DEF MarkProcessing
    <3>4. QED
      BY <2>12, <3>1, <3>2, <3>3 DEF MarkProcessing
  <2>13. ASSUME NEW e \in Execs, OpenSession(e) PROVE SettleInv'
    BY <2>13 DEF OpenSession
  <2>14. ASSUME NEW c \in Closers, CloseStream(c) PROVE SettleInv'
    BY <2>14 DEF CloseStream
  <2>15. ASSUME NEW c \in Closers, CloseReviewed(c) PROVE SettleInv'
    BY <2>15 DEF CloseReviewed
  <2>16. ASSUME NEW c \in Closers, Del(c) PROVE SettleInv'
    BY <2>16 DEF Del
  <2>17. ASSUME NEW c \in Closers, MarkSessionDone(c) PROVE SettleInv'
    BY <2>17 DEF MarkSessionDone
  <2>18. ASSUME NEW c \in Closers, Settle(c) PROVE SettleInv'
    BY <2>18 DEF Settle
  <2>19. CASE Restart
    BY <2>19 DEF Restart
  <2>20. CASE Reconcile
    BY <2>20 DEF Reconcile
  <2>21. QED
    BY <2>1, <2>2, <2>3, <2>4, <2>5, <2>6, <2>7, <2>8, <2>9, <2>10,
       <2>11, <2>12, <2>13, <2>14, <2>15, <2>16, <2>17, <2>18, <2>19, <2>20
    DEF ExecNext, Gateway
<1>3. SettleInv => NeverStuckProcessing
  BY DEF SettleInv, Stale, Closing, Held, Excused, NeverStuckProcessing
<1>4. QED
  BY <1>1, <1>2, <1>3, ExecTypeInvariant, PTL DEF ExecSpec
=============================================================================
