--------------------------- MODULE JitAccessProofs ---------------------------
(***************************************************************************)
(* Proofs about JitAccess: how late the deadline of a session can be, for  *)
(* any durations and any number of sessions and requests.                  *)
(***************************************************************************)
EXTENDS JitAccess, TLAPS

\* Decisions are in the past.
HistoryIsPast == \A r \in Sessions : decided[r] <= now /\ denied[r] <= now

\* What is stored expires at most a duration after the last decision to approve.
Expires(r, t) == t # None => t <= decided[r] + review[r].duration
WrittenExpires ==
    \A r \in Reviewed : /\ Expires(r, review[r].revokedAt)
                        /\ review[r].status = "APPROVED" => review[r].revokedAt # None

\* So does what a request is about to write ...
DraftExpires ==
    \A q \in Requests : draft[q] # None =>
        /\ draft[q].of \in Reviewed
        /\ Expires(draft[q].of, draft[q].revokedAt)
        /\ draft[q].status = "APPROVED" => draft[q].revokedAt # None

\* ... and what a session has read, which was approved.
FoundExpires ==
    \A s \in Sessions : found[s] # None =>
        /\ found[s].of \in Reviewed /\ found[s].was.duration = review[found[s].of].duration
        /\ found[s].was.status = "APPROVED"
        /\ Expires(found[s].of, found[s].was.revokedAt)

\* A session was granted its time in the past.
GrantIsPast ==
    \A s \in Sessions : by[s] # None =>
        /\ by[s] \in Reviewed /\ deadline[s] # None
        /\ deadline[s] <= now + review[by[s]].duration

JitInv ==
    /\ TypeOK /\ HistoryIsPast /\ WrittenExpires /\ DraftExpires /\ FoundExpires /\ GrantIsPast
    /\ AccessIsBounded /\ DenialFades

LEMMA JitInvariant == Spec => []JitInv
<1> USE JitAssumption DEF sessionVars, reviewVars
<1>1. Init => JitInv
  BY DEF Init, JitInv, TypeOK, HistoryIsPast, WrittenExpires, DraftExpires, FoundExpires,
     GrantIsPast, AccessIsBounded, DenialFades, Reviewed
<1>2. JitInv /\ [Next]_vars => JitInv'
  <2> SUFFICES ASSUME JitInv, [Next]_vars PROVE JitInv'
    OBVIOUS
  <2> USE DEF JitInv, TypeOK
  <2>1. CASE UNCHANGED vars
    BY <2>1 DEF vars, HistoryIsPast, WrittenExpires, DraftExpires, FoundExpires, GrantIsPast,
       AccessIsBounded, DenialFades, Expires, Reviewed
  <2>2. ASSUME Tick PROVE JitInv'
    <3>1. TypeOK'
      BY <2>2 DEF Tick, Review, Statuses, Denials, DraftExpires, FoundExpires, Reviewed
    <3>2. HistoryIsPast'
      BY <2>2, <3>1 DEF Tick, HistoryIsPast, Review, Statuses, Denials
    <3>3. GrantIsPast'
      BY <2>2, <3>1 DEF Tick, GrantIsPast, Reviewed, FoundExpires, Review, Statuses, Denials
    <3>4. WrittenExpires' /\ DraftExpires' /\ FoundExpires' /\ AccessIsBounded' /\ DenialFades'
      BY <2>2 DEF Tick, WrittenExpires, DraftExpires, FoundExpires, AccessIsBounded, DenialFades, Expires, Reviewed
    <3>5. QED
      BY <3>1, <3>2, <3>3, <3>4
  <2>3. ASSUME NEW s \in Sessions, Lookup(s) PROVE JitInv'
    <3>1. TypeOK'
      BY <2>3 DEF Lookup, Latest, Reviewed, Review, Statuses, Denials, DraftExpires, FoundExpires
    <3>2. FoundExpires'
      BY <2>3, <3>1 DEF Lookup, Latest, Reviewed, FoundExpires, Expires, WrittenExpires, HistoryIsPast, Review, Statuses, Denials
    <3>3. HistoryIsPast' /\ WrittenExpires' /\ DraftExpires' /\ GrantIsPast' /\ AccessIsBounded' /\ DenialFades'
      BY <2>3 DEF Lookup, HistoryIsPast, WrittenExpires, DraftExpires, GrantIsPast, AccessIsBounded, DenialFades, Expires, Reviewed
    <3>4. QED
      BY <3>1, <3>2, <3>3
  <2>4. ASSUME NEW s \in Sessions, Grant(s) PROVE JitInv'
    <3>1. TypeOK'
      BY <2>4 DEF Grant, Valid, Consistent, Earlier, Review, Statuses, Denials, DraftExpires, FoundExpires, Reviewed
    <3>2. FoundExpires'
      BY <2>4, <3>1 DEF Grant, Valid, Consistent, Earlier, FoundExpires, Expires, Reviewed, WrittenExpires, HistoryIsPast, Review, Statuses, Denials
    <3>3. GrantIsPast'
      BY <2>4, <3>1 DEF Grant, Valid, Consistent, Earlier, GrantIsPast, Reviewed, FoundExpires, Review, Statuses, Denials
    <3>4. AccessIsBounded'
      BY <2>4, <3>1 DEF Grant, Valid, Consistent, Earlier, AccessIsBounded, GrantIsPast, FoundExpires, Expires, Reviewed, HistoryIsPast, Review, Statuses, Denials
    <3>5. DenialFades'
      BY <2>4, <3>1 DEF Grant, Valid, Consistent, Earlier, DenialFades, GrantIsPast, HistoryIsPast, FoundExpires, Reviewed, Review, Statuses, Denials
    <3>6. HistoryIsPast' /\ WrittenExpires' /\ DraftExpires'
      BY <2>4 DEF Grant, HistoryIsPast, WrittenExpires, DraftExpires, Expires, Reviewed
    <3>7. QED
      BY <3>1, <3>2, <3>3, <3>4, <3>5, <3>6
  <2>5. ASSUME NEW s \in Sessions, NEW d \in Durations, Ask(s, d) PROVE JitInv'
    <3>1. TypeOK'
      BY <2>5 DEF Ask, MayAsk, Review, Statuses, Denials, DraftExpires, FoundExpires, Reviewed
    <3>2. WrittenExpires'
      BY <2>5, <3>1 DEF Ask, MayAsk, WrittenExpires, Expires, Reviewed, DraftExpires, HistoryIsPast, Review, Statuses, Denials
    <3>3. DraftExpires'
      BY <2>5, <3>1 DEF Ask, MayAsk, DraftExpires, Expires, Reviewed, WrittenExpires, HistoryIsPast, Review, Statuses, Denials
    <3>4. FoundExpires'
      BY <2>5, <3>1 DEF Ask, MayAsk, FoundExpires, Expires, Reviewed, WrittenExpires, HistoryIsPast, Review, Statuses, Denials
    <3>5. GrantIsPast'
      BY <2>5, <3>1 DEF Ask, MayAsk, GrantIsPast, Reviewed, FoundExpires, Review, Statuses, Denials
    <3>6. AccessIsBounded'
      BY <2>5, <3>1 DEF Ask, MayAsk, AccessIsBounded, GrantIsPast, FoundExpires, Expires, Reviewed, HistoryIsPast, Review, Statuses, Denials
    <3>7. DenialFades'
      BY <2>5, <3>1 DEF Ask, MayAsk, DenialFades, GrantIsPast, HistoryIsPast, FoundExpires, Reviewed, Review, Statuses, Denials
    <3>8. HistoryIsPast'
      BY <2>5 DEF Ask, HistoryIsPast
    <3>9. QED
      BY <3>1, <3>2, <3>3, <3>4, <3>5, <3>6, <3>7, <3>8
  <2>6. ASSUME NEW s \in Sessions, NEW at, End(s, at) PROVE JitInv'
    <3>1. TypeOK'
      BY <2>6 DEF End, Review, Statuses, Denials, DraftExpires, FoundExpires, Reviewed
    <3>2. FoundExpires'
      BY <2>6, <3>1 DEF End, FoundExpires, Expires, Reviewed, WrittenExpires, HistoryIsPast, Review, Statuses, Denials
    <3>3. GrantIsPast'
      BY <2>6, <3>1 DEF End, GrantIsPast, Reviewed, FoundExpires, Review, Statuses, Denials
    <3>4. AccessIsBounded'
      BY <2>6, <3>1 DEF End, AccessIsBounded, GrantIsPast, FoundExpires, Expires, Reviewed, HistoryIsPast, Review, Statuses, Denials
    <3>5. DenialFades'
      BY <2>6, <3>1 DEF End, DenialFades, GrantIsPast, HistoryIsPast, FoundExpires, Reviewed, Review, Statuses, Denials
    <3>6. HistoryIsPast' /\ WrittenExpires' /\ DraftExpires'
      BY <2>6 DEF End, HistoryIsPast, WrittenExpires, DraftExpires, Expires, Reviewed
    <3>7. QED
      BY <3>1, <3>2, <3>3, <3>4, <3>5, <3>6
  <2>7. ASSUME NEW q \in Requests, NEW r \in Sessions,
              NEW decision \in Denials \union {"APPROVED"}, DoReview(q, r, decision) PROVE JitInv'
    <3>1. TypeOK'
      BY <2>7 DEF DoReview, Expiry, Review, Statuses, Denials, DraftExpires, FoundExpires, Reviewed
    <3>2. HistoryIsPast'
      BY <2>7, <3>1 DEF DoReview, Expiry, HistoryIsPast, Review, Statuses, Denials
    <3>3. WrittenExpires'
      BY <2>7, <3>1 DEF DoReview, Expiry, WrittenExpires, Expires, Reviewed, DraftExpires, HistoryIsPast, Review, Statuses, Denials
    <3>4. DraftExpires'
      BY <2>7, <3>1 DEF DoReview, Expiry, DraftExpires, Expires, Reviewed, WrittenExpires, HistoryIsPast, Review, Statuses, Denials
    <3>5. FoundExpires'
      BY <2>7, <3>1 DEF DoReview, Expiry, FoundExpires, Expires, Reviewed, WrittenExpires, HistoryIsPast, Review, Statuses, Denials
    <3>6. AccessIsBounded'
      BY <2>7, <3>1 DEF DoReview, Expiry, AccessIsBounded, GrantIsPast, FoundExpires, Expires, Reviewed, HistoryIsPast, Review, Statuses, Denials
    <3>7. GrantIsPast' /\ DenialFades'
      BY <2>7 DEF DoReview, GrantIsPast, DenialFades, Reviewed
    <3>8. QED
      BY <3>1, <3>2, <3>3, <3>4, <3>5, <3>6, <3>7
  <2>8. ASSUME NEW q \in Requests, UpdateReview(q) PROVE JitInv'
    <3> DEFINE d == draft[q]
               t == IF d.revokedAt = None THEN review[d.of].revokedAt ELSE d.revokedAt
    <3>a. /\ d \in [of : Sessions, status : Statuses, revokedAt : Nat \union {None}]
          /\ d.of \in Sessions /\ review[d.of] \in Review
      BY <2>8 DEF UpdateReview, DraftExpires, Reviewed
    <3>b. t \in Nat \union {None}
      BY <3>a DEF Review
    <3>c. review' = [review EXCEPT ![d.of] = [@ EXCEPT !.status = d.status, !.revokedAt = t]]
      BY <2>8 DEF UpdateReview
    <3>d. /\ review'[d.of] \in Review /\ review'[d.of].duration = review[d.of].duration
          /\ review'[d.of].status = d.status /\ review'[d.of].revokedAt = t
      BY <3>a, <3>b, <3>c DEF Review
    <3>e. \A r \in Sessions : /\ r # d.of => review'[r] = review[r]
                              /\ r \in Reviewed' <=> r \in Reviewed
                              /\ review'[r] \in Review \union {None}
                              /\ r \in Reviewed => review'[r].duration = review[r].duration
      BY <3>a, <3>c, <3>d DEF Reviewed
    <3> HIDE DEF d, t
    <3>1. TypeOK'
      <4>1. review' \in [Sessions -> Review \union {None}]
        BY <3>c, <3>e
      <4>2. denied' \in [Sessions -> Nat]
        BY <2>8, <3>a DEF UpdateReview, d
      <4>3. QED
        BY <2>8, <4>1, <4>2 DEF UpdateReview
    <3>2. HistoryIsPast'
      BY <2>8, <3>1 DEF UpdateReview, HistoryIsPast, Review, Statuses, Denials
    <3>3. WrittenExpires'
      BY <2>8, <3>1 DEF UpdateReview, WrittenExpires, Expires, Reviewed, DraftExpires, HistoryIsPast, Review, Statuses, Denials
    <3>4. DraftExpires'
      BY <2>8, <3>1, <3>e DEF UpdateReview, DraftExpires, Expires, Reviewed
    <3>5. FoundExpires'
      BY <2>8, <3>1, <3>e DEF UpdateReview, FoundExpires, Expires, Reviewed
    <3>6. GrantIsPast'
      BY <2>8, <3>1, <3>e DEF UpdateReview, GrantIsPast, Reviewed
    <3>7. AccessIsBounded'
      BY <2>8, <3>1 DEF UpdateReview, AccessIsBounded, GrantIsPast, FoundExpires, Expires, Reviewed, HistoryIsPast, Review, Statuses, Denials
    <3>8. DenialFades'
      BY <2>8, <3>1 DEF UpdateReview, DenialFades, GrantIsPast, HistoryIsPast, FoundExpires, Reviewed, Review, Statuses, Denials
    <3>9. QED
      BY <3>1, <3>2, <3>3, <3>4, <3>5, <3>6, <3>7, <3>8
  <2>9. ASSUME NEW s \in Sessions, Expire(s) \/ Leave(s) \/ \E d \in Durations : Refuse(s, d) PROVE JitInv'
    BY <2>6, <2>9 DEF Expire, Leave, Refuse
  <2> HIDE DEF JitInv
  <2>20. QED
    BY <2>1, <2>2, <2>3, <2>4, <2>5, <2>7, <2>8, <2>9 DEF Next, Handle
<1>3. QED
  BY <1>1, <1>2, PTL DEF Spec

\* Whatever sessions and requests do, every variable keeps its type.
THEOREM JitTypeCorrect == Spec => []TypeOK
  BY JitInvariant, PTL DEF JitInv

\* validateJit never meets an approved review without an expiry.
THEOREM ExpiryCorrect == Spec => []ApprovedExpires
<1>1. JitInv => ApprovedExpires
  BY DEF JitInv, WrittenExpires, ApprovedExpires
<1>2. QED
  BY <1>1, JitInvariant, PTL

\* A session ends at most two durations after the last approval of its review.
THEOREM BoundCorrect == Spec => []AccessIsBounded
  BY JitInvariant, PTL DEF JitInv

\* What a denied review had granted ends at most a duration after the denial.
THEOREM DenialCorrect == Spec => []DenialFades
  BY JitInvariant, PTL DEF JitInv

\* No step gives a session that has a deadline more time.
THEOREM ExtensionCorrect == Spec => NeverExtended
<1> DEFINE Shrinks == \A s \in Sessions : deadline[s] # None /\ stage'[s] # "ended" =>
                         deadline'[s] # None /\ deadline'[s] <= deadline[s]
<1>1. JitInv /\ [Next]_vars => [Shrinks]_vars
  <2> SUFFICES ASSUME JitInv, Next, NEW s \in Sessions, deadline[s] # None, stage'[s] # "ended"
               PROVE  deadline'[s] # None /\ deadline'[s] <= deadline[s]
    OBVIOUS
  <2> USE JitAssumption DEF JitInv, TypeOK, sessionVars, reviewVars
  <2>1. ASSUME UNCHANGED deadline PROVE deadline'[s] # None /\ deadline'[s] <= deadline[s]
    BY <2>1
  <2>2. ASSUME NEW r \in Sessions, Grant(r) PROVE deadline'[s] # None /\ deadline'[s] <= deadline[s]
    <3>1. now + found[r].was.duration \in Nat
      BY <2>2 DEF Grant, Valid, Review
    <3>2. deadline' = [deadline EXCEPT ![r] = Earlier(r, now + found[r].was.duration)]
      BY <2>2 DEF Grant
    <3>3. QED
      BY <3>1, <3>2 DEF Earlier
  <2>3. ASSUME NEW r \in Sessions, NEW at, End(r, at)
        PROVE  deadline'[s] # None /\ deadline'[s] <= deadline[s]
    BY <2>3 DEF End
  <2>4. QED
    BY <2>1, <2>2, <2>3 DEF Next, Handle, Tick, Lookup, Ask, Refuse, Expire, Leave, DoReview, UpdateReview
<1>2. QED
  BY <1>1, JitInvariant, PTL DEF Spec, NeverExtended
=============================================================================
