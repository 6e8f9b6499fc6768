-------------------------- MODULE MCReviewDecision --------------------------
(* TLC instance of ReviewDecision: the owner is in a reviewing group, one   *)
(* reviewer is in both groups, one user may force, one is an administrator. *)
EXTENDS ReviewDecision, TLC

CONSTANTS owner, alice, bob, root, dba, sec, adm, boss

MCGroupsOf == (owner :> {dba}) @@ (alice :> {dba}) @@ (bob :> {dba, sec, boss}) @@ (root :> {adm})
=============================================================================
