------------------------- MODULE MCReviewExecution --------------------------
(* TLC instance of ReviewExecution.                                         *)
EXTENDS ReviewExecution, TLC

CONSTANTS owner, alice, dba, adm

MCGroupsOf == (owner :> {dba}) @@ (alice :> {dba})
=============================================================================
