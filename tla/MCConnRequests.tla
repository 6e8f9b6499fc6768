--------------------------- MODULE MCConnRequests ---------------------------
(* TLC instance of ConnRequests: two clients share a session id, as the     *)
(* executions of one reviewed session do.                                   *)
EXTENDS ConnRequests, TLC

CONSTANTS c1, c2, c3, k1, k2, sidA, sidB

MCSidOf == (c1 :> sidA) @@ (c2 :> sidA) @@ (c3 :> sidB)

\* The clients of one session id and the agent's streams are interchangeable.
MCSymmetry == Permutations({c1, c2}) \union Permutations({k1, k2})
=============================================================================
