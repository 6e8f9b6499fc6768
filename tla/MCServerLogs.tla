---------------------------- MODULE MCServerLogs ----------------------------
(* TLC instance of ServerLogs: two organisations, one subscriber of each.  *)
EXTENDS ServerLogs, TLC

CONSTANTS o1, o2, s1, s2

MCStreamOrg == (s1 :> o1) @@ (s2 :> o2)
=============================================================================
