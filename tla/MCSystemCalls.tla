---------------------------- MODULE MCSystemCalls ----------------------------
(***************************************************************************)
(* Two hooks of a session, under one key, and two provisioners of one      *)
(* database, with one loop that receives the answers of their agent.        *)
(***************************************************************************)
EXTENDS SystemCalls

MCCalls    == {"h1", "h2", "p1", "p2"}
MCKeys     == {"hook", "p1", "p2"}
MCKey      == [c \in MCCalls |-> IF c \in {"h1", "h2"} THEN "hook" ELSE c]
MCResource == [c \in MCCalls |-> IF c \in {"h1", "h2"} THEN "nil" ELSE "db"]
=============================================================================
