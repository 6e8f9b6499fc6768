--------------------------- MODULE MCAgentSessions ---------------------------
(***************************************************************************)
(* Connections 1 and 10 of a session: the id of the first is a prefix of   *)
(* the id of the second.                                                   *)
(***************************************************************************)
EXTENDS AgentSessions

MCPrefixed   == [c \in Conns |-> IF c = "1" THEN Conns ELSE {c}]
MCMaxPackets == [c \in Conns |-> IF c = "1" THEN 2 ELSE 1]

WedgedHttp == [k \in Kinds |-> IF k = "http" THEN {"10"} ELSE {}]
WedgedSsh  == [k \in Kinds |-> IF k = "ssh" THEN {"10"} ELSE {}]
=============================================================================
