--------------------------- MODULE MCProxyStreams ---------------------------
(* TLC instances of ProxyStreams: the session s1 of a command-line client,  *)
(* and s2 of an API client where the configuration names one.               *)
EXTENDS ProxyStreams

CONSTANTS cli, api, s1, s2

MCSidOf == [c \in Clients |-> IF c = api THEN s2 ELSE s1]
MCSubOf == [u \in Subscribers |-> s1]
=============================================================================
