----------------------------- MODULE MCJitAccess -----------------------------
(***************************************************************************)
(* Two sessions of a user, two threads that decide.                        *)
(***************************************************************************)
EXTENDS JitAccess
=============================================================================
