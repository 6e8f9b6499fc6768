----------------------------- MODULE MCAuditWal -----------------------------
(* TLC instance of AuditWal: writers and closers are interchangeable.       *)
EXTENDS AuditWal, TLC

Symmetry == Permutations(Writers) \union Permutations(Closers)
=============================================================================
