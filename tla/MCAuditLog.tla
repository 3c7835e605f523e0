------------------------------ MODULE MCAuditLog ------------------------------
(***************************************************************************)
(* Small instances of AuditLog.                                            *)
(***************************************************************************)
EXTENDS AuditLog, TLC

CONSTANTS p1, p2

Symmetry == Permutations(Instances)
=============================================================================
