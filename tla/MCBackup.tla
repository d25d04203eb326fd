------------------------------- MODULE MCBackup -------------------------------
(* One private and one public source with a proposal each.                 *)
EXTENDS Backup, TLC

CONSTANTS x1, x2, p1, p2

Origin == [p \in {p1, p2} |-> IF p = p1 THEN x1 ELSE x2]

Interchangeable == Permutations(Request)
=============================================================================
