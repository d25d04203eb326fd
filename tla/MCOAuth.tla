------------------------------- MODULE MCOAuth --------------------------------
(* Two Brain tokens of different workspaces.                               *)
EXTENDS OAuth, TLC

CONSTANTS b1, b2, w1, w2

Homes == [b \in {b1, b2} |-> IF b = b1 THEN w1 ELSE w2]

Interchangeable == Permutations(Client) \cup Permutations(Consent) \cup Permutations(Request)
=============================================================================
