------------------------------- MODULE MCStudio -------------------------------
(* Two items of different kinds; requests, questions and sections are      *)
(* interchangeable.                                                        *)
EXTENDS Studio, TLC

CONSTANTS k1, k2

Kinds == [k \in {k1, k2} |-> IF k = k1 THEN "fact" ELSE "lesson"]

Interchangeable ==
  Permutations(Request) \cup Permutations(Question) \cup Permutations(Section)
=============================================================================
