------------------------------- MODULE MCReview -------------------------------
(* Requests are interchangeable, and so are wordings.                      *)
EXTENDS Review, TLC

Interchangeable == Permutations(Request) \cup Permutations(Wording)
=============================================================================
