------------------------------ MODULE MCSources ------------------------------
(* The first text leads to both facts, one of which the second quotes; the *)
(* third has nothing to propose.                                           *)
EXTENDS Sources, TLC

CONSTANTS memo, note, blank,  \* contents
          fact, claim         \* statements

SomeQuotes == (memo :> {}) @@ (note :> {claim}) @@ (blank :> {})
SomeInfers == (memo :> {fact, claim}) @@ (note :> {fact}) @@ (blank :> {})

Interchangeable == Permutations(Request) \cup Permutations(Source)
=============================================================================
