---------------------------- MODULE MCTurnSessions ----------------------------
(* Interchangeable requests, workers and channels, for the runs that check *)
(* no liveness.                                                            *)
EXTENDS TurnSessions, TLC
Symmetry == Permutations(Request) \cup Permutations(Worker) \cup Permutations(Channel)
=============================================================================
