------------------------------- MODULE MCIntake -------------------------------
(* Policy requests that quieten and loosen a channel, and replies on both  *)
(* sides of every threshold.                                               *)
EXTENDS Intake, TLC

SomePuts == {[mode |-> "off"],
             [mode |-> "proactive"],
             [mode |-> "contextual", allow |-> FALSE],
             [floor |-> 80],
             [mode |-> "proactive", threshold |-> 0, floor |-> 30]}

SomeReplies == {NoReply} \cup [action : Action, confidence : {30, 60, Unstated}]

Interchangeable == Permutations(Writer)
=============================================================================
