------------------------------ MODULE TurnTables ------------------------------
(***************************************************************************)
(* The tables of turns (api/brain/models.py): what the handlers one at a   *)
(* time (Turns) and the sessions that overlap (TurnSessions) both write.   *)
(*                                                                         *)
(* Turn t is the turn of event t, and numbers follow the order in which    *)
(* they were committed.  Where handlers overlap that need not be the order *)
(* in which the messages arrived.                                          *)
(***************************************************************************)
EXTENDS TurnRules

CONSTANTS Channel,    \* conversations
          Kinds,      \* the kinds of event that arrive
          Said,       \* the words in which people stop a turn
          MaxTurns    \* bound: events handled

ASSUME TablesAssumption ==
  /\ Kinds \subseteq EventKind
  /\ MaxTurns \in Nat

ASSUME WordsAssumption == Said \subseteq StopReason /\ "none" \notin Said

VARIABLES opened,   \* events handled so far
          row,      \* the turns table
          log       \* the turn_steps table, per turn

Turn == 1..opened

TablesOK ==
  /\ opened \in 0..MaxTurns
  /\ row \in [Turn -> Row(Channel)]
  /\ log \in [Turn -> Log]

NoTurns == opened = 0 /\ row = <<>> /\ log = <<>>
=============================================================================
