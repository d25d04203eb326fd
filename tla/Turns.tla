-------------------------------- MODULE Turns --------------------------------
(***************************************************************************)
(* What turn orchestration promises (api/brain/turns.py, docs/harness.md): *)
(* events open turns, people and the worker move them, and every handler   *)
(* sees the row its predecessor left.  Each action is one handler, from    *)
(* the load of the row to the commit.  TurnSessions drops the assumption   *)
(* that handlers run one at a time and is compared with this module.       *)
(***************************************************************************)
EXTENDS TurnTables

CONSTANT MaxSteers    \* bound: instructions added to one turn

ASSUME TurnsAssumption == MaxSteers \in Nat

vars == <<opened, row, log>>

TypeOK == TablesOK

Init == NoTurns

\* A handler that worked on turn t commits its row and its step.
Commit(t, result) ==
  /\ row' = [row EXCEPT ![t] = result.row]
  /\ log' = [log EXCEPT ![t] = AppendStep(@, result.step)]
  /\ UNCHANGED opened

-----------------------------------------------------------------------------
\* An ignored event is always passed on; any other may get any action,
\* depending on the channel's policy and the model's reply.
Decisions(k) == IF k = "ignored" THEN {"pass"} ELSE Action

OvertakenActive(c, k, a) ==               \* slip: a gated turn is forgotten
  IF Overtakes(k, a) THEN {t \in Turn : IsActive(row[t]) /\ row[t].channel = c} ELSE {}

Overtaken(c, k, a) ==
  IF Overtakes(k, a) THEN {t \in Turn : IsOpen(row[t]) /\ row[t].channel = c} ELSE {}

HandleEvent(c, k, a) ==
  LET new  == opened + 1
      late == Overtaken(c, k, a)
  IN /\ opened < MaxTurns
     /\ a \in Decisions(k)
     /\ opened' = new
     /\ row' = [t \in 1..new |-> IF t = new THEN NewTurn(c, k, a)
                                 ELSE IF t \in late THEN Superseded(row[t], new).row
                                 ELSE row[t]]
     /\ log' = [t \in 1..new |-> IF t = new THEN NewLog
                                 ELSE IF t \in late
                                      THEN AppendStep(log[t], Superseded(row[t], new).step)
                                 ELSE log[t]]

AdvanceTurn(t, tool) == CanAdvance(row[t], tool) /\ Commit(t, Advanced(row[t]))

SuspendTurn(t) == CanSuspend(row[t]) /\ Commit(t, Suspended(row[t]))

\* A member without the admin role is refused and changes nothing.
ResumeTurn(t, approved, administers) ==
  CanResume(row[t], administers) /\ Commit(t, Resumed(row[t], approved))

SteerTurn(t) ==
  /\ row[t].instructions < MaxSteers
  /\ CanSteer(row[t])
  /\ Commit(t, Steered(row[t]))

\* Stopping a closed turn returns it unchanged.
StopTurn(t, said) == CanStop(row[t]) /\ Commit(t, Stopped(row[t], said))

\* The worker takes its steps through advance_turn; these are its endings.
CompletePlan(t) == row[t].status = "running" /\ Commit(t, PlanComplete(row[t]))
FailTurn(t)     == IsActive(row[t]) /\ Commit(t, WorkerError(row[t]))

Next ==
  \/ \E c \in Channel, k \in Kinds, a \in Action : HandleEvent(c, k, a)
  \/ \E t \in Turn, tool \in ActiveTool("investigate") : AdvanceTurn(t, tool)
  \/ \E t \in Turn : SuspendTurn(t)
  \/ \E t \in Turn, approved, administers \in BOOLEAN : ResumeTurn(t, approved, administers)
  \/ \E t \in Turn : SteerTurn(t)
  \/ \E t \in Turn, said \in Said : StopTurn(t, said)
  \/ \E t \in Turn : CompletePlan(t)
  \/ \E t \in Turn : FailTurn(t)

Spec == Init /\ [][Next]_vars

-----------------------------------------------------------------------------
\* The counter on the row and the numbered steps of the transcript tell the
\* same story: ordinals 1..used once each, never beyond the action's budget.
TranscriptAgrees ==
  \A t \in Turn :
    /\ row[t].used <= Budget(row[t])
    /\ \A n \in 1..MaxBudget : log[t].tools[n] = IF n <= row[t].used THEN 1 ELSE 0

\* The bookkeeping columns are backed by the steps that wrote them: one steer
\* step per instruction, and a suspension for exactly one suspend step.
ColumnsBacked ==
  \A t \in Turn :
    /\ log[t].notes["steer"] = row[t].instructions
    /\ log[t].notes["suspend"] = IF row[t].suspended THEN 1 ELSE 0

\* A turn that may still act has a step left: the step that spends the budget
\* closes the turn in the same commit.
OpenHasBudget ==
  \A t \in Turn : IsActive(row[t]) => row[t].used < Budget(row[t])

\* "The newest message wins": no turn is open on a channel on which a later
\* mention or direct message was given an action.
NewestWins ==
  \A t, u \in Turn :
    t < u /\ row[t].channel = row[u].channel /\ Overtakes(row[u].kind, row[u].action)
      => IsTerminal(row[t])

\* A superseded turn names the event that displaced it: a newer one, on its
\* own channel, that was itself given an action.
SupersededByNewer ==
  \A t \in Turn :
    IF row[t].status = "superseded"
    THEN /\ row[t].by \in Turn /\ t < row[t].by
         /\ row[row[t].by].channel = row[t].channel
         /\ Overtakes(row[row[t].by].kind, row[row[t].by].action)
    ELSE row[t].by = 0

\* Whatever ended the turn is told once in the transcript: a stop, resume or
\* supersede step for an ending somebody chose, none for an ending that the
\* budget or the worker reached, and none while the turn is open.  Which it
\* was shows in the status, not in the reason: that may be anybody's words.
Chosen(r) == \/ r.status \in {"cancelled", "superseded"}
             \/ r.status = "completed" /\ r.reason = "approved"

OneEnding ==
  \A t \in Turn :
    log[t].notes["stop"] + log[t].notes["resume"] + log[t].notes["supersede"]
      = IF Chosen(row[t]) THEN 1 ELSE 0

\* The row of a turn, its transcript and its ending tell one story, and a turn
\* that may still act has budget left.
OneStory == TranscriptAgrees /\ ColumnsBacked /\ OneEnding /\ OpenHasBudget

\* The newest message wins on its channel, and every turn that lost names the
\* event it lost to.
DisplacedRightly == NewestWins /\ SupersededByNewer

\* A closed turn is never written again, nor is its transcript.
TerminalIsFinal ==
  [][\A t \in Turn : IsTerminal(row[t]) => row'[t] = row[t] /\ log'[t] = log[t]]_vars

\* A turn at the approval gate takes no step and leaves it only by a decision,
\* by being stopped or by being overtaken, and the step that says which is
\* added to its transcript.
GateHeld ==
  [][\A t \in Turn :
       row[t].status = "awaiting_approval" =>
         /\ log'[t].tools = log[t].tools
         /\ row'[t].status # "awaiting_approval" =>
              \E k \in {"resume", "stop", "supersede"} :
                log'[t].notes[k] = log[t].notes[k] + 1]_vars
=============================================================================
