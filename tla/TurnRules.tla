------------------------------ MODULE TurnRules ------------------------------
(***************************************************************************)
(* The legality rules of a turn (api/brain/turns.py): what each handler    *)
(* demands of the row it was given, the row it leaves behind and the one   *)
(* step it appends to the transcript.  The rules are functions of a row,   *)
(* so that they can be used both by handlers that run one at a time        *)
(* (Turns) and by handlers that work on a copy loaded earlier              *)
(* (TurnSessions).                                                         *)
(*                                                                         *)
(* A row keeps the columns the rules read or write.  `suspended` stands    *)
(* for a non-empty `suspension`, `instructions` counts the lines of the    *)
(* instruction text, `kind` is the kind of the event that opened the turn. *)
(* The transcript keeps how many tool steps carry each ordinal and how     *)
(* many bookkeeping steps (all of ordinal 0) there are of each kind.       *)
(***************************************************************************)
EXTENDS Naturals

Action       == {"answer", "investigate", "pass"}
EventKind    == {"mention", "direct_message", "passive_message",
                 "context_only", "ignored"}
AddressKinds == {"mention", "direct_message"}

ACTION_BUDGET == [answer |-> 2, investigate |-> 6, pass |-> 0]
MaxBudget     == 6

\* The tools a turn may use, in the order the worker tries them.
ACTIVE_TOOLS == [answer      |-> <<"search_knowledge">>,
                 investigate |-> <<"search_knowledge", "list_sources", "get_proposal">>,
                 pass        |-> <<>>]
ActiveTool(a) == {ACTIVE_TOOLS[a][i] : i \in DOMAIN ACTIVE_TOOLS[a]}

TERMINAL_STATUSES == {"completed", "failed", "cancelled", "superseded"}
OPEN_STATUSES     == {"pending", "running", "awaiting_approval"}
Status            == TERMINAL_STATUSES \cup OPEN_STATUSES

\* "none" is the empty reason of a turn without an ending.  A person may stop a
\* turn in any words, also in those the server uses: "stopped_by_user" stands
\* for the default and for all the words it does not use.
StopReason == {"none", "passed", "budget_exhausted", "plan_complete", "step_error",
               "worker_error", "stopped_by_user", "approved",
               "approval_rejected", "superseded"}

NoteKind == {"triage", "policy", "supersede", "suspend", "resume", "steer",
             "stop", "error"}

Row(Channel) ==
  [channel : Channel, kind : EventKind, action : Action, status : Status,
   used : Nat, reason : StopReason, by : Nat, suspended : BOOLEAN,
   instructions : Nat]

Log == [tools : [1..MaxBudget -> Nat], notes : [NoteKind -> Nat]]

Budget(r)     == ACTION_BUDGET[r.action]
IsTerminal(r) == r.status \in TERMINAL_STATUSES
IsOpen(r)     == r.status \in OPEN_STATUSES
Closed(r, status, reason) == [r EXCEPT !.status = status, !.reason = reason]
\* Neither closed nor waiting at the approval gate.
IsActive(r)   == r.status \in {"pending", "running"}

-----------------------------------------------------------------------------
(* The transcript.  Only tool steps are numbered and charged.              *)

EmptyLog == [tools |-> [n \in 1..MaxBudget |-> 0],
             notes |-> [k \in NoteKind |-> 0]]

ToolStep(n)  == [tool |-> n, note |-> "none"]
NoteStep(k)  == [tool |-> 0, note |-> k]
NoStep       == [tool |-> 0, note |-> "none"]

AppendStep(l, s) ==
  [tools |-> [n \in 1..MaxBudget |-> IF n = s.tool THEN l.tools[n] + 1 ELSE l.tools[n]],
   notes |-> [k \in NoteKind |-> IF k = s.note THEN l.notes[k] + 1 ELSE l.notes[k]]]

-----------------------------------------------------------------------------
(* The handlers, as [row, step] pairs.                                     *)

\* handle_event: a pass is a turn too, already completed and without budget.
NewTurnSwapped(c, k, a) ==                \* slip: reason stored as the status
  [channel |-> c, kind |-> k, action |-> a,
   status  |-> IF a = "pass" THEN "passed" ELSE "pending",
   used    |-> 0,
   reason  |-> IF a = "pass" THEN "passed" ELSE "none",
   by |-> 0, suspended |-> FALSE, instructions |-> 0]

NewTurn(c, k, a) ==
  [channel |-> c, kind |-> k, action |-> a,
   status  |-> IF a = "pass" THEN "completed" ELSE "pending",
   used    |-> 0,
   reason  |-> IF a = "pass" THEN "passed" ELSE "none",
   by |-> 0, suspended |-> FALSE, instructions |-> 0]

NewLog == AppendStep(AppendStep(EmptyLog, NoteStep("triage")), NoteStep("policy"))

\* An event that displaces the open turns of its channel.
Overtakes(k, a) == a # "pass" /\ k \in AddressKinds

SupersededUnnamed(r, e) ==                \* slip: superseded_by left empty
  [row  |-> [r EXCEPT !.status = "superseded", !.reason = "superseded"],
   step |-> NoteStep("supersede")]

Superseded(r, e) ==
  [row  |-> [r EXCEPT !.status = "superseded", !.by = e, !.reason = "superseded"],
   step |-> NoteStep("supersede")]

\* advance_turn refuses a closed turn, a gated one and a tool of another
\* action; the budget is looked at before the tool is.
Exhausted(r) == r.used >= Budget(r)

CanAdvanceUngated(r, tool) ==             \* slip: the gate is not looked at
  ~IsTerminal(r) /\ (Exhausted(r) \/ tool \in ActiveTool(r.action))

CanAdvance(r, tool) ==
  /\ ~IsTerminal(r)
  /\ r.status # "awaiting_approval"
  /\ Exhausted(r) \/ tool \in ActiveTool(r.action)

AdvancedOldOrdinal(r) ==                  \* slip: the ordinal is read before the charge
  LET last == r.used + 1 >= Budget(r)
  IN [row  |-> [r EXCEPT !.used   = @ + 1,
                         !.status = IF last THEN "completed" ELSE "running",
                         !.reason = IF last THEN "budget_exhausted" ELSE @],
      step |-> ToolStep(r.used)]

AdvancedLate(r) ==                        \* slip: exhaustion is left to the next call
  IF Exhausted(r)
  THEN [row  |-> Closed(r, "completed", "budget_exhausted"),
        step |-> NoteStep("stop")]
  ELSE [row  |-> [r EXCEPT !.used = @ + 1, !.status = "running"],
        step |-> ToolStep(r.used + 1)]

Advanced(r) ==
  IF Exhausted(r)
  THEN [row  |-> Closed(r, "completed", "budget_exhausted"),
        step |-> NoteStep("stop")]
  ELSE LET last == r.used + 1 >= Budget(r)
       IN [row  |-> [r EXCEPT !.used   = @ + 1,
                              !.status = IF last THEN "completed" ELSE "running",
                              !.reason = IF last THEN "budget_exhausted" ELSE @],
           step |-> ToolStep(r.used + 1)]

CanSuspend(r) == IsActive(r)
Suspended(r)  == [row  |-> [r EXCEPT !.status = "awaiting_approval", !.suspended = TRUE],
                  step |-> NoteStep("suspend")]

CanResumeAnyOpen(r, administers) == IsOpen(r) /\ administers
                                          \* slip: a turn that was never gated
CanResume(r, administers) == r.status = "awaiting_approval" /\ administers
Resumed(r, approved) ==
  [row  |-> IF approved THEN Closed(r, "completed", "approved")
            ELSE Closed(r, "cancelled", "approval_rejected"),
   step |-> NoteStep("resume")]

CanSteerAnything(r) == TRUE               \* slip: a closed turn takes instructions
CanSteer(r) == ~IsTerminal(r)
SteeredReplacing(r) ==                    \* slip: the new note replaces the old
  [row |-> [r EXCEPT !.instructions = 1], step |-> NoteStep("steer")]
Steered(r)  == [row |-> [r EXCEPT !.instructions = @ + 1], step |-> NoteStep("steer")]

CanStopTwice(r) == TRUE                   \* slip: stopping is not idempotent
CanStop(r) == ~IsTerminal(r)
Stopped(r, said) == [row  |-> Closed(r, "cancelled", said), step |-> NoteStep("stop")]

\* The worker closes a turn whose plan it has run, whose step was refused or
\* whose tool raised.  Only the refused step leaves a trace in the transcript.
PlanComplete(r) == [row  |-> Closed(r, "completed", "plan_complete"),
                    step |-> NoStep]
StepError(r)    == [row  |-> Closed(r, "failed", "step_error"),
                    step |-> NoteStep("error")]
WorkerError(r)  == [row  |-> Closed(r, "failed", "worker_error"),
                    step |-> NoStep]
=============================================================================
