---------------------------- MODULE Turns_proofs ----------------------------
(***************************************************************************)
(* The safety properties of turns, for any channels, events, requests and  *)
(* workers, and any number of them.                                        *)
(*                                                                         *)
(* Turns.  The inductive invariant splits into what one row says together  *)
(* with its own transcript (RowOK) and what relates two turns (NewestWins, *)
(* Named).  The handlers are functions of a row, so the first part is a    *)
(* lemma per handler that mentions no variable; a second lemma lifts it to *)
(* a commit.                                                               *)
(*                                                                         *)
(* TurnSessions.  A row keeps less of its story when sessions overlap      *)
(* (RowFine).  What is left is inductive because a copy, however old,      *)
(* still says something true of the row it was taken from (CopyFine): a    *)
(* lemma per handler bounds what it makes of such a copy (Allowed), one    *)
(* lemma says what writing that back does to the row (FlushOK), and one    *)
(* that no write falsifies another copy (CopyKept).  When sessions do not  *)
(* overlap a copy is the row (SerialFine), and each step is one of Turns'. *)
(***************************************************************************)
EXTENDS Turns, TurnSessions, TLAPS, FiniteSetTheorems

\* What a row and its transcript agree on, in every reachable state.  The
\* last four conjuncts are the strengthening: an open row has no stop reason
\* yet, an active one was never at the gate, only a superseded one names an
\* event, and the ending is told once.
RowOK(r, l) ==
  /\ r \in Row(Channel)
  /\ l \in Log
  /\ r.used <= Budget(r)
  /\ \A n \in 1..MaxBudget : l.tools[n] = IF n <= r.used THEN 1 ELSE 0
  /\ l.notes["steer"] = r.instructions
  /\ l.notes["suspend"] = IF r.suspended THEN 1 ELSE 0
  /\ IsActive(r) => r.used < Budget(r) /\ ~r.suspended
  /\ IsOpen(r) => r.reason = "none"
  /\ r.status # "superseded" => r.by = 0
  /\ l.notes["stop"] + l.notes["resume"] + l.notes["supersede"]
       = IF Chosen(r) THEN 1 ELSE 0

\* A superseded turn names a newer turn of its channel that was acted on.
Named ==
  \A t \in Turn : row[t].status = "superseded" =>
    /\ row[t].by \in Turn /\ t < row[t].by
    /\ row[row[t].by].channel = row[t].channel
    /\ Overtakes(row[row[t].by].kind, row[row[t].by].action)

IInv ==
  /\ opened \in 0..MaxTurns
  /\ row \in [Turn -> Row(Channel)]
  /\ log \in [Turn -> Log]
  /\ \A t \in Turn : RowOK(row[t], log[t])
  /\ NewestWins
  /\ Named

\* A handler's result keeps the columns that say which turn it is.
SameTurn(r, q) == q.channel = r.channel /\ q.kind = r.kind /\ q.action = r.action

Keeps(r, l, x) ==
  /\ RowOK(x.row, AppendStep(l, x.step))
  /\ SameTurn(r, x.row)
  /\ x.row.status # "superseded"

-----------------------------------------------------------------------------
Step == [tool : Nat, note : NoteKind \cup {"none"}]

\* Appending a step counts it under its ordinal or its kind and nowhere else.
LEMMA AppendStepType ==
  ASSUME NEW l \in Log, NEW s \in Step
  PROVE  /\ AppendStep(l, s) \in Log
         /\ \A n \in 1..MaxBudget :
              AppendStep(l, s).tools[n] = IF n = s.tool THEN l.tools[n] + 1 ELSE l.tools[n]
         /\ \A k \in NoteKind :
              AppendStep(l, s).notes[k] = IF k = s.note THEN l.notes[k] + 1 ELSE l.notes[k]
<1> DEFINE f == l.tools
           g == l.notes
           o == s.tool
           h == s.note
           T == [n \in 1..MaxBudget |-> IF n = o THEN f[n] + 1 ELSE f[n]]
           N == [k \in NoteKind |-> IF k = h THEN g[k] + 1 ELSE g[k]]
<1>1. f \in [1..MaxBudget -> Nat] /\ g \in [NoteKind -> Nat]
  BY DEF Log
<1>2. o \in Nat /\ h \in NoteKind \cup {"none"}
  BY DEF Step
<1>3. AppendStep(l, s) = [tools |-> T, notes |-> N]
  BY DEF AppendStep
<1> HIDE DEF f, g, o, h
<1>4. T \in [1..MaxBudget -> Nat]
  BY <1>1, <1>2
<1>5. N \in [NoteKind -> Nat]
  BY <1>1, <1>2
<1>6. /\ \A n \in 1..MaxBudget : T[n] = IF n = o THEN f[n] + 1 ELSE f[n]
      /\ \A k \in NoteKind : N[k] = IF k = h THEN g[k] + 1 ELSE g[k]
  OBVIOUS
<1> HIDE DEF T, N
<1>7. AppendStep(l, s) \in Log /\ AppendStep(l, s).tools = T /\ AppendStep(l, s).notes = N
  BY <1>3, <1>4, <1>5 DEF Log
<1> QED BY <1>6, <1>7 DEF f, g, o, h

\* advance_turn: the step is numbered by the charge it makes.
LEMMA AdvancedOK ==
  ASSUME NEW r, NEW l, NEW tool, RowOK(r, l), CanAdvance(r, tool)
  PROVE  Keeps(r, l, Advanced(r))
<1>1. r \in Row(Channel) /\ l \in Log
  BY DEF RowOK
<1>2. /\ r.used \in Nat
      /\ Budget(r) \in Nat /\ Budget(r) <= MaxBudget
  BY <1>1 DEF Budget, Row, Action, ACTION_BUDGET, MaxBudget
<1>3. IsActive(r) /\ r.used < Budget(r) /\ ~r.suspended /\ r.reason = "none" /\ r.by = 0
  BY <1>1 DEF RowOK, CanAdvance, IsActive, IsTerminal, IsOpen, Row, Status,
              TERMINAL_STATUSES, OPEN_STATUSES
<1>4. r.used < Budget(r) /\ ~Exhausted(r)
  <2>1. r.used < Budget(r)
    BY <1>3
  <2> QED BY <1>2, <2>1 DEF Exhausted
<1> DEFINE q == Advanced(r).row
           m == AppendStep(l, Advanced(r).step)
           u == r.used + 1
           last == u >= Budget(r)
           v == IF last THEN "completed" ELSE "running"
           z == IF last THEN "budget_exhausted" ELSE r.reason
<1>5. /\ q = [r EXCEPT !.used = u, !.status = v, !.reason = z]
      /\ Advanced(r).step = ToolStep(u)
  BY <1>4 DEF Advanced
<1>6. /\ u \in Nat /\ u <= Budget(r) /\ u \in 1..MaxBudget
      /\ last \/ u < Budget(r)
  BY <1>2, <1>4 DEF MaxBudget
<1> HIDE DEF last
<1>7. v \in Status /\ z \in StopReason \ {"approved"}
  BY <1>3 DEF Status, TERMINAL_STATUSES, OPEN_STATUSES, StopReason
<1>8. v # "superseded" /\ (v = "completed" \/ (v = "running" /\ z = "none" /\ ~last))
  BY <1>3
<1> HIDE DEF q, u, v, z
<1>9. /\ q \in Row(Channel) /\ q.used = u /\ q.status = v /\ q.reason = z
      /\ q.by = r.by /\ q.suspended = r.suspended /\ q.instructions = r.instructions
      /\ SameTurn(r, q)
  BY <1>1, <1>5, <1>6, <1>7 DEF Row, SameTurn
<1>10. Budget(q) = Budget(r)
  BY <1>9 DEF SameTurn, Budget
<1>11. ToolStep(u) \in Step /\ ToolStep(u).tool = u /\ ToolStep(u).note = "none"
  BY <1>6 DEF ToolStep, Step
<1>12. /\ m \in Log
       /\ \A n \in 1..MaxBudget : m.tools[n] = IF n = u THEN l.tools[n] + 1 ELSE l.tools[n]
       /\ \A k \in NoteKind : m.notes[k] = IF k = "none" THEN l.notes[k] + 1 ELSE l.notes[k]
  BY <1>1, <1>5, <1>11, AppendStepType
<1> HIDE DEF m
<1>13. \A k \in NoteKind : m.notes[k] = l.notes[k]
  BY <1>12 DEF NoteKind
<1>14. \A n \in 1..MaxBudget : m.tools[n] = IF n <= u THEN 1 ELSE 0
  <2> SUFFICES ASSUME NEW n \in 1..MaxBudget
               PROVE  m.tools[n] = IF n <= u THEN 1 ELSE 0
    OBVIOUS
  <2>1. l.tools[n] = IF n <= r.used THEN 1 ELSE 0
    BY DEF RowOK
  <2> QED BY <2>1, <1>2, <1>12 DEF u, MaxBudget
<1>15. /\ m.notes["steer"] = q.instructions
       /\ m.notes["suspend"] = IF q.suspended THEN 1 ELSE 0
       /\ m.notes["stop"] + m.notes["resume"] + m.notes["supersede"] = 0
  <2>1. l.notes["stop"] + l.notes["resume"] + l.notes["supersede"] = 0
    BY <1>3 DEF RowOK, Chosen, IsActive
  <2> QED BY <2>1, <1>9, <1>13 DEF RowOK, NoteKind
<1>16. IsActive(q) => q.used < Budget(q) /\ ~q.suspended
  BY <1>3, <1>6, <1>8, <1>9, <1>10 DEF IsActive
<1>17. IsOpen(q) => q.reason = "none"
  BY <1>8, <1>9 DEF IsOpen, OPEN_STATUSES
<1>18. ~Chosen(q)
  BY <1>7, <1>8, <1>9 DEF Chosen
<1>19. RowOK(q, m)
  BY <1>3, <1>6, <1>9, <1>10, <1>12, <1>14, <1>15, <1>16, <1>17, <1>18 DEF RowOK
<1> QED BY <1>8, <1>9, <1>19 DEF Keeps, q, m

-----------------------------------------------------------------------------
\* A bookkeeping step (or, for "none", no step) leaves the numbered steps
\* alone and is counted under its kind.
LEMMA AppendNote ==
  ASSUME NEW l \in Log, NEW k \in NoteKind \cup {"none"}
  PROVE  LET m == AppendStep(l, NoteStep(k))
         IN /\ m \in Log
            /\ \A n \in 1..MaxBudget : m.tools[n] = l.tools[n]
            /\ \A j \in NoteKind : m.notes[j] = IF j = k THEN l.notes[j] + 1 ELSE l.notes[j]
<1>1. NoteStep(k) \in Step /\ NoteStep(k).tool = 0 /\ NoteStep(k).note = k
  BY DEF NoteStep, Step
<1> DEFINE m == AppendStep(l, NoteStep(k))
<1>2. /\ m \in Log
      /\ \A n \in 1..MaxBudget : m.tools[n] = IF n = 0 THEN l.tools[n] + 1 ELSE l.tools[n]
      /\ \A j \in NoteKind : m.notes[j] = IF j = k THEN l.notes[j] + 1 ELSE l.notes[j]
  BY <1>1, AppendStepType
<1> HIDE DEF m
<1>3. \A n \in 1..MaxBudget : m.tools[n] = l.tools[n]
  BY <1>2 DEF MaxBudget
<1> QED BY <1>2, <1>3 DEF m

\* Natural numbers that sum to zero are zero.
LEMMA NoneOfThree ==
  ASSUME NEW a \in Nat, NEW b \in Nat, NEW c \in Nat
  PROVE  a + b + c = 0 => a = 0 /\ b = 0 /\ c = 0
OBVIOUS

EndingNote == {"stop", "resume", "supersede"}

\* What a handler that charges nothing does to the columns, when the step it
\* leaves is of kind k.
NoteFits(r, q, k) ==
  /\ q \in Row(Channel) /\ SameTurn(r, q) /\ q.used = r.used
  /\ IsActive(q) => IsActive(r) /\ q.suspended = r.suspended
  /\ IsOpen(q) => q.reason = "none"
  /\ q.status # "superseded" => q.by = 0
  /\ q.instructions = IF k = "steer" THEN r.instructions + 1 ELSE r.instructions
  /\ IF k = "suspend" THEN IsActive(r) /\ q.suspended = TRUE
                      ELSE q.suspended = r.suspended
  /\ IF k \in EndingNote THEN ~Chosen(r) /\ Chosen(q) ELSE Chosen(q) <=> Chosen(r)

\* Such a handler keeps the row and its transcript in agreement.
LEMMA NoteOK ==
  ASSUME NEW r, NEW l, RowOK(r, l), NEW q,
         NEW k \in NoteKind \cup {"none"}, NoteFits(r, q, k)
  PROVE  RowOK(q, AppendStep(l, NoteStep(k)))
<1> DEFINE m == AppendStep(l, NoteStep(k))
<1>1. r \in Row(Channel) /\ l \in Log
  BY DEF RowOK
<1>2. /\ m \in Log
      /\ \A n \in 1..MaxBudget : m.tools[n] = l.tools[n]
      /\ \A j \in NoteKind : m.notes[j] = IF j = k THEN l.notes[j] + 1 ELSE l.notes[j]
  BY <1>1, AppendNote
<1> HIDE DEF m
<1>3. Budget(q) = Budget(r) /\ q.used = r.used
  BY DEF NoteFits, SameTurn, Budget
<1>4. \A n \in 1..MaxBudget : m.tools[n] = IF n <= q.used THEN 1 ELSE 0
  BY <1>2, <1>3 DEF RowOK
<1>5. m.notes["steer"] = q.instructions
  <2>1. m.notes["steer"] = IF k = "steer" THEN l.notes["steer"] + 1 ELSE l.notes["steer"]
    BY <1>2 DEF NoteKind
  <2>2. l.notes["steer"] = r.instructions
    BY DEF RowOK
  <2> QED BY <2>1, <2>2 DEF NoteFits
<1>6. m.notes["suspend"] = IF q.suspended THEN 1 ELSE 0
  <2>1. m.notes["suspend"] = IF k = "suspend" THEN l.notes["suspend"] + 1 ELSE l.notes["suspend"]
    BY <1>2 DEF NoteKind
  <2>2. l.notes["suspend"] = IF r.suspended THEN 1 ELSE 0
    BY DEF RowOK
  <2>3. CASE k = "suspend"
    <3>1. IsActive(r) /\ q.suspended = TRUE
      BY <2>3 DEF NoteFits
    <3>2. ~r.suspended
      BY <3>1 DEF RowOK
    <3>3. m.notes["suspend"] = 1
      BY <2>1, <2>2, <2>3, <3>2
    <3> QED BY <3>1, <3>3
  <2>4. CASE k # "suspend"
    <3>1. q.suspended = r.suspended
      BY <2>4 DEF NoteFits
    <3>2. m.notes["suspend"] = l.notes["suspend"]
      BY <2>1, <2>4
    <3> QED BY <2>2, <3>1, <3>2
  <2> QED BY <2>3, <2>4
<1>7. m.notes["stop"] + m.notes["resume"] + m.notes["supersede"]
        = IF Chosen(q) THEN 1 ELSE 0
  <2>1. l.notes["stop"] \in Nat /\ l.notes["resume"] \in Nat /\ l.notes["supersede"] \in Nat
    BY <1>1 DEF Log, NoteKind
  <2>2. /\ m.notes["stop"] = IF k = "stop" THEN l.notes["stop"] + 1 ELSE l.notes["stop"]
        /\ m.notes["resume"] = IF k = "resume" THEN l.notes["resume"] + 1 ELSE l.notes["resume"]
        /\ m.notes["supersede"] = IF k = "supersede" THEN l.notes["supersede"] + 1
                                  ELSE l.notes["supersede"]
    BY <1>2 DEF NoteKind
  <2>3. l.notes["stop"] + l.notes["resume"] + l.notes["supersede"]
          = IF Chosen(r) THEN 1 ELSE 0
    BY DEF RowOK
  <2>4. CASE k \in EndingNote
    <3>1. ~Chosen(r) /\ Chosen(q)
      BY <2>4 DEF NoteFits
    <3>2. l.notes["stop"] + l.notes["resume"] + l.notes["supersede"] = 0
      BY <2>3, <3>1
    <3>3. l.notes["stop"] = 0 /\ l.notes["resume"] = 0 /\ l.notes["supersede"] = 0
      BY <2>1, <3>2, NoneOfThree
    <3>4. m.notes["stop"] + m.notes["resume"] + m.notes["supersede"] = 1
      BY <2>2, <2>4, <3>3 DEF EndingNote
    <3> QED BY <3>1, <3>4
  <2>5. CASE k \notin EndingNote
    <3>1. Chosen(q) <=> Chosen(r)
      BY <2>5 DEF NoteFits
    <3>2. /\ m.notes["stop"] = l.notes["stop"]
          /\ m.notes["resume"] = l.notes["resume"]
          /\ m.notes["supersede"] = l.notes["supersede"]
      BY <2>2, <2>5 DEF EndingNote
    <3> QED BY <2>3, <3>1, <3>2
  <2> QED BY <2>4, <2>5
<1>8. q.used <= Budget(q)
  BY <1>3 DEF RowOK
<1>9. IsActive(q) => q.used < Budget(q) /\ ~q.suspended
  <2> SUFFICES ASSUME IsActive(q) PROVE q.used < Budget(q) /\ ~q.suspended
    OBVIOUS
  <2>1. IsActive(r) /\ q.suspended = r.suspended
    BY DEF NoteFits
  <2>2. r.used < Budget(r) /\ ~r.suspended
    BY <2>1 DEF RowOK
  <2> QED BY <1>3, <2>1, <2>2
<1>10. /\ q \in Row(Channel)
       /\ IsOpen(q) => q.reason = "none"
       /\ q.status # "superseded" => q.by = 0
  BY DEF NoteFits
<1>11. RowOK(q, m)
  BY <1>2, <1>4, <1>5, <1>6, <1>7, <1>8, <1>9, <1>10 DEF RowOK
<1> QED BY <1>11 DEF m

-----------------------------------------------------------------------------
(* The handlers that charge nothing.                                       *)

\* From the rule a handler follows to the lemma a commit needs.
LEMMA NoteKeeps ==
  ASSUME NEW r, NEW l, RowOK(r, l), NEW x, NEW k \in NoteKind \cup {"none"},
         x.step = NoteStep(k), NoteFits(r, x.row, k), x.row.status # "superseded"
  PROVE  Keeps(r, l, x)
<1>1. RowOK(x.row, AppendStep(l, NoteStep(k)))
  BY NoteOK
<1>2. SameTurn(r, x.row)
  BY DEF NoteFits
<1> QED BY <1>1, <1>2 DEF Keeps

\* What every open row has in common: no ending, no stop reason, no overtaking
\* event.
LEMMA OpenRow ==
  ASSUME NEW r, NEW l, RowOK(r, l), ~IsTerminal(r)
  PROVE  r \in Row(Channel) /\ IsOpen(r) /\ r.reason = "none" /\ r.by = 0 /\ ~Chosen(r)
BY DEF RowOK, IsTerminal, IsOpen, Row, Status, TERMINAL_STATUSES, OPEN_STATUSES, Chosen

\* An ending v for reason z is told by a step of kind k.
Ending(v, z, k) ==
  /\ v \in TERMINAL_STATUSES \ {"superseded"} /\ z \in StopReason
  /\ k \in NoteKind \cup {"none"} /\ k \notin {"steer", "suspend"}
  /\ k \in EndingNote <=> v = "cancelled" \/ (v = "completed" /\ z = "approved")

\* The endings of the code are endings in this sense.
LEMMA Endings ==
  /\ \A said \in Said : Ending("cancelled", said, "stop")
  /\ Ending("completed", "approved", "resume")
  /\ Ending("cancelled", "approval_rejected", "resume")
  /\ Ending("completed", "plan_complete", "none")
  /\ Ending("failed", "worker_error", "none")
BY WordsAssumption DEF Ending, TERMINAL_STATUSES, StopReason, NoteKind, EndingNote

\* A handler that closes an open row respects its columns.
LEMMA ClosedFits ==
  ASSUME NEW r, NEW l, RowOK(r, l), ~IsTerminal(r),
         NEW v, NEW z, NEW k, Ending(v, z, k)
  PROVE  NoteFits(r, Closed(r, v, z), k) /\ Closed(r, v, z).status # "superseded"
<1> DEFINE q == Closed(r, v, z)
<1>1. r \in Row(Channel) /\ r.by = 0 /\ ~Chosen(r)
  BY OpenRow
<1>2. /\ v \in Status /\ v \in TERMINAL_STATUSES \ {"superseded"} /\ z \in StopReason
      /\ k \notin {"steer", "suspend"}
      /\ k \in EndingNote <=> v = "cancelled" \/ (v = "completed" /\ z = "approved")
  BY DEF Ending, Status
<1>3. /\ q \in Row(Channel) /\ q.status = v /\ q.reason = z
      /\ q.used = r.used /\ q.by = r.by /\ q.suspended = r.suspended
      /\ q.instructions = r.instructions /\ SameTurn(r, q)
  BY <1>1, <1>2 DEF Closed, Row, SameTurn
<1> HIDE DEF q
<1>4. ~IsActive(q) /\ ~IsOpen(q)
  BY <1>2, <1>3 DEF IsActive, IsOpen, OPEN_STATUSES, TERMINAL_STATUSES
<1>5. Chosen(q) <=> k \in EndingNote
  BY <1>2, <1>3 DEF Chosen
<1> QED BY <1>1, <1>2, <1>3, <1>4, <1>5 DEF NoteFits, q

\* stop_turn
LEMMA StoppedOK ==
  ASSUME NEW r, NEW l, RowOK(r, l), CanStop(r), NEW said \in Said
  PROVE  Keeps(r, l, Stopped(r, said))
<1> DEFINE q == Closed(r, "cancelled", said)
<1>1. Stopped(r, said).row = q /\ Stopped(r, said).step = NoteStep("stop")
  BY DEF Stopped
<1>2. NoteFits(r, q, "stop") /\ q.status # "superseded"
  BY ClosedFits, Endings DEF CanStop
<1> HIDE DEF q
<1> QED BY <1>1, <1>2, NoteKeeps DEF NoteKind

\* resume_turn, whichever way the gate is resolved
LEMMA ResumedOK ==
  ASSUME NEW r, NEW l, RowOK(r, l), NEW administers, CanResume(r, administers), NEW approved
  PROVE  Keeps(r, l, Resumed(r, approved))
<1> DEFINE q == Resumed(r, approved).row
<1>1. ~IsTerminal(r)
  BY DEF CanResume, IsTerminal, TERMINAL_STATUSES
<1>2. \/ q = Closed(r, "completed", "approved")
      \/ q = Closed(r, "cancelled", "approval_rejected")
  BY DEF Resumed
<1>3. Resumed(r, approved).step = NoteStep("resume")
  BY DEF Resumed
<1> HIDE DEF q
<1>4. NoteFits(r, q, "resume") /\ q.status # "superseded"
  BY <1>1, <1>2, ClosedFits, Endings
<1> QED BY <1>3, <1>4, NoteKeeps DEF NoteKind, q

\* The worker's ending of a plan, and of a turn whose tool raised
LEMMA WorkerOK ==
  ASSUME NEW r, NEW l, RowOK(r, l), IsActive(r)
  PROVE  Keeps(r, l, PlanComplete(r)) /\ Keeps(r, l, WorkerError(r))
<1>1. ~IsTerminal(r)
  BY DEF IsActive, IsTerminal, TERMINAL_STATUSES
<1>2. NoStep = NoteStep("none")
  BY DEF NoStep, NoteStep
<1> DEFINE done == Closed(r, "completed", "plan_complete")
           lost == Closed(r, "failed", "worker_error")
<1>3. /\ NoteFits(r, done, "none") /\ done.status # "superseded"
      /\ NoteFits(r, lost, "none") /\ lost.status # "superseded"
  BY <1>1, ClosedFits, Endings
<1>4. /\ PlanComplete(r).row = done /\ PlanComplete(r).step = NoteStep("none")
      /\ WorkerError(r).row = lost /\ WorkerError(r).step = NoteStep("none")
  BY <1>2 DEF PlanComplete, WorkerError
<1> HIDE DEF done, lost
<1> QED BY <1>3, <1>4, NoteKeeps

\* suspend_turn
LEMMA SuspendedOK ==
  ASSUME NEW r, NEW l, RowOK(r, l), CanSuspend(r)
  PROVE  Keeps(r, l, Suspended(r))
<1> DEFINE q == [r EXCEPT !.status = "awaiting_approval", !.suspended = TRUE]
<1>1. Suspended(r).row = q /\ Suspended(r).step = NoteStep("suspend")
  BY DEF Suspended
<1>2. IsActive(r) /\ ~IsTerminal(r)
  BY DEF CanSuspend, IsActive, IsTerminal, TERMINAL_STATUSES
<1>3. r \in Row(Channel) /\ r.reason = "none" /\ r.by = 0 /\ ~Chosen(r)
  BY <1>2, OpenRow
<1>4. /\ q \in Row(Channel) /\ q.status = "awaiting_approval" /\ q.suspended = TRUE
      /\ q.reason = r.reason /\ q.used = r.used /\ q.by = r.by
      /\ q.instructions = r.instructions /\ SameTurn(r, q)
  BY <1>3 DEF Row, SameTurn, Status, OPEN_STATUSES
<1> HIDE DEF q
<1>5. ~IsActive(q) /\ ~Chosen(q)
  BY <1>4 DEF IsActive, Chosen
<1>6. NoteFits(r, q, "suspend")
  BY <1>2, <1>3, <1>4, <1>5 DEF NoteFits, EndingNote
<1> QED BY <1>1, <1>4, <1>6, NoteKeeps DEF NoteKind

\* steer_turn
LEMMA SteeredOK ==
  ASSUME NEW r, NEW l, RowOK(r, l), CanSteer(r)
  PROVE  Keeps(r, l, Steered(r))
<1> DEFINE u == r.instructions + 1
           q == [r EXCEPT !.instructions = u]
<1>1. Steered(r).row = q /\ Steered(r).step = NoteStep("steer")
  BY DEF Steered
<1>2. r \in Row(Channel) /\ IsOpen(r) /\ r.reason = "none" /\ r.by = 0
  BY OpenRow DEF CanSteer
<1>3. u \in Nat
  <2>1. r.instructions \in Nat
    BY <1>2 DEF Row
  <2> QED BY <2>1
<1> HIDE DEF u
<1>4. /\ q \in Row(Channel) /\ q.status = r.status /\ q.suspended = r.suspended
      /\ q.reason = r.reason /\ q.used = r.used /\ q.by = r.by
      /\ q.instructions = u /\ SameTurn(r, q)
  BY <1>2, <1>3 DEF Row, SameTurn
<1> HIDE DEF q
<1>5. (IsActive(q) => IsActive(r)) /\ (Chosen(q) <=> Chosen(r))
  BY <1>4 DEF IsActive, Chosen
<1>6. NoteFits(r, q, "steer")
  BY <1>2, <1>4, <1>5 DEF NoteFits, EndingNote, u
<1>7. q.status # "superseded"
  BY <1>2, <1>4 DEF IsOpen, OPEN_STATUSES
<1> QED BY <1>1, <1>6, <1>7, NoteKeeps DEF NoteKind

-----------------------------------------------------------------------------
(* handle_event: the turns it displaces and the turn it opens.             *)

LEMMA SupersededOK ==
  ASSUME NEW r, NEW l, RowOK(r, l), IsOpen(r), NEW e \in Nat
  PROVE  LET x == Superseded(r, e)
         IN /\ RowOK(x.row, AppendStep(l, x.step))
            /\ SameTurn(r, x.row) /\ IsTerminal(x.row)
            /\ x.row.status = "superseded" /\ x.row.by = e
<1>1. ~IsTerminal(r)
  BY DEF IsOpen, IsTerminal, OPEN_STATUSES, TERMINAL_STATUSES
<1>2. r \in Row(Channel) /\ ~Chosen(r)
  BY <1>1, OpenRow
<1> DEFINE q == Superseded(r, e).row
<1>3. q = [r EXCEPT !.status = "superseded", !.by = e, !.reason = "superseded"]
  BY DEF Superseded
<1>4. Superseded(r, e).step = NoteStep("supersede")
  BY DEF Superseded
<1>5. "superseded" \in Status /\ "superseded" \in StopReason
  BY DEF Status, TERMINAL_STATUSES, StopReason
<1> HIDE DEF q
<1>6. /\ q \in Row(Channel) /\ q.status = "superseded" /\ q.reason = "superseded"
      /\ q.used = r.used /\ q.by = e /\ q.suspended = r.suspended
      /\ q.instructions = r.instructions /\ SameTurn(r, q)
  BY <1>2, <1>3, <1>5 DEF Row, SameTurn
<1>7. ~IsActive(q) /\ ~IsOpen(q) /\ IsTerminal(q) /\ Chosen(q)
  BY <1>6 DEF IsActive, IsOpen, IsTerminal, OPEN_STATUSES, TERMINAL_STATUSES, Chosen
<1>8. NoteFits(r, q, "supersede")
  BY <1>2, <1>6, <1>7 DEF NoteFits, EndingNote
<1>9. RowOK(q, AppendStep(l, NoteStep("supersede")))
  BY <1>8, NoteOK DEF NoteKind
<1> QED BY <1>4, <1>6, <1>7, <1>9 DEF q

LEMMA NewTurnOK ==
  ASSUME NEW c \in Channel, NEW k \in EventKind, NEW a \in Action
  PROVE  /\ RowOK(NewTurn(c, k, a), NewLog)
         /\ NewTurn(c, k, a).status # "superseded"
         /\ NewTurn(c, k, a).channel = c
         /\ NewTurn(c, k, a).kind = k /\ NewTurn(c, k, a).action = a
<1> DEFINE r == NewTurn(c, k, a)
           l == AppendStep(EmptyLog, NoteStep("triage"))
<1>1. /\ r.channel = c /\ r.kind = k /\ r.action = a /\ r.used = 0
      /\ r.by = 0 /\ r.suspended = FALSE /\ r.instructions = 0
      /\ IF a = "pass" THEN r.status = "completed" /\ r.reason = "passed"
                       ELSE r.status = "pending" /\ r.reason = "none"
  BY DEF NewTurn
<1>2. r \in Row(Channel)
  BY DEF NewTurn, Row, Status, TERMINAL_STATUSES, OPEN_STATUSES, StopReason
<1> HIDE DEF r
<1>3. EmptyLog \in Log
  BY DEF EmptyLog, Log
<1>4. /\ \A n \in 1..MaxBudget : EmptyLog.tools[n] = 0
      /\ \A j \in NoteKind : EmptyLog.notes[j] = 0
  BY DEF EmptyLog
<1>5. /\ l \in Log
      /\ \A n \in 1..MaxBudget : l.tools[n] = EmptyLog.tools[n]
      /\ \A j \in NoteKind : l.notes[j] = IF j = "triage" THEN EmptyLog.notes[j] + 1
                                        ELSE EmptyLog.notes[j]
  BY <1>3, AppendNote DEF NoteKind
<1> HIDE DEF l
<1>6. /\ AppendStep(l, NoteStep("policy")) \in Log
      /\ \A n \in 1..MaxBudget : AppendStep(l, NoteStep("policy")).tools[n] = l.tools[n]
      /\ \A j \in NoteKind : AppendStep(l, NoteStep("policy")).notes[j]
                             = IF j = "policy" THEN l.notes[j] + 1 ELSE l.notes[j]
  BY <1>5, AppendNote DEF NoteKind
<1>7. NewLog = AppendStep(l, NoteStep("policy"))
  BY DEF NewLog, l
<1>8. /\ NewLog \in Log
      /\ \A n \in 1..MaxBudget : NewLog.tools[n] = 0
      /\ \A j \in {"steer", "suspend", "stop", "resume", "supersede"} : NewLog.notes[j] = 0
  BY <1>4, <1>5, <1>6, <1>7 DEF NoteKind
<1>9. Budget(r) \in Nat /\ (a # "pass" => 0 < Budget(r))
  <2>1. r.action = a
    BY <1>1
  <2> QED BY <2>1 DEF Budget, ACTION_BUDGET, Action
<1>10. IsActive(r) => a # "pass"
  BY <1>1 DEF IsActive
<1>11. IsOpen(r) => r.reason = "none"
  BY <1>1 DEF IsOpen, OPEN_STATUSES
<1>12. ~Chosen(r) /\ r.status # "superseded"
  BY <1>1 DEF Chosen
<1>13. /\ r.used <= Budget(r)
       /\ \A n \in 1..MaxBudget : NewLog.tools[n] = IF n <= r.used THEN 1 ELSE 0
  <2>1. r.used = 0
    BY <1>1
  <2> QED BY <2>1, <1>8, <1>9 DEF MaxBudget
<1>14. /\ NewLog.notes["steer"] = r.instructions
       /\ NewLog.notes["suspend"] = IF r.suspended THEN 1 ELSE 0
  BY <1>1, <1>8
<1>15. NewLog.notes["stop"] + NewLog.notes["resume"] + NewLog.notes["supersede"] = 0
  BY <1>8
<1>16. IsActive(r) => r.used < Budget(r) /\ ~r.suspended
  <2>1. r.used = 0
    BY <1>1
  <2>2. ~r.suspended
    BY <1>1
  <2> QED BY <2>1, <2>2, <1>9, <1>10
<1>17. RowOK(r, NewLog)
  BY <1>1, <1>2, <1>8, <1>11, <1>12, <1>13, <1>14, <1>15, <1>16 DEF RowOK
<1> QED BY <1>1, <1>12, <1>17 DEF r

-----------------------------------------------------------------------------
(* The handlers at work on the tables.                                     *)

\* A handler that keeps its own row right keeps the tables right.
LEMMA CommitOK ==
  ASSUME IInv, NEW t \in Turn, NEW x, ~IsTerminal(row[t]),
         Keeps(row[t], log[t], x), Commit(t, x)
  PROVE  IInv'
<1> DEFINE R == row'
           L == log'
           m == AppendStep(log[t], x.step)
           q == x.row
<1>1. /\ Turn' = Turn /\ opened' = opened
      /\ R = [row EXCEPT ![t] = q]
      /\ L = [log EXCEPT ![t] = m]
  BY DEF Commit, Turn
<1>2. /\ row \in [Turn -> Row(Channel)] /\ log \in [Turn -> Log]
      /\ opened \in 0..MaxTurns
      /\ \A u \in Turn : RowOK(row[u], log[u])
      /\ NewestWins /\ Named
  BY DEF IInv
<1>3. RowOK(q, m) /\ SameTurn(row[t], q) /\ q.status # "superseded"
  BY DEF Keeps
<1>4. q \in Row(Channel) /\ m \in Log
  BY <1>3 DEF RowOK
<1> HIDE DEF R, L, m, q
<1>5. R \in [Turn -> Row(Channel)] /\ L \in [Turn -> Log]
  BY <1>1, <1>2, <1>4
<1>6. /\ R[t] = q /\ L[t] = m
      /\ \A u \in Turn : u # t => R[u] = row[u] /\ L[u] = log[u]
  BY <1>1, <1>2
<1>7. ASSUME NEW u \in Turn
      PROVE  /\ RowOK(R[u], L[u])
             /\ R[u].channel = row[u].channel
             /\ R[u].kind = row[u].kind /\ R[u].action = row[u].action
             /\ IsTerminal(row[u]) => IsTerminal(R[u])
             /\ R[u].status = "superseded" => R[u] = row[u]
  <2>1. CASE u = t
    BY <2>1, <1>3, <1>6 DEF SameTurn
  <2>2. CASE u # t
    <3>1. R[u] = row[u] /\ L[u] = log[u]
      BY <2>2, <1>6
    <3> QED BY <3>1, <1>2
  <2> QED BY <2>1, <2>2
<1>8. NewestWins'
  <2> SUFFICES ASSUME NEW u \in Turn, NEW v \in Turn, u < v,
                      R[u].channel = R[v].channel, Overtakes(R[v].kind, R[v].action)
               PROVE  IsTerminal(R[u])
    BY <1>1 DEF NewestWins, R
  <2>1. row[u].channel = row[v].channel /\ Overtakes(row[v].kind, row[v].action)
    BY <1>7
  <2>2. IsTerminal(row[u])
    BY <2>1, <1>2 DEF NewestWins
  <2> QED BY <2>2, <1>7
<1>9. Named'
  <2> SUFFICES ASSUME NEW u \in Turn, R[u].status = "superseded"
               PROVE  /\ R[u].by \in Turn /\ u < R[u].by
                      /\ R[R[u].by].channel = R[u].channel
                      /\ Overtakes(R[R[u].by].kind, R[R[u].by].action)
    BY <1>1 DEF Named, R
  <2>1. R[u] = row[u] /\ row[u].status = "superseded"
    BY <1>7
  <2> DEFINE b == row[u].by
  <2>2. /\ b \in Turn /\ u < b /\ row[b].channel = row[u].channel
        /\ Overtakes(row[b].kind, row[b].action)
    BY <2>1, <1>2 DEF Named
  <2>3. R[b].channel = row[b].channel /\ R[b].kind = row[b].kind /\ R[b].action = row[b].action
    BY <2>2, <1>7
  <2> QED BY <2>1, <2>2, <2>3
<1>10. \A u \in Turn : RowOK(R[u], L[u])
  BY <1>7
<1> QED BY <1>1, <1>2, <1>5, <1>8, <1>9, <1>10 DEF IInv, R, L

\* An event that opens a turn closes every open turn it displaces.
LEMMA EventOK ==
  ASSUME IInv, NEW c \in Channel, NEW k \in Kinds, NEW a \in Action, HandleEvent(c, k, a)
  PROVE  IInv'
<1> DEFINE R == row'
           L == log'
           e == opened + 1
           late == Overtaken(c, k, a)
<1>1. /\ opened \in Nat /\ e \in Nat /\ e <= MaxTurns /\ opened' = e
      /\ Turn' = 1..e /\ Turn = 1..opened
      /\ opened' \in 0..MaxTurns
  BY TablesAssumption DEF IInv, HandleEvent, Turn
<1>2. /\ R = [t \in 1..e |-> IF t = e THEN NewTurn(c, k, a)
                               ELSE IF t \in late THEN Superseded(row[t], e).row
                               ELSE row[t]]
      /\ L = [t \in 1..e |-> IF t = e THEN NewLog
                               ELSE IF t \in late
                                    THEN AppendStep(log[t], Superseded(row[t], e).step)
                               ELSE log[t]]
  BY DEF HandleEvent
<1>3. /\ e \in 1..e /\ e \notin Turn
      /\ \A t \in 1..e : t = e \/ (t # e /\ t \in Turn /\ t < e)
      /\ \A t \in Turn : t \in 1..e /\ t # e /\ t < e
  BY <1>1
<1>4. \A t \in late : t \in Turn /\ IsOpen(row[t]) /\ row[t].channel = c /\ Overtakes(k, a)
  BY DEF Overtaken
<1>5. k \in EventKind
  BY TablesAssumption
<1> HIDE DEF R, L, e, late
<1>6. R[e] = NewTurn(c, k, a) /\ L[e] = NewLog
  BY <1>2, <1>3
<1>7. \A t \in Turn :
        IF t \in late THEN /\ R[t] = Superseded(row[t], e).row
                           /\ L[t] = AppendStep(log[t], Superseded(row[t], e).step)
                      ELSE R[t] = row[t] /\ L[t] = log[t]
  BY <1>2, <1>3
<1>8. \A t \in late : /\ RowOK(R[t], L[t]) /\ SameTurn(row[t], R[t])
                      /\ IsTerminal(R[t]) /\ R[t].by = e
  BY <1>1, <1>4, <1>7, SupersededOK DEF IInv
<1>9. RowOK(R[e], L[e]) /\ R[e].status # "superseded"
      /\ R[e].channel = c /\ R[e].kind = k /\ R[e].action = a
  BY <1>5, <1>6, NewTurnOK
<1>10. \A t \in Turn : RowOK(R[t], L[t])
  BY <1>7, <1>8 DEF IInv
<1>11. \A t \in 1..e : RowOK(R[t], L[t])
  BY <1>3, <1>9, <1>10
<1>12. R \in [1..e -> Row(Channel)] /\ L \in [1..e -> Log]
  <2>1. \A t \in 1..e : R[t] \in Row(Channel) /\ L[t] \in Log
    BY <1>11 DEF RowOK
  <2>2. R = [t \in 1..e |-> R[t]] /\ L = [t \in 1..e |-> L[t]]
    BY <1>2
  <2> QED BY <2>1, <2>2
<1>13. \A t \in Turn : /\ R[t].channel = row[t].channel
                       /\ R[t].kind = row[t].kind /\ R[t].action = row[t].action
                       /\ IsTerminal(row[t]) => IsTerminal(R[t])
  BY <1>7, <1>8 DEF SameTurn
<1>14. ASSUME Overtakes(k, a), NEW t \in Turn, row[t].channel = c
       PROVE  IsTerminal(R[t])
  <2>1. CASE t \in late
    BY <2>1, <1>8
  <2>2. CASE t \notin late
    <3>1. ~IsOpen(row[t])
      BY <1>14, <2>2 DEF late, Overtaken
    <3>2. row[t] \in Row(Channel)
      BY DEF IInv
    <3>3. IsTerminal(row[t])
      BY <3>1, <3>2 DEF IsOpen, IsTerminal, Row, Status
    <3> QED BY <3>3, <1>13
  <2> QED BY <2>1, <2>2
<1>15. NewestWins'
  <2> SUFFICES ASSUME NEW t \in 1..e, NEW u \in 1..e, t < u,
                      R[t].channel = R[u].channel,
                      Overtakes(R[u].kind, R[u].action)
               PROVE  IsTerminal(R[t])
    BY <1>1 DEF NewestWins, R
  <2>1. t \in Turn
    BY <1>1, <1>3 DEF e
  <2>2. CASE u = e
    BY <2>1, <2>2, <1>9, <1>13, <1>14
  <2>3. CASE u # e
    <3>1. u \in Turn
      BY <2>3, <1>3
    <3>2. row[t].channel = row[u].channel /\ Overtakes(row[u].kind, row[u].action)
      BY <2>1, <3>1, <1>13
    <3> QED BY <2>1, <3>1, <3>2, <1>13 DEF IInv, NewestWins
  <2> QED BY <2>2, <2>3
<1>16. Named'
  <2> SUFFICES ASSUME NEW t \in 1..e, R[t].status = "superseded"
               PROVE  /\ R[t].by \in 1..e /\ t < R[t].by
                      /\ R[R[t].by].channel = R[t].channel
                      /\ Overtakes(R[R[t].by].kind, R[R[t].by].action)
    BY <1>1 DEF Named, R
  <2>1. t \in Turn /\ t < e
    BY <1>3, <1>9
  <2>2. CASE t \in late
    <3>1. R[t].by = e /\ R[t].channel = c /\ Overtakes(k, a)
      BY <2>1, <2>2, <1>4, <1>8 DEF SameTurn
    <3> QED BY <2>1, <3>1, <1>3, <1>9
  <2>3. CASE t \notin late
    <3>1. R[t] = row[t]
      BY <2>1, <2>3, <1>7
    <3>2. /\ row[t].by \in Turn /\ t < row[t].by
          /\ row[row[t].by].channel = row[t].channel
          /\ Overtakes(row[row[t].by].kind, row[row[t].by].action)
      BY <2>1, <3>1 DEF IInv, Named
    <3> DEFINE b == row[t].by
    <3>3. R[b].channel = row[b].channel /\ R[b].kind = row[b].kind /\ R[b].action = row[b].action
      BY <3>2, <1>13
    <3> QED BY <3>1, <3>2, <3>3, <1>3
  <2> QED BY <2>2, <2>3
<1> QED BY <1>1, <1>11, <1>12, <1>15, <1>16 DEF IInv, R, L

-----------------------------------------------------------------------------
(* The invariant, and what follows from it.                                *)

LEMMA InitOK == Init => IInv
<1> SUFFICES ASSUME Init PROVE IInv
  OBVIOUS
<1>1. opened = 0 /\ row = <<>> /\ log = <<>> /\ Turn = {}
  BY DEF Init, NoTurns, Turn
<1>2. opened \in 0..MaxTurns
  BY <1>1, TablesAssumption
<1>3. row \in [Turn -> Row(Channel)] /\ log \in [Turn -> Log]
  BY <1>1
<1> QED BY <1>1, <1>2, <1>3 DEF IInv, NewestWins, Named

\* A gated turn is not charged, and a handler that opens the gate tells it.
GateRule(r, x) ==
  r.status = "awaiting_approval" =>
    /\ x.step.tool = 0
    /\ x.row.status # "awaiting_approval" => x.step.note \in EndingNote

Work(t, x) ==
  /\ Commit(t, x)
  /\ ~IsTerminal(row[t])
  /\ Keeps(row[t], log[t], x)
  /\ GateRule(row[t], x)

\* Every step is an event, or the work of one handler on one open turn.
LEMMA StepCases ==
  ASSUME IInv, Next
  PROVE  \/ \E c \in Channel, k \in Kinds, a \in Action : HandleEvent(c, k, a)
         \/ \E t \in Turn : \E x : Work(t, x)
<1>1. \A t \in Turn : RowOK(row[t], log[t])
  BY DEF IInv
<1>2. ASSUME NEW t \in Turn, NEW tool, AdvanceTurn(t, tool)
      PROVE  Work(t, Advanced(row[t]))
  <2>1. CanAdvance(row[t], tool) /\ Commit(t, Advanced(row[t]))
    BY <1>2 DEF AdvanceTurn
  <2>2. ~IsTerminal(row[t]) /\ row[t].status # "awaiting_approval"
    BY <2>1 DEF CanAdvance
  <2>3. Keeps(row[t], log[t], Advanced(row[t]))
    BY <1>1, <2>1, AdvancedOK
  <2> QED BY <2>1, <2>2, <2>3 DEF Work, GateRule
<1>3. ASSUME NEW t \in Turn, SuspendTurn(t)
      PROVE  Work(t, Suspended(row[t]))
  <2>1. CanSuspend(row[t]) /\ Commit(t, Suspended(row[t]))
    BY <1>3 DEF SuspendTurn
  <2>2. ~IsTerminal(row[t]) /\ row[t].status # "awaiting_approval"
    BY <2>1 DEF CanSuspend, IsActive, IsTerminal, TERMINAL_STATUSES
  <2>3. Keeps(row[t], log[t], Suspended(row[t]))
    BY <1>1, <2>1, SuspendedOK
  <2> QED BY <2>1, <2>2, <2>3 DEF Work, GateRule
<1>4. ASSUME NEW t \in Turn, NEW approved, NEW administers,
             ResumeTurn(t, approved, administers)
      PROVE  Work(t, Resumed(row[t], approved))
  <2>1. CanResume(row[t], administers) /\ Commit(t, Resumed(row[t], approved))
    BY <1>4 DEF ResumeTurn
  <2>2. ~IsTerminal(row[t]) /\ row[t] \in Row(Channel)
    BY <1>1, <2>1 DEF CanResume, IsTerminal, TERMINAL_STATUSES, RowOK
  <2>3. Keeps(row[t], log[t], Resumed(row[t], approved))
    BY <1>1, <2>1, ResumedOK
  <2>4. GateRule(row[t], Resumed(row[t], approved))
    BY DEF GateRule, Resumed, NoteStep, EndingNote
  <2> QED BY <2>1, <2>2, <2>3, <2>4 DEF Work
<1>5. ASSUME NEW t \in Turn, SteerTurn(t)
      PROVE  Work(t, Steered(row[t]))
  <2>1. CanSteer(row[t]) /\ Commit(t, Steered(row[t]))
    BY <1>5 DEF SteerTurn
  <2>2. ~IsTerminal(row[t]) /\ row[t] \in Row(Channel)
    BY <1>1, <2>1 DEF CanSteer, RowOK
  <2>3. Keeps(row[t], log[t], Steered(row[t]))
    BY <1>1, <2>1, SteeredOK
  <2>4. GateRule(row[t], Steered(row[t]))
    BY <2>2 DEF GateRule, Steered, NoteStep, Row
  <2> QED BY <2>1, <2>2, <2>3, <2>4 DEF Work
<1>6. ASSUME NEW t \in Turn, NEW said \in Said, StopTurn(t, said)
      PROVE  Work(t, Stopped(row[t], said))
  <2>1. CanStop(row[t]) /\ Commit(t, Stopped(row[t], said))
    BY <1>6 DEF StopTurn
  <2>2. ~IsTerminal(row[t]) /\ row[t] \in Row(Channel)
    BY <1>1, <2>1 DEF CanStop, RowOK
  <2>3. Keeps(row[t], log[t], Stopped(row[t], said))
    BY <1>1, <2>1, StoppedOK
  <2>4. GateRule(row[t], Stopped(row[t], said))
    BY DEF GateRule, Stopped, NoteStep, EndingNote
  <2> QED BY <2>1, <2>2, <2>3, <2>4 DEF Work
<1>7. ASSUME NEW t \in Turn, CompletePlan(t) \/ FailTurn(t)
      PROVE  \E x : Work(t, x)
  <2>1. /\ IsActive(row[t])
        /\ Commit(t, PlanComplete(row[t])) \/ Commit(t, WorkerError(row[t]))
    BY <1>7 DEF CompletePlan, FailTurn, IsActive
  <2>2. ~IsTerminal(row[t]) /\ row[t].status # "awaiting_approval"
    BY <2>1 DEF IsActive, IsTerminal, TERMINAL_STATUSES
  <2>3. Keeps(row[t], log[t], PlanComplete(row[t])) /\ Keeps(row[t], log[t], WorkerError(row[t]))
    BY <1>1, <2>1, WorkerOK
  <2>4. Work(t, PlanComplete(row[t])) \/ Work(t, WorkerError(row[t]))
    BY <2>1, <2>2, <2>3 DEF Work, GateRule
  <2> QED BY <2>4
<1> QED BY <1>2, <1>3, <1>4, <1>5, <1>6, <1>7 DEF Next

LEMMA StepOK == IInv /\ [Next]_vars => IInv'
<1> SUFFICES ASSUME IInv, [Next]_vars PROVE IInv'
  OBVIOUS
<1>1. ASSUME NEW c \in Channel, NEW k \in Kinds, NEW a \in Action, HandleEvent(c, k, a)
      PROVE  IInv'
  BY <1>1, EventOK
<1>2. ASSUME NEW t \in Turn, NEW x, Work(t, x)
      PROVE  IInv'
  BY <1>2, CommitOK DEF Work
<1>3. CASE UNCHANGED vars
  BY <1>3 DEF vars, IInv, Turn, NewestWins, Named
<1> QED BY <1>1, <1>2, <1>3, StepCases

LEMMA Invariance == Spec => []IInv
BY InitOK, StepOK, PTL DEF Spec

\* Every table is of the shape the handlers expect, in every reachable state.
THEOREM TypeCorrect == Spec => []TypeOK
<1>1. IInv => TypeOK
  BY DEF IInv, TypeOK, TablesOK
<1> QED BY <1>1, Invariance, PTL

\* What a row says of its own turn.
THEOREM Bookkeeping ==
  Spec => []OneStory
<1>1. IInv => OneStory
  BY DEF IInv, RowOK, OneStory, TranscriptAgrees, ColumnsBacked, OpenHasBudget, OneEnding
<1> QED BY <1>1, Invariance, PTL

\* What an overtaking event does to the other turns of its channel.
THEOREM Overtaking == Spec => []DisplacedRightly
<1>1. IInv => DisplacedRightly
  BY DEF IInv, RowOK, Named, SupersededByNewer, DisplacedRightly
<1> QED BY <1>1, Invariance, PTL
-----------------------------------------------------------------------------
(* What no step does to a turn.                                            *)

\* A handler that works on another turn leaves this one alone.
LEMMA CommitElsewhere ==
  ASSUME TypeOK, NEW t \in Turn, NEW x, Commit(t, x), NEW u \in Turn
  PROVE  IF u = t THEN row'[u] = x.row /\ log'[u] = AppendStep(log[u], x.step)
                  ELSE row'[u] = row[u] /\ log'[u] = log[u]
BY DEF Commit, TypeOK, TablesOK

\* An event leaves the turns alone that it does not displace.
LEMMA EventElsewhere ==
  ASSUME TypeOK, NEW c \in Channel, NEW k \in Kinds, NEW a \in Action,
         HandleEvent(c, k, a), NEW u \in Turn
  PROVE  IF u \in Overtaken(c, k, a)
         THEN LET x == Superseded(row[u], opened + 1)
              IN row'[u] = x.row /\ log'[u] = AppendStep(log[u], x.step)
         ELSE row'[u] = row[u] /\ log'[u] = log[u]
<1> DEFINE e == opened + 1
           late == Overtaken(c, k, a)
<1>1. /\ row' = [t \in 1..e |-> IF t = e THEN NewTurn(c, k, a)
                               ELSE IF t \in late THEN Superseded(row[t], e).row
                               ELSE row[t]]
      /\ log' = [t \in 1..e |-> IF t = e THEN NewLog
                               ELSE IF t \in late
                                    THEN AppendStep(log[t], Superseded(row[t], e).step)
                               ELSE log[t]]
  BY DEF HandleEvent
<1>2. u \in 1..e /\ u # e
  BY DEF TypeOK, TablesOK, Turn
<1> HIDE DEF e, late
<1> QED BY <1>1, <1>2 DEF e, late

\* A closed turn and its transcript are never written again.
THEOREM Finality == Spec => TerminalIsFinal
<1>1. ASSUME IInv, [Next]_vars, NEW u \in Turn, IsTerminal(row[u])
      PROVE  row'[u] = row[u] /\ log'[u] = log[u]
  <2>1. TypeOK
    BY <1>1 DEF IInv, TypeOK, TablesOK
  <2>2. ASSUME NEW c \in Channel, NEW k \in Kinds, NEW a \in Action, HandleEvent(c, k, a)
        PROVE  row'[u] = row[u] /\ log'[u] = log[u]
    <3>1. u \notin Overtaken(c, k, a)
      BY <1>1 DEF Overtaken, IsOpen, IsTerminal, OPEN_STATUSES, TERMINAL_STATUSES
    <3> QED BY <2>1, <2>2, <3>1, EventElsewhere
  <2>3. ASSUME NEW t \in Turn, NEW x, Work(t, x)
        PROVE  row'[u] = row[u] /\ log'[u] = log[u]
    <3>1. u # t
      BY <1>1, <2>3 DEF Work
    <3> QED BY <2>1, <2>3, <3>1, CommitElsewhere DEF Work
  <2>4. CASE UNCHANGED vars
    BY <2>4 DEF vars
  <2> QED BY <1>1, <2>2, <2>3, <2>4, StepCases
<1>2. IInv /\ [Next]_vars =>
        [\A t \in Turn : IsTerminal(row[t]) => row'[t] = row[t] /\ log'[t] = log[t]]_vars
  BY <1>1
<1> QED BY <1>2, Invariance, PTL DEF Spec, TerminalIsFinal

\* Nothing is charged at the gate, and only a decision, a stop or another
\* message opens it, each of which is told.
THEOREM Gate == Spec => GateHeld
<1> DEFINE Held(u) ==
      /\ log'[u].tools = log[u].tools
      /\ row'[u].status # "awaiting_approval" =>
           \E k \in EndingNote : log'[u].notes[k] = log[u].notes[k] + 1
<1>1. ASSUME IInv, [Next]_vars, NEW u \in Turn, row[u].status = "awaiting_approval"
      PROVE  Held(u)
  <2>1. TypeOK /\ RowOK(row[u], log[u])
    BY <1>1 DEF IInv, TypeOK, TablesOK
  <2>2. row[u] \in Row(Channel) /\ log[u] \in Log
    BY <2>1 DEF RowOK
  <2>3. /\ \A s : s.tool = 0 => AppendStep(log[u], s).tools = log[u].tools
        /\ \A s : s.note \in EndingNote =>
             AppendStep(log[u], s).notes[s.note] = log[u].notes[s.note] + 1
    BY <2>2 DEF AppendStep, Log, MaxBudget, EndingNote, NoteKind
  <2>4. ASSUME row'[u] = row[u], log'[u] = log[u]
        PROVE  Held(u)
    BY <1>1, <2>4
  <2>5. ASSUME NEW c \in Channel, NEW k \in Kinds, NEW a \in Action, HandleEvent(c, k, a)
        PROVE  Held(u)
    <3> DEFINE x == Superseded(row[u], opened + 1)
    <3>1. CASE u \in Overtaken(c, k, a)
      <4>1. row'[u] = x.row /\ log'[u] = AppendStep(log[u], x.step)
        BY <2>1, <2>5, <3>1, EventElsewhere
      <4>2. x.step.tool = 0 /\ x.step.note \in EndingNote
        BY DEF Superseded, NoteStep, EndingNote
      <4> HIDE DEF x
      <4> QED BY <2>3, <4>1, <4>2
    <3>2. CASE u \notin Overtaken(c, k, a)
      BY <2>1, <2>4, <2>5, <3>2, EventElsewhere
    <3> QED BY <3>1, <3>2
  <2>6. ASSUME NEW t \in Turn, NEW x, Work(t, x)
        PROVE  Held(u)
    <3>1. CASE u = t
      <4>1. row'[u] = x.row /\ log'[u] = AppendStep(log[u], x.step)
        BY <2>1, <2>6, <3>1, CommitElsewhere DEF Work
      <4>2. /\ x.step.tool = 0
            /\ x.row.status # "awaiting_approval" => x.step.note \in EndingNote
        BY <1>1, <2>6, <3>1 DEF Work, GateRule
      <4> QED BY <2>3, <4>1, <4>2
    <3>2. CASE u # t
      BY <2>1, <2>4, <2>6, <3>2, CommitElsewhere DEF Work
    <3> QED BY <3>1, <3>2
  <2>7. CASE UNCHANGED vars
    BY <2>4, <2>7 DEF vars
  <2> QED BY <1>1, <2>5, <2>6, <2>7, StepCases
<1>2. IInv /\ [Next]_vars =>
        [\A t \in Turn :
           row[t].status = "awaiting_approval" =>
             /\ log'[t].tools = log[t].tools
             /\ row'[t].status # "awaiting_approval" =>
                  \E k \in {"resume", "stop", "supersede"} :
                    log'[t].notes[k] = log[t].notes[k] + 1]_vars
  BY <1>1 DEF EndingNote
<1> QED BY <1>2, Invariance, PTL DEF Spec, GateHeld

-----------------------------------------------------------------------------
(* Sessions that overlap.                                                  *)

\* The reasons that a decision at the approval gate leaves.
Decided == {"approved", "approval_rejected"}

RowFine(r, l) ==
  /\ r \in Row(Channel)
  /\ l \in Log
  /\ r.used <= Budget(r)
  /\ \A n \in 1..MaxBudget : /\ n <= r.used => l.tools[n] >= 1
                             /\ n > Budget(r) => l.tools[n] = 0
  /\ r.suspended => l.notes["suspend"] >= 1
  /\ r.status = "awaiting_approval" => r.suspended
  /\ l.notes["resume"] >= 1 => r.suspended
  /\ r.reason \in Decided => l.notes["resume"] >= 1 \/ l.notes["stop"] >= 1
  /\ IsTerminal(r) => r.reason # "none"
  /\ r.status = "superseded" => r.by # 0
  /\ r.action = "pass" => r = NewTurn(r.channel, r.kind, "pass") /\ l = NewLog

CopyFine(c, r, l) ==
  /\ c \in Row(Channel)
  /\ SameTurn(r, c)
  /\ c.used <= Budget(c)
  /\ \A n \in 1..MaxBudget : n <= c.used => l.tools[n] >= 1
  /\ c.suspended => r.suspended
  /\ c.reason # "none" => r.reason # "none"
  /\ c.status = "awaiting_approval" => c.suspended
  /\ c.action = "pass" => IsTerminal(c)

\* What a handler may do with the copy c it was given, when the event that
\* displaces it, if one does, is e.
Allowed(c, x, e) ==
  /\ x.row \in Row(Channel) /\ SameTurn(c, x.row)
  /\ x.step \in Step
  /\ \/ x.row.used = c.used /\ x.step.tool = 0
     \/ x.row.used = c.used + 1 /\ x.row.used <= Budget(c) /\ x.step.tool = x.row.used
  /\ x.row.suspended = c.suspended \/ (x.row.suspended = TRUE /\ x.step.note = "suspend")
  /\ x.row.status = "awaiting_approval" => x.row.suspended
  /\ x.step.note = "resume" => c.suspended
  /\ x.row.reason \in Decided => x.row.reason = c.reason \/ x.step.note \in {"resume", "stop"}
  /\ c.reason # "none" \/ IsTerminal(x.row) => x.row.reason # "none"
  /\ (x.row.by = c.by /\ x.row.status # "superseded") \/ (x.row.by = e /\ e # c.by)

\* From one state of a row to a later one.
Grows(r, l, q, m) ==
  /\ SameTurn(r, q)
  /\ r.suspended => q.suspended
  /\ r.reason # "none" => q.reason # "none"
  /\ \A n \in 1..MaxBudget : l.tools[n] <= m.tools[n]

LEMMA FlushType ==
  ASSUME NEW r \in Row(Channel), NEW c \in Row(Channel), NEW d \in Row(Channel)
  PROVE  LET q == Flush(r, c, d)
         IN /\ q \in Row(Channel)
            /\ q.channel = IF d.channel # c.channel THEN d.channel ELSE r.channel
            /\ q.kind = IF d.kind # c.kind THEN d.kind ELSE r.kind
            /\ q.action = IF d.action # c.action THEN d.action ELSE r.action
            /\ q.status = IF d.status # c.status THEN d.status ELSE r.status
            /\ q.used = IF d.used # c.used THEN d.used ELSE r.used
            /\ q.reason = IF d.reason # c.reason THEN d.reason ELSE r.reason
            /\ q.by = IF d.by # c.by THEN d.by ELSE r.by
            /\ q.suspended = IF d.suspended # c.suspended THEN d.suspended ELSE r.suspended
            /\ q.instructions = IF d.instructions # c.instructions THEN d.instructions
                                ELSE r.instructions
<1> DEFINE q == Flush(r, c, d)
           Col == {"channel", "kind", "action", "status", "used", "reason", "by",
                   "suspended", "instructions"}
<1>1. DOMAIN r = Col
  BY DEF Row
<1>2. q = [f \in Col |-> IF d[f] # c[f] THEN d[f] ELSE r[f]]
  BY <1>1 DEF Flush
<1>3. \A f \in Col : q[f] = IF d[f] # c[f] THEN d[f] ELSE r[f]
  BY <1>2
<1>4. q = [channel |-> q.channel, kind |-> q.kind, action |-> q.action, status |-> q.status,
           used |-> q.used, reason |-> q.reason, by |-> q.by, suspended |-> q.suspended,
           instructions |-> q.instructions]
  BY <1>2
<1>5. /\ q.channel \in Channel /\ q.kind \in EventKind /\ q.action \in Action
      /\ q.status \in Status /\ q.used \in Nat /\ q.reason \in StopReason
      /\ q.by \in Nat /\ q.suspended \in BOOLEAN /\ q.instructions \in Nat
  BY <1>3 DEF Row
<1>6. q \in Row(Channel)
  BY <1>4, <1>5 DEF Row
<1> QED BY <1>3, <1>6

\* A handler that works on a copy keeps the row and its transcript in
\* agreement, whatever has been written since the copy was taken.
LEMMA FlushOK ==
  ASSUME NEW r, NEW l, RowFine(r, l), NEW c, CopyFine(c, r, l), ~IsTerminal(c),
         NEW x, NEW e \in Nat, Allowed(c, x, e), e # 0 \/ e = c.by
  PROVE  LET q == Flush(r, c, x.row)
             m == AppendStep(l, x.step)
         IN /\ RowFine(q, m)
            /\ Grows(r, l, q, m)
            /\ q.by = r.by \/ (q.by = e /\ e # c.by)
            /\ x.row.reason # "none" => q.reason # "none"
<1> DEFINE d == x.row
           q == Flush(r, c, d)
           s == x.step
           m == AppendStep(l, s)
<1>1. /\ r \in Row(Channel) /\ l \in Log /\ c \in Row(Channel)
      /\ d \in Row(Channel) /\ s \in Step
      /\ SameTurn(r, c) /\ SameTurn(c, d)
  BY DEF RowFine, CopyFine, Allowed
<1>2. /\ m \in Log
      /\ \A n \in 1..MaxBudget : m.tools[n] = IF n = s.tool THEN l.tools[n] + 1 ELSE l.tools[n]
      /\ \A k \in NoteKind : m.notes[k] = IF k = s.note THEN l.notes[k] + 1 ELSE l.notes[k]
  BY <1>1, AppendStepType
<1>3. /\ q \in Row(Channel)
      /\ SameTurn(r, q)
      /\ q.status = IF d.status # c.status THEN d.status ELSE r.status
      /\ q.used = IF d.used # c.used THEN d.used ELSE r.used
      /\ q.reason = IF d.reason # c.reason THEN d.reason ELSE r.reason
      /\ q.by = IF d.by # c.by THEN d.by ELSE r.by
      /\ q.suspended = IF d.suspended # c.suspended THEN d.suspended ELSE r.suspended
  BY <1>1, FlushType DEF SameTurn
<1>4. /\ r.used \in Nat /\ c.used \in Nat /\ d.used \in Nat /\ q.used \in Nat
      /\ r.by \in Nat /\ c.by \in Nat /\ d.by \in Nat
      /\ r.suspended \in BOOLEAN /\ c.suspended \in BOOLEAN /\ d.suspended \in BOOLEAN
      /\ s.tool \in Nat
      /\ \A n \in 1..MaxBudget : l.tools[n] \in Nat /\ m.tools[n] \in Nat
      /\ \A k \in NoteKind : l.notes[k] \in Nat /\ m.notes[k] \in Nat
  BY <1>1, <1>2, <1>3 DEF Row, Log, Step
<1>5. /\ r.used <= Budget(r)
      /\ \A n \in 1..MaxBudget : /\ n <= r.used => l.tools[n] >= 1
                                 /\ n > Budget(r) => l.tools[n] = 0
  BY DEF RowFine
<1>5b. /\ r.suspended => l.notes["suspend"] >= 1
       /\ r.status = "awaiting_approval" => r.suspended
       /\ l.notes["resume"] >= 1 => r.suspended
       /\ r.reason \in Decided => l.notes["resume"] >= 1 \/ l.notes["stop"] >= 1
       /\ IsTerminal(r) => r.reason # "none"
       /\ r.status = "superseded" => r.by # 0
  BY DEF RowFine
<1>6. /\ c.used <= Budget(c)
      /\ \A n \in 1..MaxBudget : n <= c.used => l.tools[n] >= 1
  BY DEF CopyFine
<1>6b. /\ c.suspended => r.suspended
       /\ c.reason # "none" => r.reason # "none"
       /\ c.status = "awaiting_approval" => c.suspended
       /\ c.action # "pass"
  BY DEF CopyFine
<1>7. /\ \/ d.used = c.used /\ s.tool = 0
         \/ d.used = c.used + 1 /\ d.used <= Budget(c) /\ s.tool = d.used
      /\ d.suspended = c.suspended \/ (d.suspended = TRUE /\ s.note = "suspend")
      /\ d.status = "awaiting_approval" => d.suspended
      /\ s.note = "resume" => c.suspended
      /\ d.reason \in Decided => d.reason = c.reason \/ s.note \in {"resume", "stop"}
      /\ c.reason # "none" \/ IsTerminal(d) => d.reason # "none"
      /\ (d.by = c.by /\ d.status # "superseded") \/ (d.by = e /\ e # c.by)
  BY DEF Allowed
<1>8. Budget(c) = Budget(r) /\ Budget(q) = Budget(r) /\ q.action # "pass"
  BY <1>1, <1>3, <1>6b DEF Budget, SameTurn
<1>9. Budget(r) \in Nat /\ Budget(r) <= MaxBudget
  BY <1>1 DEF Budget, Row, Action, ACTION_BUDGET, MaxBudget
<1> HIDE DEF d, q, s, m
<1>10. \A n \in 1..MaxBudget : l.tools[n] <= m.tools[n]
  BY <1>2, <1>4
<1>11. /\ l.notes["suspend"] <= m.notes["suspend"]
       /\ l.notes["resume"] <= m.notes["resume"] /\ l.notes["stop"] <= m.notes["stop"]
       /\ s.note = "suspend" => m.notes["suspend"] >= 1
       /\ s.note = "resume" => m.notes["resume"] >= 1
       /\ s.note = "stop" => m.notes["stop"] >= 1
       /\ s.note # "resume" => m.notes["resume"] = l.notes["resume"]
       /\ m.notes["suspend"] \in Nat /\ l.notes["suspend"] \in Nat
       /\ m.notes["resume"] \in Nat /\ l.notes["resume"] \in Nat
       /\ m.notes["stop"] \in Nat /\ l.notes["stop"] \in Nat
  BY <1>2, <1>4 DEF NoteKind
<1>12. q.used <= Budget(q)
  BY <1>3, <1>5, <1>7, <1>8
<1>13. ASSUME NEW n \in 1..MaxBudget
       PROVE  /\ n <= q.used => m.tools[n] >= 1
              /\ n > Budget(q) => m.tools[n] = 0
  <2>1. /\ n \in Nat /\ n >= 1 /\ l.tools[n] \in Nat /\ m.tools[n] \in Nat
        /\ l.tools[n] <= m.tools[n]
        /\ m.tools[n] = IF n = s.tool THEN l.tools[n] + 1 ELSE l.tools[n]
        /\ (n <= r.used => l.tools[n] >= 1) /\ (n > Budget(r) => l.tools[n] = 0)
        /\ (n <= c.used => l.tools[n] >= 1)
    BY <1>2, <1>4, <1>5, <1>6, <1>10 DEF MaxBudget
  <2>2. CASE d.used = c.used /\ s.tool = 0
    BY <2>1, <2>2, <1>3, <1>4, <1>8
  <2>3. CASE d.used = c.used + 1 /\ d.used <= Budget(c) /\ s.tool = d.used
    <3>1. q.used = c.used + 1
      BY <2>3, <1>3, <1>4
    <3>2. n <= q.used => n <= c.used \/ n = s.tool
      BY <2>1, <2>3, <3>1, <1>4
    <3>3. n > Budget(q) => n # s.tool /\ n > Budget(r)
      BY <2>1, <2>3, <1>4, <1>8, <1>9
    <3> QED BY <2>1, <3>2, <3>3
  <2> QED BY <2>2, <2>3, <1>7
<1>14. r.suspended => q.suspended
  BY <1>3, <1>4, <1>6b, <1>7
<1>15. q.suspended => m.notes["suspend"] >= 1
  <2>1. CASE d.suspended = c.suspended
    <3>1. q.suspended = r.suspended
      BY <2>1, <1>3
    <3>2. l.notes["suspend"] >= 1 => m.notes["suspend"] >= 1
      BY <1>11
    <3> QED BY <3>1, <3>2, <1>5b, Zenon
  <2>2. CASE s.note = "suspend"
    BY <2>2, <1>11
  <2> QED BY <2>1, <2>2, <1>7
<1>16. q.status = "awaiting_approval" => q.suspended
  <2>1. CASE d.status = c.status
    BY <2>1, <1>3, <1>5b, <1>14
  <2>2. CASE d.status # c.status
    <3>1. q.status = d.status
      BY <2>2, <1>3
    <3>2. d.suspended => q.suspended
      BY <1>3, <1>6b
    <3> QED BY <3>1, <3>2, <1>7
  <2> QED BY <2>1, <2>2
<1>17. /\ m.notes["resume"] >= 1 => q.suspended
       /\ q.reason \in Decided => m.notes["resume"] >= 1 \/ m.notes["stop"] >= 1
  <2>1. m.notes["resume"] >= 1 => q.suspended
    <3>1. CASE s.note = "resume"
      BY <3>1, <1>6b, <1>7, <1>14
    <3>2. CASE s.note # "resume"
      BY <3>2, <1>5b, <1>11, <1>14
    <3> QED BY <3>1, <3>2
  <2>2. CASE d.reason = c.reason
    <3>1. q.reason = r.reason
      BY <2>2, <1>3
    <3>2. /\ l.notes["resume"] >= 1 => m.notes["resume"] >= 1
          /\ l.notes["stop"] >= 1 => m.notes["stop"] >= 1
      BY <1>11
    <3> QED BY <2>1, <3>1, <3>2, <1>5b, Zenon
  <2>3. CASE d.reason # c.reason
    <3>1. q.reason = d.reason
      BY <2>3, <1>3
    <3> QED BY <2>1, <2>3, <3>1, <1>7, <1>11
  <2> QED BY <2>2, <2>3
<1>18. q.by = r.by \/ (q.by = e /\ e # c.by)
  BY <1>3, <1>7
<1>19. q.status = "superseded" => q.by # 0
  <2> SUFFICES ASSUME q.status = "superseded" PROVE q.by # 0
    OBVIOUS
  <2>1. CASE d.by = e /\ e # c.by
    BY <2>1, <1>3
  <2>2. CASE d.by = c.by /\ d.status # "superseded"
    <3>1. q.status = r.status /\ q.by = r.by
      BY <2>2, <1>3
    <3> QED BY <3>1, <1>5b
  <2> QED BY <2>1, <2>2, <1>7
<1>20. /\ r.reason # "none" => q.reason # "none"
       /\ d.reason # "none" => q.reason # "none"
  BY <1>3, <1>6b, <1>7
<1>21. IsTerminal(q) => q.reason # "none"
  <2>1. CASE d.status = c.status
    BY <2>1, <1>3, <1>5b, <1>20 DEF IsTerminal
  <2>2. CASE d.status # c.status
    BY <2>2, <1>3, <1>7, <1>20 DEF IsTerminal
  <2> QED BY <2>1, <2>2
<1>22. RowFine(q, m)
  BY <1>2, <1>3, <1>8, <1>12, <1>13, <1>15, <1>16, <1>17, <1>19, <1>21 DEF RowFine
<1>23. Grows(r, l, q, m)
  BY <1>3, <1>10, <1>14, <1>20 DEF Grows
<1> QED BY <1>18, <1>20, <1>22, <1>23 DEF q, m, d, s

\* A copy stays true while the row moves on.
LEMMA CopyKept ==
  ASSUME NEW r, NEW l \in Log, NEW q, NEW m \in Log, Grows(r, l, q, m),
         NEW c, CopyFine(c, r, l)
  PROVE  CopyFine(c, q, m)
<1>1. SameTurn(q, c) /\ c.suspended => q.suspended
  BY DEF CopyFine, Grows, SameTurn
<1>2. \A n \in 1..MaxBudget : n <= c.used => m.tools[n] >= 1
  <2> SUFFICES ASSUME NEW n \in 1..MaxBudget, n <= c.used PROVE m.tools[n] >= 1
    OBVIOUS
  <2>1. l.tools[n] >= 1 /\ l.tools[n] <= m.tools[n]
    BY DEF CopyFine, Grows
  <2>2. l.tools[n] \in Nat /\ m.tools[n] \in Nat
    BY DEF Log
  <2> QED BY <2>1, <2>2
<1> QED BY <1>1, <1>2 DEF CopyFine, Grows, SameTurn

\* A copy just taken.
LEMMA CopyTaken ==
  ASSUME NEW r, NEW l, RowFine(r, l)
  PROVE  CopyFine(r, r, l)
<1>1. r.action = "pass" => IsTerminal(r)
  <2> SUFFICES ASSUME r.action = "pass" PROVE IsTerminal(r)
    OBVIOUS
  <2>1. r = NewTurn(r.channel, r.kind, "pass")
    BY DEF RowFine
  <2>2. r.status = "completed"
    BY <2>1 DEF NewTurn
  <2> QED BY <2>2 DEF IsTerminal, TERMINAL_STATUSES
<1> QED BY <1>1 DEF RowFine, CopyFine, SameTurn

\* What every handler may count on in its copy.
OpenCopy(c) ==
  /\ c \in Row(Channel) /\ ~IsTerminal(c)
  /\ c.status = "awaiting_approval" => c.suspended

\* A handler that leaves charge, gate and displacement alone may give the row
\* any status and reason but those that need a witness.
LEMMA ClosedAllowed ==
  ASSUME NEW c, OpenCopy(c), NEW e, NEW k \in NoteKind \cup {"none"},
         NEW v \in Status \ {"superseded", "awaiting_approval"}, NEW z \in StopReason,
         z # "none", k = "resume" => c.suspended, z \in Decided => k \in {"resume", "stop"}
  PROVE  Allowed(c, [row |-> Closed(c, v, z), step |-> NoteStep(k)], e)
<1> DEFINE d == Closed(c, v, z)
<1>1. c \in Row(Channel)
  BY DEF OpenCopy
<1>2. /\ d \in Row(Channel) /\ d.status = v /\ d.reason = z
      /\ d.used = c.used /\ d.by = c.by /\ d.suspended = c.suspended
      /\ SameTurn(c, d)
  BY <1>1 DEF Closed, Row, SameTurn
<1>3. NoteStep(k) \in Step /\ NoteStep(k).tool = 0 /\ NoteStep(k).note = k
  BY DEF NoteStep, Step
<1> DEFINE x == [row |-> d, step |-> NoteStep(k)]
<1>4. x.row = d /\ x.step = NoteStep(k)
  OBVIOUS
<1> HIDE DEF d, x
<1>5. Allowed(c, x, e)
  BY <1>2, <1>3, <1>4 DEF Allowed
<1> QED BY <1>5 DEF x, d

LEMMA EndingsAllowed ==
  ASSUME NEW c, OpenCopy(c), NEW e
  PROVE  /\ \A said \in Said : Allowed(c, Stopped(c, said), e)
         /\ Allowed(c, PlanComplete(c), e)
         /\ Allowed(c, StepError(c), e)
         /\ Allowed(c, WorkerError(c), e)
         /\ Allowed(c, [row  |-> Closed(c, "completed", "budget_exhausted"),
                        step |-> NoteStep("stop")], e)
<1>1. /\ {"cancelled", "completed", "failed"} \subseteq Status \ {"superseded", "awaiting_approval"}
      /\ {"plan_complete", "step_error", "worker_error", "budget_exhausted"}
           \subseteq StopReason \ (Decided \cup {"none"})
      /\ {"stop", "none", "error"} \subseteq NoteKind \cup {"none"}
      /\ NoStep = NoteStep("none")
  BY DEF Status, TERMINAL_STATUSES, StopReason, Decided, NoteKind, NoStep, NoteStep
<1>2. ASSUME NEW said \in Said
      PROVE  Allowed(c, [row |-> Closed(c, "cancelled", said), step |-> NoteStep("stop")], e)
  BY <1>1, WordsAssumption, ClosedAllowed
<1>3. Allowed(c, [row |-> Closed(c, "completed", "plan_complete"),
                  step |-> NoteStep("none")], e)
  BY <1>1, ClosedAllowed
<1>4. Allowed(c, [row |-> Closed(c, "failed", "step_error"),
                  step |-> NoteStep("error")], e)
  BY <1>1, ClosedAllowed
<1>5. Allowed(c, [row |-> Closed(c, "failed", "worker_error"),
                  step |-> NoteStep("none")], e)
  BY <1>1, ClosedAllowed
<1>6. Allowed(c, [row |-> Closed(c, "completed", "budget_exhausted"),
                  step |-> NoteStep("stop")], e)
  BY <1>1, ClosedAllowed
<1> QED BY <1>1, <1>2, <1>3, <1>4, <1>5, <1>6
       DEF Stopped, PlanComplete, StepError, WorkerError

LEMMA ResumedAllowed ==
  ASSUME NEW c, OpenCopy(c), NEW e, CanResume(c, TRUE), NEW approved \in BOOLEAN
  PROVE  Allowed(c, Resumed(c, approved), e)
<1>1. c.suspended
  BY DEF OpenCopy, CanResume
<1>2. /\ {"cancelled", "completed"} \subseteq Status \ {"superseded", "awaiting_approval"}
      /\ {"approved", "approval_rejected"} \subseteq StopReason
      /\ "resume" \in NoteKind \cup {"none"}
  BY DEF Status, TERMINAL_STATUSES, StopReason, NoteKind
<1>3. Allowed(c, [row |-> Closed(c, "completed", "approved"), step |-> NoteStep("resume")], e)
  BY <1>1, <1>2, ClosedAllowed
<1>4. Allowed(c, [row |-> Closed(c, "cancelled", "approval_rejected"),
                  step |-> NoteStep("resume")], e)
  BY <1>1, <1>2, ClosedAllowed
<1> QED BY <1>3, <1>4 DEF Resumed

LEMMA SuspendedAllowed ==
  ASSUME NEW c, OpenCopy(c), NEW e, CanSuspend(c)
  PROVE  Allowed(c, Suspended(c), e)
<1> DEFINE d == [c EXCEPT !.status = "awaiting_approval", !.suspended = TRUE]
<1>1. c \in Row(Channel)
  BY DEF OpenCopy
<1>2. /\ d \in Row(Channel) /\ d.status = "awaiting_approval" /\ d.reason = c.reason
      /\ d.used = c.used /\ d.by = c.by /\ d.suspended = TRUE
      /\ SameTurn(c, d)
  BY <1>1 DEF Row, SameTurn, Status, OPEN_STATUSES
<1>3. NoteStep("suspend") \in Step /\ NoteStep("suspend").tool = 0
      /\ NoteStep("suspend").note = "suspend" /\ ~IsTerminal(d)
  BY <1>2 DEF NoteStep, Step, NoteKind, IsTerminal, TERMINAL_STATUSES
<1>4. Suspended(c).row = d /\ Suspended(c).step = NoteStep("suspend")
  BY DEF Suspended
<1> HIDE DEF d
<1> QED BY <1>2, <1>3, <1>4 DEF Allowed

LEMMA SteeredAllowed ==
  ASSUME NEW c, OpenCopy(c), NEW e
  PROVE  Allowed(c, Steered(c), e)
<1> DEFINE u == c.instructions + 1
           d == [c EXCEPT !.instructions = u]
<1>1. c \in Row(Channel) /\ c.status # "superseded"
  BY DEF OpenCopy, IsTerminal, TERMINAL_STATUSES
<1>2. u \in Nat
  <2>1. c.instructions \in Nat
    BY <1>1 DEF Row
  <2> QED BY <2>1
<1>3. Steered(c).row = d /\ Steered(c).step = NoteStep("steer")
  BY DEF Steered
<1> HIDE DEF u
<1>4. /\ d \in Row(Channel) /\ d.status = c.status /\ d.reason = c.reason
      /\ d.used = c.used /\ d.by = c.by /\ d.suspended = c.suspended
      /\ SameTurn(c, d)
  BY <1>1, <1>2 DEF Row, SameTurn
<1>5. NoteStep("steer") \in Step /\ NoteStep("steer").tool = 0
      /\ NoteStep("steer").note = "steer"
  BY DEF NoteStep, Step, NoteKind
<1> HIDE DEF d
<1>6. ~IsTerminal(d)
  BY <1>4 DEF OpenCopy, IsTerminal
<1> QED BY <1>1, <1>3, <1>4, <1>5, <1>6 DEF Allowed, OpenCopy

LEMMA AdvancedAllowed ==
  ASSUME NEW c, OpenCopy(c), NEW e, NEW tool, CanAdvance(c, tool)
  PROVE  Allowed(c, Advanced(c), e)
<1>1. /\ c \in Row(Channel) /\ c.used \in Nat /\ Budget(c) \in Nat
      /\ c.status # "superseded"
  BY DEF OpenCopy, Row, Budget, Action, ACTION_BUDGET, IsTerminal, TERMINAL_STATUSES
<1>2. CASE Exhausted(c)
  BY <1>2, EndingsAllowed DEF Advanced
<1>3. CASE ~Exhausted(c)
  <2> DEFINE u == c.used + 1
             last == u >= Budget(c)
             v == IF last THEN "completed" ELSE "running"
             z == IF last THEN "budget_exhausted" ELSE c.reason
             d == [c EXCEPT !.used = u, !.status = v, !.reason = z]
  <2>1. Advanced(c).row = d /\ Advanced(c).step = ToolStep(u)
    BY <1>3 DEF Advanced
  <2>2. u \in Nat /\ u <= Budget(c)
    <3>1. c.used < Budget(c)
      BY <1>1, <1>3 DEF Exhausted
    <3> QED BY <1>1, <3>1
  <2>3. v \in Status \ {"superseded", "awaiting_approval"}
    BY DEF Status, TERMINAL_STATUSES, OPEN_STATUSES
  <2>4. /\ z \in StopReason /\ (z \in Decided => z = c.reason)
        /\ c.reason # "none" \/ v = "completed" => z # "none"
        /\ v \in {"completed", "running"}
    BY <1>1 DEF StopReason, Decided, Row
  <2> HIDE DEF u, v, z
  <2>5. /\ d \in Row(Channel) /\ d.status = v /\ d.reason = z
        /\ d.used = u /\ d.by = c.by /\ d.suspended = c.suspended
        /\ SameTurn(c, d)
    BY <1>1, <2>2, <2>3, <2>4 DEF Row, SameTurn
  <2>6. ToolStep(u) \in Step /\ ToolStep(u).tool = u /\ ToolStep(u).note = "none"
    BY <2>2 DEF ToolStep, Step
  <2> HIDE DEF d
  <2>7. d.used = c.used + 1
    BY <2>5 DEF u
  <2>8. c.reason # "none" \/ IsTerminal(d) => d.reason # "none"
    BY <2>4, <2>5 DEF IsTerminal, TERMINAL_STATUSES
  <2> QED BY <2>1, <2>2, <2>3, <2>4, <2>5, <2>6, <2>7, <2>8 DEF Allowed
<1> QED BY <1>2, <1>3

LEMMA SupersededAllowed ==
  ASSUME NEW c, OpenCopy(c), NEW e \in Nat, e # c.by
  PROVE  Allowed(c, Superseded(c, e), e)
<1> DEFINE d == [c EXCEPT !.status = "superseded", !.by = e, !.reason = "superseded"]
<1>1. c \in Row(Channel)
  BY DEF OpenCopy
<1>2. Superseded(c, e).row = d /\ Superseded(c, e).step = NoteStep("supersede")
  BY DEF Superseded
<1>3. /\ d \in Row(Channel) /\ d.status = "superseded" /\ d.reason = "superseded"
      /\ d.used = c.used /\ d.by = e /\ d.suspended = c.suspended
      /\ SameTurn(c, d)
  BY <1>1 DEF Row, SameTurn, Status, TERMINAL_STATUSES, StopReason
<1>4. NoteStep("supersede") \in Step /\ NoteStep("supersede").tool = 0
      /\ NoteStep("supersede").note = "supersede"
  BY DEF NoteStep, Step, NoteKind
<1> HIDE DEF d
<1> QED BY <1>2, <1>3, <1>4 DEF Allowed, Decided

\* The row of a new turn agrees with its transcript.
LEMMA NewTurnFine ==
  ASSUME NEW c \in Channel, NEW k \in EventKind, NEW a \in Action
  PROVE  /\ RowFine(NewTurn(c, k, a), NewLog) /\ NewTurn(c, k, a).by = 0
         /\ NewTurn(c, k, a).channel = c
         /\ NewTurn(c, k, a).kind = k /\ NewTurn(c, k, a).action = a
<1> DEFINE r == NewTurn(c, k, a)
<1>1. RowOK(r, NewLog) /\ r.channel = c /\ r.kind = k /\ r.action = a
  BY NewTurnOK
<1>2. /\ r.used = 0 /\ r.by = 0 /\ r.suspended = FALSE
      /\ r.reason \notin Decided
      /\ r.status \notin {"superseded", "awaiting_approval"}
      /\ a = "pass" => r = NewTurn(r.channel, r.kind, "pass")
      /\ IsTerminal(r) => r.reason # "none"
      /\ ~Chosen(r)
  BY DEF NewTurn, Decided, IsTerminal, TERMINAL_STATUSES, Chosen
<1> HIDE DEF r
<1>3. /\ r \in Row(Channel) /\ NewLog \in Log /\ r.used <= Budget(r)
      /\ \A n \in 1..MaxBudget : NewLog.tools[n] = IF n <= r.used THEN 1 ELSE 0
  BY <1>1 DEF RowOK
<1>4. \A n \in 1..MaxBudget : /\ n <= r.used => NewLog.tools[n] >= 1
                              /\ n > Budget(r) => NewLog.tools[n] = 0
  <2> SUFFICES ASSUME NEW n \in 1..MaxBudget
               PROVE  NewLog.tools[n] = 0 /\ ~(n <= r.used)
    BY <1>3
  <2>1. r.used = 0
    BY <1>2
  <2>2. ~(n <= r.used)
    BY <2>1 DEF MaxBudget
  <2> QED BY <2>2, <1>3
<1>5. NewLog.notes["resume"] = 0
  <2>1. NewLog.notes["stop"] + NewLog.notes["resume"] + NewLog.notes["supersede"] = 0
    BY <1>1, <1>2 DEF RowOK
  <2>2. /\ NewLog.notes["stop"] \in Nat /\ NewLog.notes["resume"] \in Nat
        /\ NewLog.notes["supersede"] \in Nat
    BY <1>3 DEF Log, NoteKind
  <2> QED BY <2>1, <2>2, NoneOfThree
<1>6. RowFine(r, NewLog)
  <2>1. ~(NewLog.notes["resume"] >= 1)
    BY <1>5
  <2>2. r.suspended => NewLog.notes["suspend"] >= 1
    BY <1>2
  <2> QED BY <1>1, <1>2, <1>3, <1>4, <2>1, <2>2, Zenon DEF RowFine
<1> QED BY <1>1, <1>2, <1>6 DEF r

-----------------------------------------------------------------------------
\* The turn names a newer, acted-on message of its channel.
NamesNewer(t) ==
  /\ row[t].by \in Turn /\ t < row[t].by
  /\ row[row[t].by].channel = row[t].channel
  /\ Overtakes(row[row[t].by].kind, row[row[t].by].action)

RowsFine ==
  /\ TablesOK
  /\ \A t \in Turn : RowFine(row[t], log[t])
  /\ \A t \in Turn : row[t].by # 0 => NamesNewer(t)
  /\ arrived \in [Turn -> Nat] /\ \A b \in Turn : arrived[b] < b
  /\ OvertakenIsClosed

RowsGrow == \A t \in Turn : Grows(row[t], log[t], row'[t], log'[t])

Remembers(t, c) == CopyFine(c, row[t], log[t]) /\ c.by <= opened
\* The copy c, as it is, in the next state.
Recalls(t, c)   == CopyFine(c, row'[t], log'[t]) /\ c.by <= opened'

LEMMA GrowsRefl ==
  ASSUME NEW r, NEW l \in Log
  PROVE  Grows(r, l, r, l)
<1>1. \A n \in 1..MaxBudget : l.tools[n] \in Nat
  BY DEF Log
<1>2. \A n \in 1..MaxBudget : l.tools[n] <= l.tools[n]
  BY <1>1
<1> QED BY <1>2 DEF Grows, SameTurn

\* What is unchanged has grown.
LEMMA RowsStay ==
  ASSUME RowsFine, UNCHANGED <<opened, row, log, arrived>>
  PROVE  RowsFine' /\ RowsGrow
<1>1. RowsFine'
  BY DEF RowsFine, TablesOK, Turn, NamesNewer, OvertakenIsClosed
<1>2. RowsGrow
  BY GrowsRefl DEF RowsGrow, RowsFine, TablesOK
<1> QED BY <1>1, <1>2

\* A handler that is no event commits what it made of its copy.
LEMMA RowWritten ==
  ASSUME RowsFine, NEW t \in Turn, NEW c, Remembers(t, c), ~IsTerminal(c),
         NEW x, Allowed(c, x, c.by),
         row' = [row EXCEPT ![t] = Flush(@, c, x.row)],
         log' = [log EXCEPT ![t] = AppendStep(@, x.step)],
         opened' = opened, arrived' = arrived
  PROVE  RowsFine' /\ RowsGrow
<1> DEFINE R == row'
           L == log'
           q == Flush(row[t], c, x.row)
           m == AppendStep(log[t], x.step)
<1>1. /\ opened \in 0..MaxTurns /\ row \in [Turn -> Row(Channel)] /\ log \in [Turn -> Log]
      /\ \A u \in Turn : RowFine(row[u], log[u])
      /\ \A u \in Turn : row[u].by # 0 => NamesNewer(u)
      /\ arrived \in [Turn -> Nat] /\ \A b \in Turn : arrived[b] < b
      /\ OvertakenIsClosed /\ Turn' = Turn
  BY DEF RowsFine, TablesOK, Turn
<1>2. CopyFine(c, row[t], log[t]) /\ c.by \in Nat
  BY DEF Remembers, CopyFine, Row
<1>3. RowFine(q, m) /\ Grows(row[t], log[t], q, m) /\ q.by = row[t].by
  <2>1. RowFine(row[t], log[t])
    BY <1>1
  <2>2. /\ RowFine(q, m) /\ Grows(row[t], log[t], q, m)
        /\ q.by = row[t].by \/ (q.by = c.by /\ c.by # c.by)
    BY <1>2, <2>1, FlushOK
  <2> QED BY <2>2
<1>4. q \in Row(Channel) /\ m \in Log
  BY <1>3 DEF RowFine
<1>5. R = [row EXCEPT ![t] = q] /\ L = [log EXCEPT ![t] = m]
  OBVIOUS
<1> HIDE DEF R, L, q, m
<1>6. R \in [Turn -> Row(Channel)] /\ L \in [Turn -> Log]
  BY <1>1, <1>4, <1>5
<1>7. /\ R[t] = q /\ L[t] = m
      /\ \A u \in Turn : u # t => R[u] = row[u] /\ L[u] = log[u]
  BY <1>1, <1>5
<1>8. \A u \in Turn : /\ RowFine(R[u], L[u]) /\ Grows(row[u], log[u], R[u], L[u])
                      /\ R[u].by = row[u].by
  BY <1>1, <1>3, <1>7, GrowsRefl
<1>9. \A u \in Turn : SameTurn(row[u], R[u]) /\ (row[u].reason # "none" => R[u].reason # "none")
  BY <1>8 DEF Grows
<1>10. ASSUME NEW u \in Turn, R[u].by # 0
       PROVE  NamesNewer(u)'
  <2>1. NamesNewer(u) /\ R[u].by = row[u].by
    BY <1>1, <1>8, <1>10
  <2>2. SameTurn(row[u], R[u]) /\ SameTurn(row[row[u].by], R[row[u].by])
    BY <2>1, <1>9 DEF NamesNewer
  <2> QED BY <2>1, <2>2, <1>1 DEF NamesNewer, SameTurn, R
<1>11. OvertakenIsClosed'
  <2> SUFFICES ASSUME NEW u \in Turn, NEW b \in Turn, u <= arrived[b],
                      R[u].channel = R[b].channel, Overtakes(R[b].kind, R[b].action)
               PROVE  R[u].reason # "none"
    BY <1>1 DEF OvertakenIsClosed, R
  <2>1. row[u].channel = row[b].channel /\ Overtakes(row[b].kind, row[b].action)
    BY <1>9 DEF SameTurn
  <2> QED BY <2>1, <1>1, <1>9 DEF OvertakenIsClosed
<1>12. RowsFine'
  BY <1>1, <1>6, <1>8, <1>10, <1>11 DEF RowsFine, TablesOK, R, L
<1> QED BY <1>8, <1>12 DEF RowsGrow, R, L

\* What an event has seen: turns of its channel that were open then.  Those that
\* were there when it arrived and have no ending yet are among them.
EventSees(c, k, a, late, seen, after) ==
  /\ late \subseteq Turn
  /\ \A t \in late : /\ Remembers(t, seen[t]) /\ IsOpen(seen[t])
                     /\ row[t].channel = c /\ Overtakes(k, a)
  /\ after \in Nat /\ after <= opened
  /\ Overtakes(k, a) => \A t \in Turn : t <= after /\ row[t].channel = c
                                        => t \in late \/ row[t].reason # "none"

\* What it writes: a turn of its own, and the displacement of those it saw.
EventWrites(c, k, a, late, seen, after) ==
  /\ opened' = opened + 1
  /\ arrived' = [t \in 1..(opened + 1) |-> IF t = opened + 1 THEN after ELSE arrived[t]]
  /\ row' = [t \in 1..(opened + 1) |->
               IF t = opened + 1 THEN NewTurn(c, k, a)
               ELSE IF t \in late
                    THEN Flush(row[t], seen[t], Superseded(seen[t], opened + 1).row)
               ELSE row[t]]
  /\ log' = [t \in 1..(opened + 1) |->
               IF t = opened + 1 THEN NewLog
               ELSE IF t \in late
                    THEN AppendStep(log[t], Superseded(seen[t], opened + 1).step)
               ELSE log[t]]

LEMMA EventWritten ==
  ASSUME RowsFine, opened < MaxTurns,
         NEW c \in Channel, NEW k \in Kinds, NEW a \in Action,
         NEW late, NEW seen, NEW after,
         EventSees(c, k, a, late, seen, after), EventWrites(c, k, a, late, seen, after)
  PROVE  RowsFine' /\ RowsGrow
<1> DEFINE R == row'
           L == log'
           e == opened + 1
           Q(t) == Flush(row[t], seen[t], Superseded(seen[t], e).row)
           M(t) == AppendStep(log[t], Superseded(seen[t], e).step)
<1>1. /\ opened \in Nat /\ e \in Nat /\ e # 0 /\ opened' = e
      /\ row \in [Turn -> Row(Channel)] /\ log \in [Turn -> Log]
      /\ \A u \in Turn : RowFine(row[u], log[u])
      /\ \A u \in Turn : row[u].by # 0 => NamesNewer(u)
      /\ Turn = 1..opened /\ Turn' = 1..e /\ opened' \in 0..MaxTurns
      /\ arrived \in [Turn -> Nat] /\ \A b \in Turn : arrived[b] < b
      /\ OvertakenIsClosed
  <2>1. opened \in Nat /\ opened \in 0..MaxTurns /\ MaxTurns \in Nat
    BY TablesAssumption DEF RowsFine, TablesOK
  <2>2. opened' = e
    BY DEF EventWrites
  <2>3. Turn = 1..opened /\ Turn' = 1..e
    BY <2>2 DEF Turn
  <2>4. e \in Nat /\ e # 0 /\ e \in 0..MaxTurns
    BY <2>1
  <2> QED BY <2>1, <2>2, <2>3, <2>4 DEF RowsFine, TablesOK
<1>2. /\ e \in 1..e /\ e \notin Turn
      /\ \A t \in 1..e : t = e \/ (t # e /\ t \in Turn /\ t < e)
      /\ \A t \in Turn : t \in 1..e /\ t # e /\ t < e
  BY <1>1
<1>3. ASSUME NEW t \in late
      PROVE  /\ RowFine(Q(t), M(t)) /\ Grows(row[t], log[t], Q(t), M(t))
             /\ Q(t).by = row[t].by \/ Q(t).by = e
             /\ row[t].channel = c /\ Overtakes(k, a)
             /\ Q(t).reason # "none"
  <2>1. t \in Turn /\ CopyFine(seen[t], row[t], log[t]) /\ seen[t].by <= opened
        /\ IsOpen(seen[t]) /\ row[t].channel = c /\ Overtakes(k, a)
    BY DEF Remembers, EventSees
  <2>2. seen[t] \in Row(Channel) /\ seen[t].by \in Nat /\ seen[t].by # e
    BY <2>1, <1>1 DEF CopyFine, Row
  <2>3. ~IsTerminal(seen[t])
    BY <2>1 DEF IsOpen, IsTerminal, OPEN_STATUSES, TERMINAL_STATUSES
  <2>4. OpenCopy(seen[t])
    BY <2>1, <2>2, <2>3 DEF OpenCopy, CopyFine
  <2>5. Allowed(seen[t], Superseded(seen[t], e), e)
    BY <2>2, <2>4, <1>1, SupersededAllowed
  <2>6. RowFine(row[t], log[t])
    BY <2>1, <1>1
  <2>7. Superseded(seen[t], e).row.reason # "none"
    BY <2>2 DEF Superseded, Row
  <2> QED BY <2>1, <2>2, <2>3, <2>5, <2>6, <2>7, <1>1, FlushOK
<1>4. RowFine(NewTurn(c, k, a), NewLog) /\ NewTurn(c, k, a).by = 0
      /\ NewTurn(c, k, a).channel = c
      /\ NewTurn(c, k, a).kind = k /\ NewTurn(c, k, a).action = a
  BY TablesAssumption, NewTurnFine
<1>5. /\ R = [t \in 1..e |-> IF t = e THEN NewTurn(c, k, a)
                             ELSE IF t \in late THEN Q(t) ELSE row[t]]
      /\ L = [t \in 1..e |-> IF t = e THEN NewLog
                             ELSE IF t \in late THEN M(t) ELSE log[t]]
      /\ arrived' = [t \in 1..e |-> IF t = e THEN after ELSE arrived[t]]
      /\ after \in Nat /\ after < e
  <2>1. after \in Nat /\ after < e
    BY <1>1 DEF EventSees
  <2> QED BY <2>1, Zenon DEF EventWrites
<1> HIDE DEF R, L, e, Q, M
<1>6. R[e] = NewTurn(c, k, a) /\ L[e] = NewLog
  BY <1>2, <1>5
<1>7. \A t \in Turn : IF t \in late THEN R[t] = Q(t) /\ L[t] = M(t)
                                   ELSE R[t] = row[t] /\ L[t] = log[t]
  BY <1>2, <1>5
<1>8. ASSUME NEW t \in Turn
      PROVE  /\ RowFine(R[t], L[t]) /\ Grows(row[t], log[t], R[t], L[t])
             /\ \/ R[t].by = row[t].by
                \/ R[t].by = e /\ row[t].channel = c /\ Overtakes(k, a)
  <2>1. CASE t \in late
    BY <2>1, <1>3, <1>7
  <2>2. CASE t \notin late
    BY <2>2, <1>1, <1>7, GrowsRefl
  <2> QED BY <2>1, <2>2
<1>9. \A t \in 1..e : RowFine(R[t], L[t])
  BY <1>2, <1>4, <1>6, <1>8
<1>10. R \in [1..e -> Row(Channel)] /\ L \in [1..e -> Log]
  <2>1. \A t \in 1..e : R[t] \in Row(Channel) /\ L[t] \in Log
    BY <1>9 DEF RowFine
  <2>2. R = [t \in 1..e |-> R[t]] /\ L = [t \in 1..e |-> L[t]]
    BY <1>5
  <2> QED BY <2>1, <2>2
<1>11. \A t \in Turn : SameTurn(row[t], R[t]) /\ (row[t].reason # "none" => R[t].reason # "none")
  BY <1>8 DEF Grows
<1>12. ASSUME NEW t \in 1..e, R[t].by # 0
       PROVE  NamesNewer(t)'
  <2>1. t \in Turn /\ t < e
    BY <1>2, <1>4, <1>6, <1>12
  <2>2. SameTurn(row[t], R[t])
    BY <2>1, <1>11
  <2>3. CASE R[t].by = row[t].by
    <3>1. NamesNewer(t)
      BY <2>1, <2>3, <1>1, <1>12
    <3>2. row[t].by \in Turn /\ row[t].by \in 1..e
      BY <3>1, <1>2 DEF NamesNewer
    <3>3. SameTurn(row[row[t].by], R[row[t].by])
      BY <3>2, <1>11
    <3>4. /\ R[t].by \in 1..e /\ t < R[t].by
          /\ R[R[t].by].channel = R[t].channel
          /\ Overtakes(R[R[t].by].kind, R[R[t].by].action)
      BY <2>2, <2>3, <3>1, <3>2, <3>3 DEF NamesNewer, SameTurn
    <3> QED BY <3>4, <1>1 DEF NamesNewer, R
  <2>4. CASE R[t].by = e /\ row[t].channel = c /\ Overtakes(k, a)
    BY <2>1, <2>2, <2>4, <1>1, <1>2, <1>4, <1>6 DEF NamesNewer, SameTurn, R
  <2> QED BY <2>1, <2>3, <2>4, <1>8
<1>13. /\ arrived' \in [1..e -> Nat] /\ arrived'[e] = after
       /\ \A b \in Turn : arrived'[b] = arrived[b]
       /\ \A b \in 1..e : arrived'[b] < b
  <2>1. /\ arrived'[e] = after
        /\ \A b \in Turn : arrived'[b] = arrived[b]
    BY <1>2, <1>5
  <2>2. after \in Nat /\ after < e
    BY <1>5
  <2>3. \A b \in 1..e : arrived'[b] \in Nat /\ arrived'[b] < b
    BY <1>1, <1>2, <2>1, <2>2
  <2> QED BY <1>5, <2>1, <2>3
<1>14. OvertakenIsClosed'
  <2> SUFFICES ASSUME NEW t \in 1..e, NEW b \in 1..e, t <= arrived'[b],
                      R[t].channel = R[b].channel, Overtakes(R[b].kind, R[b].action)
               PROVE  R[t].reason # "none"
    BY <1>1 DEF OvertakenIsClosed, R
  <2>1. t \in Turn
    <3>1. arrived'[b] < b /\ arrived'[b] \in Nat /\ b <= e /\ b \in Nat /\ e \in Nat
      BY <1>1, <1>13
    <3>2. t # e
      BY <3>1
    <3> QED BY <3>2, <1>2
  <2>2. CASE b = e
    <3>1. t <= after /\ row[t].channel = c /\ Overtakes(k, a)
      BY <2>1, <2>2, <1>4, <1>6, <1>11, <1>13 DEF SameTurn
    <3>2. CASE t \in late
      BY <3>2, <2>1, <1>3, <1>7
    <3>3. CASE row[t].reason # "none"
      BY <2>1, <3>3, <1>11
    <3>4. t \in late \/ row[t].reason # "none"
      BY <2>1, <3>1 DEF EventSees
    <3> QED BY <3>2, <3>3, <3>4
  <2>3. CASE b # e
    <3>1. b \in Turn
      BY <2>3, <1>2
    <3>2. /\ t <= arrived[b] /\ row[t].channel = row[b].channel
          /\ Overtakes(row[b].kind, row[b].action)
      BY <2>1, <3>1, <1>11, <1>13 DEF SameTurn
    <3> QED BY <2>1, <3>1, <3>2, <1>1, <1>11 DEF OvertakenIsClosed
  <2> QED BY <2>2, <2>3
<1>15. RowsFine'
  BY <1>1, <1>9, <1>10, <1>12, <1>13, <1>14 DEF RowsFine, TablesOK, R, L
<1> QED BY <1>8, <1>15 DEF RowsGrow, R, L

-----------------------------------------------------------------------------
(* The copies that sessions hold.                                          *)

TurnLoaded(s) ==
  /\ request[s].op = "turn"
  /\ \E t \in Turn : /\ request[s].seen \in Seen({t})
                     /\ Remembers(t, request[s].seen[t])

\* What an event still knows: of the turns that were there when it arrived it
\* has seen those that have no ending now.
EventLoaded(s) ==
  LET q == request[s]
  IN /\ q.op \in {"inserted", "selected"}
     /\ q.channel \in Channel /\ q.kind \in Kinds /\ q.action \in Acts \cup {"pass"}
     /\ q.kind = "ignored" => q.action = "pass"
     /\ q.after \in 0..opened
     /\ q = [op |-> q.op, channel |-> q.channel, kind |-> q.kind, action |-> q.action,
             after |-> q.after, seen |-> q.seen]
     /\ DOMAIN q.seen \subseteq Turn /\ q.seen \in Seen(DOMAIN q.seen)
     /\ \A t \in DOMAIN q.seen :
          /\ Remembers(t, q.seen[t]) /\ IsOpen(q.seen[t]) /\ row[t].channel = q.channel
     /\ q.op = "inserted" => DOMAIN q.seen = {}
     /\ q.op = "selected" =>
          /\ Overtakes(q.kind, q.action)
          /\ \A t \in Turn : t <= q.after /\ row[t].channel = q.channel
                             => t \in DOMAIN q.seen \/ row[t].reason # "none"

RequestFine(s) == request[s] = Idle \/ TurnLoaded(s) \/ EventLoaded(s)

RequestsFine ==
  /\ request = [s \in Request |-> request[s]]
  /\ \A s \in Request : RequestFine(s)
  /\ opened + Cardinality(Arriving) <= MaxTurns

CopiesFine(w) ==
  /\ DOMAIN copies[w] \subseteq Turn
  /\ copies[w] \in [DOMAIN copies[w] -> Copy]
  /\ \A t \in DOMAIN copies[w] : copies[w][t] = Stale \/ Remembers(t, copies[w][t].row)

\* The rows of one state are the past of the rows of the next.
Onward == RowsFine /\ RowsFine' /\ RowsGrow /\ opened <= opened'

LEMMA OnwardTurns == Onward => Turn \subseteq Turn' /\ opened \in Nat /\ opened' \in Nat
BY TablesAssumption DEF Onward, RowsFine, TablesOK, Turn

LEMMA RememberKept ==
  ASSUME Onward, NEW t \in Turn, NEW c, Remembers(t, c)
  PROVE  Recalls(t, c)
<1>1. t \in Turn' /\ opened \in Nat /\ opened' \in Nat
  BY OnwardTurns
<1>2. log[t] \in Log /\ log'[t] \in Log
  BY <1>1 DEF Onward, RowsFine, TablesOK
<1>3. Grows(row[t], log[t], row'[t], log'[t])
  BY DEF Onward, RowsGrow
<1>4. CopyFine(c, row[t], log[t]) /\ c.by <= opened /\ c.by \in Nat
  BY DEF Remembers, CopyFine, Row
<1> QED BY <1>1, <1>2, <1>3, <1>4, CopyKept DEF Onward, Recalls

LEMMA RequestKept ==
  ASSUME Onward, NEW s \in Request, request'[s] = request[s], RequestFine(s)
  PROVE  RequestFine(s)'
<1>1. CASE request[s] = Idle
  BY <1>1 DEF RequestFine
<1>2. CASE TurnLoaded(s)
  <2>1. PICK t \in Turn : request[s].seen \in Seen({t}) /\ Remembers(t, request[s].seen[t])
    BY <1>2 DEF TurnLoaded
  <2>2. t \in Turn'
    BY OnwardTurns
  <2>3. Remembers(t, request[s].seen[t])'
    BY <2>1, RememberKept DEF Remembers, Recalls
  <2> QED BY <1>2, <2>1, <2>2, <2>3 DEF TurnLoaded, RequestFine, Seen
<1>3. CASE EventLoaded(s)
  <2> DEFINE q    == request[s]
             seen == q.seen
  <2>1. DOMAIN seen \subseteq Turn /\ DOMAIN seen \subseteq Turn'
    BY <1>3, OnwardTurns DEF EventLoaded
  <2>2. ASSUME NEW t \in Turn
        PROVE  /\ row'[t].channel = row[t].channel
               /\ row[t].reason # "none" => row'[t].reason # "none"
    BY DEF Onward, RowsGrow, Grows, SameTurn
  <2>3. ASSUME NEW t \in DOMAIN seen
        PROVE  /\ CopyFine(seen[t], row'[t], log'[t]) /\ seen[t].by <= opened'
               /\ IsOpen(seen[t])
               /\ row'[t].channel = q.channel
    <3>1. /\ t \in Turn /\ Remembers(t, seen[t]) /\ IsOpen(seen[t])
          /\ row[t].channel = q.channel
      BY <1>3, <2>1 DEF EventLoaded
    <3> QED BY <2>2, <3>1, RememberKept DEF Recalls
  <2>4. q.after \in 0..opened'
    <3>1. opened \in Nat /\ opened' \in Nat /\ opened <= opened' /\ q.after \in 0..opened
      BY <1>3, OnwardTurns DEF EventLoaded, Onward
    <3> QED BY <3>1
  <2>5. ASSUME q.op = "selected", NEW t \in Turn', t <= q.after, row'[t].channel = q.channel
        PROVE  t \in DOMAIN seen \/ row'[t].reason # "none"
    <3>1. t \in Turn
      BY <1>3, <2>5, OnwardTurns DEF EventLoaded, Turn
    <3>2. t \in DOMAIN seen \/ row[t].reason # "none"
      BY <1>3, <2>2, <2>5, <3>1 DEF EventLoaded
    <3> QED BY <2>2, <3>1, <3>2
  <2>6. EventLoaded(s)'
    BY <1>3, <2>1, <2>3, <2>4, <2>5 DEF EventLoaded, Seen, Remembers, IsOpen
  <2> QED BY <2>6 DEF RequestFine
<1> QED BY <1>1, <1>2, <1>3 DEF RequestFine

LEMMA CopiesKept ==
  ASSUME Onward, NEW w \in Worker, copies'[w] = copies[w], CopiesFine(w)
  PROVE  CopiesFine(w)'
<1>1. DOMAIN copies[w] \subseteq Turn /\ DOMAIN copies[w] \subseteq Turn'
  BY OnwardTurns DEF CopiesFine
<1>2. ASSUME NEW t \in DOMAIN copies[w], copies[w][t] # Stale
      PROVE  CopyFine(copies[w][t].row, row'[t], log'[t]) /\ copies[w][t].row.by <= opened'
  <2>1. t \in Turn /\ Remembers(t, copies[w][t].row)
    BY <1>1, <1>2 DEF CopiesFine
  <2> QED BY <2>1, RememberKept DEF Recalls
<1> QED BY <1>1, <1>2 DEF CopiesFine, Remembers, Copy

\* Taken from a fine table, a copy is fine.
LEMMA RowRemembered ==
  ASSUME RowsFine, NEW t \in Turn
  PROVE  Remembers(t, row[t])
<1>1. opened \in Nat /\ row[t].by \in Nat
  BY TablesAssumption DEF RowsFine, TablesOK, Row
<1>2. row[t].by <= opened
  <2>1. CASE row[t].by = 0
    BY <1>1, <2>1
  <2>2. CASE row[t].by # 0
    BY <1>1, <2>2 DEF RowsFine, NamesNewer, Turn
  <2> QED BY <2>1, <2>2
<1> QED BY <1>2, CopyTaken DEF RowsFine, Remembers

-----------------------------------------------------------------------------
(* The requests.                                                           *)

LEMMA OpsDiffer == Idle.op = "idle"
BY DEF Idle

\* How many events are still to be handled, when one request changes.
EventOp == {"inserted", "selected"}

LEMMA ArrivingStep ==
  ASSUME RequestsFine, NEW s \in Request, NEW v, request' = [request EXCEPT ![s] = v]
  PROVE  /\ IsFiniteSet(Arriving) /\ Cardinality(Arriving) \in Nat
         /\ (request[s].op \in EventOp <=> v.op \in EventOp)
              => Cardinality(Arriving') = Cardinality(Arriving)
         /\ request[s].op \notin EventOp /\ v.op \in EventOp
              => Cardinality(Arriving') = Cardinality(Arriving) + 1
         /\ request[s].op \in EventOp /\ v.op \notin EventOp
              => Cardinality(Arriving') = Cardinality(Arriving) - 1
<1>1. IsFiniteSet(Arriving)
  BY TurnSessionsAssumption, FS_Subset DEF Arriving
<1>2. Cardinality(Arriving) \in Nat
  BY <1>1, FS_CardinalityType
<1>3. request'[s] = v /\ \A q \in Request : q # s => request'[q] = request[q]
  BY DEF RequestsFine
<1>4. (request[s].op \in EventOp <=> v.op \in EventOp) => Arriving' = Arriving
  BY <1>3 DEF Arriving, EventOp
<1>5. request[s].op \notin EventOp /\ v.op \in EventOp
        => Arriving' = Arriving \cup {s} /\ s \notin Arriving
  BY <1>3 DEF Arriving, EventOp
<1>6. request[s].op \in EventOp /\ v.op \notin EventOp
        => Arriving' = Arriving \ {s} /\ s \in Arriving
  BY <1>3 DEF Arriving, EventOp
<1>7. request[s].op \notin EventOp /\ v.op \in EventOp
        => Cardinality(Arriving') = Cardinality(Arriving) + 1
  BY <1>1, <1>5, FS_AddElement
<1>8. request[s].op \in EventOp /\ v.op \notin EventOp
        => Cardinality(Arriving') = Cardinality(Arriving) - 1
  BY <1>1, <1>6, FS_RemoveElement
<1> QED BY <1>1, <1>2, <1>4, <1>7, <1>8

\* A request ends, or a new one has loaded its copies.
LEMMA RequestStepped ==
  ASSUME RequestsFine, Onward, NEW s \in Request, NEW v,
         request' = [request EXCEPT ![s] = v],
         RequestFine(s)', opened' + Cardinality(Arriving') <= MaxTurns
  PROVE  RequestsFine'
<1>1. request'[s] = v /\ \A q \in Request : q # s => request'[q] = request[q]
  BY DEF RequestsFine
<1>2. \A q \in Request : RequestFine(q)'
  BY <1>1, RequestKept DEF RequestsFine
<1>3. request' = [q \in Request |-> request'[q]]
  BY DEF RequestsFine
<1> QED BY <1>2, <1>3 DEF RequestsFine

LEMMA RequestsStay ==
  ASSUME RequestsFine, Onward, UNCHANGED <<request, opened>>
  PROVE  RequestsFine'
<1>1. \A q \in Request : RequestFine(q)'
  BY RequestKept DEF RequestsFine
<1>2. Arriving' = Arriving
  BY DEF Arriving
<1> QED BY <1>1, <1>2 DEF RequestsFine

-----------------------------------------------------------------------------
(* The workers.                                                            *)

Least(S) == CHOOSE t \in S : \A u \in S : t <= u

LEMMA CurrentIs ==
  ASSUME NEW w
  PROVE  Current(w) = Least(DOMAIN copies[w]) /\ Current(w)' = Least(DOMAIN copies'[w])
BY DEF Current, Least

WorkerFine(w) ==
  /\ CopiesFine(w)
  /\ locked[w] \subseteq DOMAIN copies[w]
  /\ stage[w] = "idle" => DOMAIN copies[w] = {}
  /\ stage[w] = "claiming" => \A t \in DOMAIN copies[w] : copies[w][t] # Stale
  /\ stage[w] = "refreshing" => next[w] <= 3 /\ Current(w) \in DOMAIN copies[w]

LeasesFine ==
  /\ lease \in [Turn -> Worker \cup {NoWorker}]
  /\ expired \subseteq {t \in Turn : lease[t] # NoWorker}

SweepsTyped ==
  /\ stage \in [Worker -> {"idle", "claiming", "working", "refreshing"}]
  /\ copies = [w \in Worker |-> copies[w]]
  /\ locked = [w \in Worker |-> locked[w]]
  /\ next \in [Worker -> 1..4]

WorkersFine == LeasesFine /\ SweepsTyped /\ \A w \in Worker : WorkerFine(w)

\* No step of another worker or of a request disturbs a sweep.
SameSweep(w) ==
  /\ stage'[w] = stage[w] /\ copies'[w] = copies[w]
  /\ locked'[w] = locked[w] /\ next'[w] = next[w]

LEMMA WorkerKept ==
  ASSUME Onward, NEW w \in Worker, SameSweep(w), WorkerFine(w)
  PROVE  WorkerFine(w)'
<1>1. CopiesFine(w)'
  BY CopiesKept DEF WorkerFine, SameSweep
<1>2. Current(w)' = Current(w)
  BY CurrentIs DEF SameSweep
<1> QED BY <1>1, <1>2 DEF WorkerFine, SameSweep

LEMMA WorkersStay ==
  ASSUME WorkersFine, Onward, UNCHANGED workers, LeasesFine'
  PROVE  WorkersFine'
<1>1. SweepsTyped' /\ \A w \in Worker : SameSweep(w)
  BY DEF WorkersFine, SweepsTyped, SameSweep, workers
<1>2. \A w \in Worker : WorkerFine(w)'
  BY <1>1, WorkerKept DEF WorkersFine
<1> QED BY <1>1, <1>2 DEF WorkersFine

LEMMA WorkerStepped ==
  ASSUME WorkersFine, Onward, NEW w \in Worker, SweepsTyped', LeasesFine',
         \A v \in Worker \ {w} : SameSweep(v), WorkerFine(w)'
  PROVE  WorkersFine'
<1>1. \A v \in Worker : WorkerFine(v)'
  BY WorkerKept DEF WorkersFine
<1> QED BY <1>1 DEF WorkersFine

LEMMA LeasesStay ==
  ASSUME LeasesFine, UNCHANGED <<opened, lease, expired>>
  PROVE  LeasesFine'
BY DEF LeasesFine, Turn

\* One sweep moves on.
Sweeps(w, a, f, n, S) ==
  /\ stage'  = [stage EXCEPT ![w] = a]
  /\ copies' = [copies EXCEPT ![w] = f]
  /\ next'   = [next EXCEPT ![w] = n]
  /\ locked' = [locked EXCEPT ![w] = S]

LEMMA SweepStep ==
  ASSUME WorkersFine, NEW w \in Worker,
         NEW a \in {"idle", "claiming", "working", "refreshing"}, NEW f,
         NEW n \in 1..4, NEW S, Sweeps(w, a, f, n, S)
  PROVE  /\ SweepsTyped' /\ \A v \in Worker \ {w} : SameSweep(v)
         /\ stage'[w] = a /\ copies'[w] = f /\ next'[w] = n /\ locked'[w] = S
<1>1. /\ stage \in [Worker -> {"idle", "claiming", "working", "refreshing"}]
      /\ copies = [v \in Worker |-> copies[v]]
      /\ locked = [v \in Worker |-> locked[v]]
      /\ next \in [Worker -> 1..4]
  BY DEF WorkersFine, SweepsTyped
<1>2. /\ stage' \in [Worker -> {"idle", "claiming", "working", "refreshing"}]
      /\ stage'[w] = a /\ \A v \in Worker \ {w} : stage'[v] = stage[v]
  BY <1>1 DEF Sweeps
<1>3. /\ next' \in [Worker -> 1..4]
      /\ next'[w] = n /\ \A v \in Worker \ {w} : next'[v] = next[v]
  BY <1>1 DEF Sweeps
<1>4. /\ copies' = [v \in Worker |-> copies'[v]]
      /\ copies'[w] = f /\ \A v \in Worker \ {w} : copies'[v] = copies[v]
  BY <1>1 DEF Sweeps
<1>5. /\ locked' = [v \in Worker |-> locked'[v]]
      /\ locked'[w] = S /\ \A v \in Worker \ {w} : locked'[v] = locked[v]
  BY <1>1 DEF Sweeps
<1> QED BY <1>2, <1>3, <1>4, <1>5 DEF SweepsTyped, SameSweep

\* What a sweep leaves unchanged is a step of this form too.
LEMMA SweepSame ==
  ASSUME WorkersFine, NEW w \in Worker
  PROVE  /\ stage = [stage EXCEPT ![w] = stage[w]]
         /\ copies = [copies EXCEPT ![w] = copies[w]]
         /\ next = [next EXCEPT ![w] = next[w]]
         /\ locked = [locked EXCEPT ![w] = locked[w]]
         /\ stage[w] \in {"idle", "claiming", "working", "refreshing"}
         /\ next[w] \in 1..4
<1>1. /\ stage \in [Worker -> {"idle", "claiming", "working", "refreshing"}]
      /\ copies = [v \in Worker |-> copies[v]]
      /\ locked = [v \in Worker |-> locked[v]]
      /\ next \in [Worker -> 1..4]
  BY DEF WorkersFine, SweepsTyped
<1>2. /\ stage = [stage EXCEPT ![w] = stage[w]]
      /\ next = [next EXCEPT ![w] = next[w]]
      /\ stage[w] \in {"idle", "claiming", "working", "refreshing"}
      /\ next[w] \in 1..4
  BY <1>1
<1>3. copies = [copies EXCEPT ![w] = copies[w]]
  BY <1>1
<1>4. locked = [locked EXCEPT ![w] = locked[w]]
  BY <1>1
<1> QED BY <1>2, <1>3, <1>4

\* A copy as a worker takes it.
LEMMA CopyRead ==
  ASSUME RowsFine, LeasesFine, NEW t \in Turn
  PROVE  /\ [row |-> row[t], lease |-> lease[t]] \in Copy
         /\ [row |-> row[t], lease |-> lease[t]].row = row[t]
         /\ Remembers(t, row[t])
<1>1. row[t] \in Row(Channel) /\ lease[t] \in Worker \cup {NoWorker}
  BY DEF RowsFine, TablesOK, LeasesFine
<1>2. [row |-> row[t], lease |-> lease[t]] \in [row : Row(Channel), lease : Worker \cup {NoWorker}]
  BY <1>1
<1>3. [row |-> row[t], lease |-> lease[t]] \in Copy
  BY <1>2 DEF Copy
<1> QED BY <1>3, RowRemembered

\* When the tables stay, what is remembered is remembered still.
LEMMA RememberStays ==
  ASSUME UNCHANGED <<opened, row, log, arrived>>, NEW t, NEW c
  PROVE  Recalls(t, c) <=> Remembers(t, c)
BY DEF Remembers, Recalls

-----------------------------------------------------------------------------
(* The invariant, one action after the other.                              *)

Bounded == loads \in 0..MaxLoads /\ faults \in 0..MaxFaults

SessionsInv == RowsFine /\ RequestsFine /\ WorkersFine /\ Bounded

LEMMA Still ==
  ASSUME SessionsInv, UNCHANGED <<opened, row, log, arrived>>
  PROVE  Onward
<1>1. opened <= opened'
  BY TablesAssumption DEF SessionsInv, RowsFine, TablesOK
<1> QED BY <1>1, RowsStay DEF SessionsInv, Onward

\* Only the one request changes, and no event begins or ends.
LEMMA LoadOK ==
  ASSUME SessionsInv, NEW s \in Request, NEW t \in Turn, LoadTurn(s, t)
  PROVE  SessionsInv'
<1> DEFINE v == [op |-> "turn", seen |-> [u \in {t} |-> row[u]]]
<1>1. /\ request[s] = Idle /\ request' = [request EXCEPT ![s] = v]
      /\ loads < MaxLoads /\ loads' = loads + 1 /\ faults' = faults
      /\ UNCHANGED <<opened, row, log, arrived>> /\ UNCHANGED <<opened, lease, expired>>
      /\ UNCHANGED workers
  BY DEF LoadTurn, tables, history
<1>2. Onward /\ RequestsFine /\ WorkersFine /\ Bounded /\ RowsFine
  BY <1>1, Still DEF SessionsInv
<1>3. request'[s] = v /\ v.op = "turn" /\ v.seen = [u \in {t} |-> row[u]]
  BY <1>1, <1>2 DEF RequestsFine
<1>4. request[s].op \notin EventOp /\ v.op \notin EventOp
  BY <1>1 DEF Idle, EventOp
<1> HIDE DEF v
<1>5. row[t] \in Row(Channel) /\ v.seen[t] = row[t] /\ v.seen \in Seen({t})
  BY <1>2, <1>3 DEF RowsFine, TablesOK, Seen
<1>6. Recalls(t, row[t])
  BY <1>1, <1>2, RowRemembered, RememberStays
<1>7. row'[t] = row[t] /\ t \in Turn'
  BY <1>1 DEF Turn
<1>8. Remembers(t, request[s].seen[t])'
  BY <1>3, <1>5, <1>6, <1>7 DEF Remembers, Recalls
<1>9. TurnLoaded(s)'
  BY <1>3, <1>5, <1>7, <1>8 DEF TurnLoaded, Seen
<1>10. opened' + Cardinality(Arriving') <= MaxTurns
  BY <1>1, <1>2, <1>3, <1>4, ArrivingStep DEF RequestsFine
<1>11. RequestsFine'
  BY <1>1, <1>2, <1>9, <1>10, RequestStepped DEF RequestFine
<1>12. WorkersFine'
  BY <1>1, <1>2, LeasesStay, WorkersStay DEF WorkersFine
<1>13. Bounded'
  BY <1>1, <1>2, TurnSessionsAssumption DEF Bounded
<1> QED BY <1>2, <1>11, <1>12, <1>13 DEF SessionsInv, Onward

LEMMA InsertEventOK ==
  ASSUME SessionsInv, NEW s \in Request, NEW c \in Channel, NEW k \in Kinds,
         NEW a \in Acts \cup {"pass"}, InsertEvent(s, c, k, a)
  PROVE  SessionsInv'
<1> DEFINE v == [op |-> "inserted", channel |-> c, kind |-> k, action |-> a,
                 after |-> opened, seen |-> <<>>]
<1>1. /\ request[s] = Idle /\ request' = [request EXCEPT ![s] = v]
      /\ k = "ignored" => a = "pass"
      /\ opened + Cardinality(Arriving) < MaxTurns
      /\ UNCHANGED <<loads, faults>>
      /\ UNCHANGED <<opened, row, log, arrived>> /\ UNCHANGED <<opened, lease, expired>>
      /\ UNCHANGED workers
  BY DEF InsertEvent, tables, history
<1>2. Onward /\ RequestsFine /\ WorkersFine /\ Bounded /\ RowsFine
  BY <1>1, Still DEF SessionsInv
<1>3. /\ request'[s] = v /\ v.op = "inserted" /\ v.channel = c /\ v.kind = k
      /\ v.action = a /\ v.after = opened /\ v.seen = <<>>
      /\ v = [op |-> v.op, channel |-> v.channel, kind |-> v.kind, action |-> v.action,
              after |-> v.after, seen |-> v.seen]
  BY <1>1, <1>2 DEF RequestsFine
<1>4. request[s].op \notin EventOp /\ v.op \in EventOp
  BY <1>1 DEF Idle, EventOp
<1> HIDE DEF v
<1>5. v.after \in 0..opened'
  BY <1>1, <1>2, <1>3, OnwardTurns
<1>6. DOMAIN <<>> = {} /\ <<>> \in Seen({})
  BY DEF Seen
<1>7. EventLoaded(s)'
  BY <1>1, <1>3, <1>5, <1>6 DEF EventLoaded, Seen
<1>8. opened' + Cardinality(Arriving') <= MaxTurns
  <2>1. Cardinality(Arriving') = Cardinality(Arriving) + 1 /\ Cardinality(Arriving) \in Nat
    BY <1>1, <1>2, <1>4, ArrivingStep
  <2>2. opened \in Nat
    BY <1>2, OnwardTurns
  <2> QED BY <1>1, <2>1, <2>2, TablesAssumption
<1>9. RequestsFine'
  BY <1>1, <1>2, <1>7, <1>8, RequestStepped DEF RequestFine
<1>10. WorkersFine'
  BY <1>1, <1>2, LeasesStay, WorkersStay DEF WorkersFine
<1> QED BY <1>1, <1>2, <1>9, <1>10 DEF SessionsInv, Onward, Bounded

LEMMA Searched ==
  ASSUME NEW q, NEW f,
         q = [op |-> q.op, channel |-> q.channel, kind |-> q.kind, action |-> q.action,
              after |-> q.after, seen |-> q.seen]
  PROVE  [q EXCEPT !.op = "selected", !.seen = f] =
           [op |-> "selected", channel |-> q.channel, kind |-> q.kind, action |-> q.action,
            after |-> q.after, seen |-> f]
<1> DEFINE Fields == {"op", "channel", "kind", "action", "after", "seen"}
<1>1. DOMAIN q = Fields
  OBVIOUS
<1>2. [q EXCEPT !.op = "selected", !.seen = f] =
        [x \in Fields |-> IF x = "op" THEN "selected" ELSE IF x = "seen" THEN f ELSE q[x]]
  BY <1>1
<1> QED BY <1>2

\* The search finds the turns that were there when the event arrived, or they
\* have an ending by now.
LEMMA SelectOpenOK ==
  ASSUME SessionsInv, NEW s \in Request, SelectOpen(s)
  PROVE  SessionsInv'
<1> DEFINE q == request[s]
           c == q.channel
           f == [t \in OpenOn(c) |-> row[t]]
           v == [q EXCEPT !.op = "selected", !.seen = f]
<1>1. /\ q.op = "inserted" /\ Overtakes(q.kind, q.action)
      /\ request' = [request EXCEPT ![s] = v]
      /\ UNCHANGED <<loads, faults>>
      /\ UNCHANGED <<opened, row, log, arrived>> /\ UNCHANGED <<opened, lease, expired>>
      /\ UNCHANGED workers
  <2>1. request = [r \in Request |-> request[r]]
    BY DEF SessionsInv, RequestsFine
  <2>2. request' = [request EXCEPT ![s].op = "selected", ![s].seen = f]
    BY DEF SelectOpen
  <2>3. request' = [request EXCEPT ![s] = v]
    BY <2>1, <2>2
  <2> QED BY <2>3 DEF SelectOpen, tables, history
<1>2. Onward /\ RequestsFine /\ WorkersFine /\ Bounded /\ RowsFine
  BY <1>1, Still DEF SessionsInv
<1>3. EventLoaded(s)
  BY <1>1, <1>2, OpsDiffer DEF RequestsFine, RequestFine, TurnLoaded
<1>4. q = [op |-> q.op, channel |-> q.channel, kind |-> q.kind, action |-> q.action,
           after |-> q.after, seen |-> q.seen]
  BY <1>3 DEF EventLoaded
<1>5. v = [op |-> "selected", channel |-> q.channel, kind |-> q.kind, action |-> q.action,
           after |-> q.after, seen |-> f]
  BY <1>4, Searched
<1>6. /\ request'[s] = v /\ v.op = "selected" /\ v.channel = c /\ v.kind = q.kind
      /\ v.action = q.action /\ v.after = q.after /\ v.seen = f
      /\ v = [op |-> v.op, channel |-> v.channel, kind |-> v.kind, action |-> v.action,
              after |-> v.after, seen |-> v.seen]
  BY <1>1, <1>2, <1>5 DEF RequestsFine
<1>7. /\ q.channel \in Channel /\ q.kind \in Kinds /\ q.action \in Acts \cup {"pass"}
      /\ q.kind = "ignored" => q.action = "pass"
      /\ q.after \in 0..opened /\ Overtakes(q.kind, q.action)
      /\ q.op \in EventOp /\ v.op \in EventOp
  BY <1>1, <1>3, <1>6 DEF EventLoaded, EventOp
<1>8. /\ DOMAIN f = OpenOn(c) /\ OpenOn(c) \subseteq Turn
      /\ \A t \in OpenOn(c) : f[t] = row[t] /\ row[t].channel = c /\ IsOpen(row[t])
      /\ Turn' = Turn /\ row' = row /\ opened' = opened
  BY <1>1 DEF OpenOn, Turn
<1>9. f \in Seen(OpenOn(c))
  BY <1>2, <1>8 DEF RowsFine, TablesOK, Seen
<1> HIDE DEF v, f
<1>10. \A t \in OpenOn(c) : Recalls(t, row[t])
  BY <1>1, <1>2, <1>8, RowRemembered, RememberStays
<1>11. ASSUME NEW t \in OpenOn(c)
       PROVE  /\ Remembers(t, request[s].seen[t])'
              /\ IsOpen(f[t]) /\ row'[t].channel = c
  <2>1. request'[s].seen[t] = row'[t]
    BY <1>6, <1>8
  <2> QED BY <2>1, <1>8, <1>10 DEF Remembers, Recalls
<1>12. ASSUME NEW t \in Turn, row[t].channel = c
       PROVE  t \in OpenOn(c) \/ row[t].reason # "none"
  <2>1. row[t] \in Row(Channel) /\ (IsTerminal(row[t]) => row[t].reason # "none")
    BY <1>2 DEF RowsFine, RowFine
  <2>2. IsOpen(row[t]) \/ IsTerminal(row[t])
    BY <2>1 DEF IsOpen, IsTerminal, Row, Status
  <2> QED BY <1>12, <2>1, <2>2 DEF OpenOn
<1>13. EventLoaded(s)'
  BY <1>6, <1>7, <1>8, <1>9, <1>11, <1>12 DEF EventLoaded, Seen, IsOpen, EventOp
<1>14. opened' + Cardinality(Arriving') <= MaxTurns
  BY <1>1, <1>2, <1>7, ArrivingStep DEF RequestsFine
<1>15. RequestsFine'
  BY <1>1, <1>2, <1>13, <1>14, RequestStepped DEF RequestFine
<1>16. WorkersFine'
  BY <1>1, <1>2, LeasesStay, WorkersStay DEF WorkersFine
<1> QED BY <1>1, <1>2, <1>15, <1>16 DEF SessionsInv, Onward, Bounded

LEMMA RefuseOK ==
  ASSUME SessionsInv, NEW s \in Request, Refuse(s)
  PROVE  SessionsInv'
<1>1. /\ request[s].op = "turn" /\ request' = [request EXCEPT ![s] = Idle]
      /\ UNCHANGED <<loads, faults>>
      /\ UNCHANGED <<opened, row, log, arrived>> /\ UNCHANGED <<opened, lease, expired>>
      /\ UNCHANGED workers
  BY DEF Refuse, tables, history
<1>2. Onward /\ RequestsFine /\ WorkersFine /\ Bounded /\ RowsFine
  BY <1>1, Still DEF SessionsInv
<1>3. request'[s] = Idle
  BY <1>1, <1>2 DEF RequestsFine
<1>4. opened' + Cardinality(Arriving') <= MaxTurns
  BY <1>1, <1>2, OpsDiffer, ArrivingStep DEF RequestsFine, EventOp
<1>5. RequestsFine'
  BY <1>1, <1>2, <1>3, <1>4, RequestStepped DEF RequestFine
<1>6. WorkersFine'
  BY <1>1, <1>2, LeasesStay, WorkersStay DEF WorkersFine
<1> QED BY <1>1, <1>2, <1>5, <1>6 DEF SessionsInv, Onward, Bounded

\* Request s saved what its handler made of its copy c of turn t.
Saves(s, t, c, x) ==
  /\ request[s].op = "turn" /\ c = request[s].seen[t]
  /\ Remembers(t, c) /\ ~IsTerminal(c)
  /\ Allowed(c, x, c.by)
  /\ Save(s, t, c, x)

SaveTurn(s) ==
  \/ \E tool \in ActiveTool("investigate") : SaveAdvance(s, tool)
  \/ SaveSuspend(s)
  \/ \E approved \in BOOLEAN : SaveResume(s, approved)
  \/ SaveSteer(s)
  \/ \E said \in Said : SaveStop(s, said)

LEMMA OpenFromCopy ==
  ASSUME NEW t, NEW c, Remembers(t, c), ~IsTerminal(c)
  PROVE  OpenCopy(c)
BY DEF Remembers, CopyFine, OpenCopy

\* Every handler but an event saves what its rule allows.
LEMMA SaveCases ==
  ASSUME SessionsInv, NEW s \in Request, SaveTurn(s)
  PROVE  \E t \in Turn : \E c, x : Saves(s, t, c, x)
<1>1. request[s].op = "turn"
  BY DEF SaveTurn, SaveAdvance, SaveSuspend, SaveResume, SaveSteer, SaveStop, TurnRequest
<1>2. TurnLoaded(s)
  BY <1>1 DEF SessionsInv, RequestsFine, RequestFine, EventLoaded, Idle
<1>3. PICK t \in Turn : request[s].seen \in Seen({t}) /\ Remembers(t, request[s].seen[t])
  BY <1>2 DEF TurnLoaded
<1>4. DOMAIN request[s].seen = {t}
  BY <1>3 DEF Seen
<1> DEFINE c == request[s].seen[t]
<1>5. ~IsTerminal(c) => OpenCopy(c)
  BY <1>3, OpenFromCopy
<1>6. ASSUME NEW tool \in ActiveTool("investigate"), SaveAdvance(s, tool)
      PROVE  Saves(s, t, c, Advanced(c))
  <2>1. CanAdvance(c, tool) /\ Save(s, t, c, Advanced(c))
    BY <1>4, <1>6 DEF SaveAdvance, TurnRequest
  <2>2. ~IsTerminal(c)
    BY <2>1 DEF CanAdvance
  <2> HIDE DEF c
  <2>3. Allowed(c, Advanced(c), c.by)
    BY <1>5, <2>1, <2>2, AdvancedAllowed
  <2> QED BY <1>1, <1>3, <2>1, <2>2, <2>3 DEF Saves, c
<1>7. ASSUME SaveSuspend(s)
      PROVE  Saves(s, t, c, Suspended(c))
  <2>1. CanSuspend(c) /\ Save(s, t, c, Suspended(c))
    BY <1>4, <1>7 DEF SaveSuspend, TurnRequest
  <2>2. ~IsTerminal(c)
    BY <2>1 DEF CanSuspend, IsActive, IsTerminal, TERMINAL_STATUSES
  <2> HIDE DEF c
  <2>3. Allowed(c, Suspended(c), c.by)
    BY <1>5, <2>1, <2>2, SuspendedAllowed
  <2> QED BY <1>1, <1>3, <2>1, <2>2, <2>3 DEF Saves, c
<1>8. ASSUME NEW approved \in BOOLEAN, SaveResume(s, approved)
      PROVE  Saves(s, t, c, Resumed(c, approved))
  <2>1. CanResume(c, TRUE) /\ Save(s, t, c, Resumed(c, approved))
    BY <1>4, <1>8 DEF SaveResume, TurnRequest
  <2>2. ~IsTerminal(c)
    BY <2>1 DEF CanResume, IsTerminal, TERMINAL_STATUSES
  <2> HIDE DEF c
  <2>3. Allowed(c, Resumed(c, approved), c.by)
    BY <1>5, <2>1, <2>2, ResumedAllowed
  <2> QED BY <1>1, <1>3, <2>1, <2>2, <2>3 DEF Saves, c
<1>9. ASSUME SaveSteer(s)
      PROVE  Saves(s, t, c, Steered(c))
  <2>1. CanSteer(c) /\ Save(s, t, c, Steered(c))
    BY <1>4, <1>9 DEF SaveSteer, TurnRequest
  <2>2. ~IsTerminal(c)
    BY <2>1 DEF CanSteer
  <2> HIDE DEF c
  <2>3. Allowed(c, Steered(c), c.by)
    BY <1>5, <2>2, SteeredAllowed
  <2> QED BY <1>1, <1>3, <2>1, <2>2, <2>3 DEF Saves, c
<1>10. ASSUME NEW said \in Said, SaveStop(s, said)
       PROVE  Saves(s, t, c, Stopped(c, said))
  <2>1. CanStop(c) /\ Save(s, t, c, Stopped(c, said))
    BY <1>4, <1>10 DEF SaveStop, TurnRequest
  <2>2. ~IsTerminal(c)
    BY <2>1 DEF CanStop
  <2> HIDE DEF c
  <2>3. Allowed(c, Stopped(c, said), c.by)
    BY <1>5, <2>2, EndingsAllowed
  <2> QED BY <1>1, <1>3, <2>1, <2>2, <2>3 DEF Saves, c
<1> HIDE DEF c
<1> QED BY <1>6, <1>7, <1>8, <1>9, <1>10 DEF SaveTurn

LEMMA SaveOK ==
  ASSUME SessionsInv, NEW s \in Request, NEW t \in Turn, NEW c, NEW x, Saves(s, t, c, x)
  PROVE  SessionsInv'
<1>1. /\ request[s].op = "turn" /\ request' = [request EXCEPT ![s] = Idle]
      /\ row' = [row EXCEPT ![t] = Flush(@, c, x.row)]
      /\ log' = [log EXCEPT ![t] = AppendStep(@, x.step)]
      /\ opened' = opened /\ arrived' = arrived
      /\ UNCHANGED <<loads, faults>> /\ UNCHANGED <<opened, lease, expired>>
      /\ UNCHANGED workers
  BY DEF Saves, Save, history
<1>2. RequestsFine /\ WorkersFine /\ Bounded /\ RowsFine
  BY DEF SessionsInv
<1>3. RowsFine' /\ RowsGrow
  BY <1>1, <1>2, RowWritten DEF Saves
<1>4. Onward
  BY <1>1, <1>2, <1>3, TablesAssumption DEF Onward, RowsFine, TablesOK
<1>5. request'[s] = Idle
  BY <1>1, <1>2 DEF RequestsFine
<1>6. opened' + Cardinality(Arriving') <= MaxTurns
  BY <1>1, <1>2, OpsDiffer, ArrivingStep DEF RequestsFine, EventOp
<1>7. RequestsFine'
  BY <1>1, <1>2, <1>4, <1>5, <1>6, RequestStepped DEF RequestFine
<1>8. WorkersFine'
  BY <1>1, <1>2, <1>4, LeasesStay, WorkersStay DEF WorkersFine
<1> QED BY <1>1, <1>2, <1>3, <1>7, <1>8 DEF SessionsInv, Bounded

LEMMA SaveEventOK ==
  ASSUME SessionsInv, NEW s \in Request, SaveEvent(s)
  PROVE  SessionsInv'
<1> DEFINE seen == request[s].seen
           c == request[s].channel
           k == request[s].kind
           a == request[s].action
           after == request[s].after
           late == DOMAIN seen
<1>1. /\ request[s].op \in EventOp /\ request' = [request EXCEPT ![s] = Idle]
      /\ request[s].op = IF Overtakes(k, a) THEN "selected" ELSE "inserted"
      /\ opened' = opened + 1 /\ EventWrites(c, k, a, late, seen, after)
      /\ lease' = [t \in 1..(opened + 1) |-> IF t = opened + 1 THEN NoWorker ELSE lease[t]]
      /\ UNCHANGED <<loads, faults, expired>> /\ UNCHANGED workers
  BY Zenon DEF SaveEvent, Arriving, EventOp, EventWrites
<1>2. RequestsFine /\ WorkersFine /\ Bounded /\ RowsFine /\ LeasesFine
  BY DEF SessionsInv, WorkersFine
<1>3. EventLoaded(s)
  BY <1>1, <1>2 DEF RequestsFine, RequestFine, TurnLoaded, Idle, EventOp
<1>4. c \in Channel /\ k \in Kinds /\ a \in Action /\ EventSees(c, k, a, late, seen, after)
  <2>1. opened \in Nat
    BY <1>2, TablesAssumption DEF RowsFine, TablesOK
  <2>2. after \in 0..opened
    BY <1>3 DEF EventLoaded
  <2>3. after \in Nat /\ after <= opened
    BY <2>1, <2>2
  <2>4. c \in Channel /\ k \in Kinds /\ a \in Acts \cup {"pass"} /\ late \subseteq Turn
    BY <1>3 DEF EventLoaded
  <2>5. a \in Action
    BY <2>4, TurnSessionsAssumption DEF Action
  <2>6. ASSUME NEW t \in late
        PROVE  /\ Remembers(t, seen[t]) /\ IsOpen(seen[t])
               /\ row[t].channel = c /\ Overtakes(k, a)
    <3>1. request[s].op = "selected"
      BY <1>1, <1>3 DEF EventLoaded, EventOp
    <3>2. Remembers(t, seen[t]) /\ IsOpen(seen[t]) /\ row[t].channel = c
      BY <1>3 DEF EventLoaded
    <3>3. Overtakes(k, a)
      BY <1>3, <3>1 DEF EventLoaded
    <3> QED BY <3>2, <3>3
  <2>7. Overtakes(k, a) => \A t \in Turn : t <= after /\ row[t].channel = c
                                           => t \in late \/ row[t].reason # "none"
    <3> SUFFICES ASSUME Overtakes(k, a)
                 PROVE  \A t \in Turn : t <= after /\ row[t].channel = c
                                         => t \in late \/ row[t].reason # "none"
      OBVIOUS
    <3>1. request[s].op = "selected"
      BY <1>1
    <3> QED BY <1>3, <3>1 DEF EventLoaded
  <2> QED BY <2>3, <2>4, <2>5, <2>6, <2>7 DEF EventSees
<1>5. /\ opened \in Nat /\ Cardinality(Arriving) \in Nat
      /\ Cardinality(Arriving') = Cardinality(Arriving) - 1
      /\ Cardinality(Arriving') \in Nat
  <2>1. opened \in Nat
    BY <1>2, TablesAssumption DEF RowsFine, TablesOK
  <2>2. /\ IsFiniteSet(Arriving) /\ Cardinality(Arriving) \in Nat
        /\ Cardinality(Arriving') = Cardinality(Arriving) - 1
    BY <1>1, <1>2, OpsDiffer, ArrivingStep DEF EventOp
  <2>3. s \in Arriving
    BY <1>1 DEF Arriving, EventOp
  <2>4. Cardinality(Arriving) # 0
    BY <2>2, <2>3, FS_EmptySet
  <2> QED BY <2>1, <2>2, <2>4
<1>6. opened < MaxTurns /\ opened' + Cardinality(Arriving') <= MaxTurns
  BY <1>1, <1>2, <1>5, TablesAssumption DEF RequestsFine
<1>7. request'[s] = Idle
  BY <1>1, <1>2 DEF RequestsFine
<1> HIDE DEF seen, c, k, a, after, late
<1>8. RowsFine' /\ RowsGrow
  BY <1>1, <1>2, <1>4, <1>6, EventWritten
<1>9. Onward
  BY <1>1, <1>2, <1>5, <1>8 DEF Onward
<1>10. RequestsFine'
  BY <1>1, <1>2, <1>6, <1>7, <1>9, RequestStepped DEF RequestFine
<1>11. LeasesFine'
  <2> DEFINE e == opened + 1
             L == lease'
  <2>1. /\ Turn' = 1..e /\ e \notin Turn
        /\ \A t \in 1..e : t = e \/ t \in Turn
        /\ \A t \in Turn : t \in 1..e /\ t # e
    BY <1>1, <1>5 DEF Turn
  <2>2. L = [t \in 1..e |-> IF t = e THEN NoWorker ELSE lease[t]]
    BY <1>1
  <2> HIDE DEF e, L
  <2>3. \A t \in Turn : L[t] = lease[t]
    BY <2>1, <2>2
  <2>4. L \in [1..e -> Worker \cup {NoWorker}]
    BY <1>2, <2>1, <2>2 DEF LeasesFine
  <2>5. expired' = expired /\ expired \subseteq {t \in Turn : lease[t] # NoWorker}
    BY <1>1, <1>2 DEF LeasesFine
  <2>6. expired \subseteq {t \in Turn' : L[t] # NoWorker}
    BY <2>1, <2>3, <2>5
  <2> QED BY <2>1, <2>4, <2>5, <2>6 DEF LeasesFine, L
<1>12. WorkersFine'
  BY <1>1, <1>2, <1>9, <1>11, WorkersStay
<1> QED BY <1>1, <1>2, <1>8, <1>10, <1>12 DEF SessionsInv, Bounded

-----------------------------------------------------------------------------
(* The sweeps.                                                             *)

LEMMA NotStale ==
  ASSUME NEW a, NEW b
  PROVE  [row |-> a, lease |-> b] # Stale
<1>1. DOMAIN [row |-> a, lease |-> b] = {"row", "lease"} /\ DOMAIN Stale = {"row"}
  BY DEF Stale
<1> QED BY <1>1

LEMMA PlanLength ==
  ASSUME NEW r \in Row(Channel)
  PROVE  /\ Len(Plan(r)) \in 0..3
         /\ r.action # "pass" => Len(Plan(r)) >= 1
         /\ \A n \in 1..Len(Plan(r)) : Plan(r)[n] \in ActiveTool(r.action)
<1>1. r.action \in Action
  BY DEF Row
<1>2. CASE r.action = "answer"
  <2>1. Plan(r) = <<"search_knowledge">>
    BY <1>2 DEF Plan, ACTIVE_TOOLS
  <2>2. ActiveTool(r.action) = {Plan(r)[i] : i \in DOMAIN Plan(r)}
    BY DEF ActiveTool, Plan
  <2> QED BY <2>1, <2>2
<1>3. CASE r.action = "investigate"
  <2>1. Plan(r) = <<"search_knowledge", "list_sources", "get_proposal">>
    BY <1>3 DEF Plan, ACTIVE_TOOLS
  <2>2. ActiveTool(r.action) = {Plan(r)[i] : i \in DOMAIN Plan(r)}
    BY DEF ActiveTool, Plan
  <2> QED BY <2>1, <2>2
<1>4. CASE r.action = "pass"
  <2>1. Plan(r) = <<>>
    BY <1>4 DEF Plan, ACTIVE_TOOLS
  <2> QED BY <2>1, <1>4
<1> QED BY <1>1, <1>2, <1>3, <1>4 DEF Action

\* A step that leaves tables, leases and requests alone and moves one sweep.
LEMMA SweepOnly ==
  ASSUME SessionsInv, NEW w \in Worker,
         UNCHANGED <<opened, row, log, arrived>>, UNCHANGED <<lease, expired, request, loads>>,
         SweepsTyped', \A v \in Worker \ {w} : SameSweep(v), WorkerFine(w)',
         faults' \in 0..MaxFaults
  PROVE  SessionsInv'
<1>1. Onward /\ RequestsFine /\ WorkersFine /\ Bounded /\ RowsFine
  BY Still DEF SessionsInv
<1>2. LeasesFine'
  BY <1>1, LeasesStay DEF WorkersFine
<1>3. WorkersFine'
  BY <1>1, <1>2, WorkerStepped
<1>4. RequestsFine'
  BY <1>1, RequestsStay
<1> QED BY <1>1, <1>3, <1>4 DEF SessionsInv, Onward, Bounded

LEMMA SelectOK ==
  ASSUME SessionsInv, NEW w \in Worker, SelectPending(w)
  PROVE  SessionsInv'
<1> DEFINE f == [t \in Claimable |-> [row |-> row[t], lease |-> lease[t]]]
<1>1. /\ stage[w] = "idle"
      /\ stage' = [stage EXCEPT ![w] = "claiming"]
      /\ copies' = [copies EXCEPT ![w] = f]
      /\ next' = next /\ locked' = locked
      /\ UNCHANGED <<opened, row, log, arrived>> /\ UNCHANGED <<lease, expired, request, loads>>
      /\ faults' = faults
  BY DEF SelectPending, tables, history
<1>2. WorkersFine /\ WorkerFine(w) /\ RowsFine /\ LeasesFine /\ faults \in 0..MaxFaults
  BY DEF SessionsInv, WorkersFine, Bounded
<1>3. /\ DOMAIN f = Claimable /\ Claimable \subseteq Turn /\ Turn' = Turn
      /\ \A t \in Claimable : f[t] = [row |-> row[t], lease |-> lease[t]]
  BY <1>1 DEF Claimable, Turn
<1>4. \A t \in Claimable : f[t] \in Copy /\ f[t] # Stale /\ f[t].row = row[t]
                           /\ Remembers(t, row[t])
  BY <1>2, <1>3, CopyRead, NotStale
<1>5. f \in [Claimable -> Copy]
  BY <1>4
<1> HIDE DEF f
<1>6. /\ SweepsTyped' /\ \A v \in Worker \ {w} : SameSweep(v)
      /\ stage'[w] = "claiming" /\ copies'[w] = f /\ next'[w] = next[w]
      /\ locked'[w] = locked[w]
  <2>1. Sweeps(w, "claiming", f, next[w], locked[w]) /\ next[w] \in 1..4
    BY <1>1, <1>2, SweepSame DEF Sweeps
  <2> QED BY <2>1, <1>2, SweepStep
<1>7. \A t \in Claimable : Recalls(t, f[t].row)
  BY <1>1, <1>4, RememberStays
<1>8. CopiesFine(w)'
  BY <1>3, <1>5, <1>6, <1>7 DEF CopiesFine, Copy, Remembers, Recalls
<1>9. locked[w] = {}
  BY <1>1, <1>2 DEF WorkerFine
<1>10. WorkerFine(w)'
  BY <1>3, <1>4, <1>6, <1>8, <1>9 DEF WorkerFine, Stale
<1> QED BY <1>1, <1>2, <1>6, <1>10, SweepOnly

LEMMA FlushClaimOK ==
  ASSUME SessionsInv, NEW w \in Worker, FlushClaim(w)
  PROVE  SessionsInv'
<1> DEFINE g == copies[w]
           f == [t \in DOMAIN g |-> [g[t] EXCEPT !.lease = w]]
<1>1. /\ stage[w] = "claiming"
      /\ stage' = [stage EXCEPT ![w] = "working"]
      /\ copies' = [copies EXCEPT ![w] = [t \in DOMAIN copies[w] |-> [@[t] EXCEPT !.lease = w]]]
      /\ next' = [next EXCEPT ![w] = 1] /\ locked' = [locked EXCEPT ![w] = DOMAIN copies[w]]
      /\ UNCHANGED <<opened, row, log, arrived>> /\ UNCHANGED <<lease, expired, request, loads>>
      /\ faults' = faults
  BY DEF FlushClaim, tables, history
<1>2. WorkersFine /\ WorkerFine(w) /\ CopiesFine(w) /\ faults \in 0..MaxFaults
  BY DEF SessionsInv, WorkersFine, Bounded, WorkerFine
<1>3. copies' = [copies EXCEPT ![w] = f]
  BY <1>1
<1>4. \A t \in DOMAIN g : /\ g[t] \in [row : Row(Channel), lease : Worker \cup {NoWorker}]
                          /\ Remembers(t, g[t].row) /\ t \in Turn
  BY <1>1, <1>2 DEF WorkerFine, CopiesFine, Copy
<1>5. DOMAIN f = DOMAIN g /\ \A t \in DOMAIN g : f[t] = [g[t] EXCEPT !.lease = w]
  OBVIOUS
<1>6. ASSUME NEW t \in DOMAIN g
      PROVE  f[t] \in Copy /\ f[t].row = g[t].row
  <2> DEFINE y == g[t]
  <2>1. y \in [row : Row(Channel), lease : Worker \cup {NoWorker}] /\ f[t] = [y EXCEPT !.lease = w]
    BY <1>4, <1>5
  <2> HIDE DEF y, f
  <2>2. /\ f[t] \in [row : Row(Channel), lease : Worker \cup {NoWorker}]
        /\ f[t].row = y.row
    BY <2>1
  <2> QED BY <2>2 DEF Copy, y
<1>7. f \in [DOMAIN g -> Copy]
  BY <1>6
<1> HIDE DEF f, g
<1>8. /\ SweepsTyped' /\ \A v \in Worker \ {w} : SameSweep(v)
      /\ stage'[w] = "working" /\ copies'[w] = f
      /\ locked'[w] = DOMAIN g
  <2>1. Sweeps(w, "working", f, 1, DOMAIN g)
    BY <1>1, <1>3 DEF Sweeps, g
  <2>2. 1 \in 1..4
    OBVIOUS
  <2> QED BY <2>1, <2>2, <1>2, SweepStep
<1>9. \A t \in DOMAIN g : Recalls(t, f[t].row)
  BY <1>1, <1>4, <1>6, RememberStays
<1>10. Turn' = Turn
  BY <1>1 DEF Turn
<1>11. CopiesFine(w)'
  BY <1>4, <1>5, <1>7, <1>8, <1>9, <1>10 DEF CopiesFine, Copy, Remembers, Recalls
<1>12. WorkerFine(w)'
  BY <1>5, <1>8, <1>11 DEF WorkerFine
<1> QED BY <1>1, <1>2, <1>8, <1>12, SweepOnly

\* A copy is read again, if the sweep still has the turn.
LEMMA CopyRenewed ==
  ASSUME SessionsInv, UNCHANGED <<opened, row, log, arrived>>, NEW w \in Worker, NEW t,
         copies'[w] = [copies[w] EXCEPT ![t] = [row |-> row[t], lease |-> lease[t]]]
  PROVE  CopiesFine(w)' /\ DOMAIN copies'[w] = DOMAIN copies[w]
<1> DEFINE g == copies[w]
           z == [row |-> row[t], lease |-> lease[t]]
           f == [g EXCEPT ![t] = z]
<1>1. /\ CopiesFine(w) /\ RowsFine /\ LeasesFine /\ Turn' = Turn
  BY DEF SessionsInv, WorkersFine, WorkerFine, Turn
<1>2. /\ DOMAIN g \subseteq Turn /\ g \in [DOMAIN g -> Copy]
      /\ \A u \in DOMAIN g : g[u] = Stale \/ Remembers(u, g[u].row)
  BY <1>1 DEF CopiesFine
<1>3. t \in DOMAIN g => z \in Copy /\ Remembers(t, z.row)
  BY <1>1, <1>2, CopyRead
<1> HIDE DEF g, z
<1>4. /\ DOMAIN f = DOMAIN g /\ f \in [DOMAIN g -> Copy]
      /\ \A u \in DOMAIN g : f[u] = IF u = t THEN z ELSE g[u]
  BY <1>2, <1>3
<1> HIDE DEF f
<1>5. \A u \in DOMAIN g : f[u] = Stale \/ Remembers(u, f[u].row)
  BY <1>2, <1>3, <1>4
<1>6. \A u \in DOMAIN g : f[u] = Stale \/ Recalls(u, f[u].row)
  BY <1>5, RememberStays
<1>7. copies'[w] = f
  BY DEF f, g, z
<1> QED BY <1>1, <1>2, <1>4, <1>6, <1>7 DEF CopiesFine, Copy, Stale, Remembers, Recalls, g

LEMMA RefreshOK ==
  ASSUME SessionsInv, NEW w \in Worker, RefreshCopy(w)
  PROVE  SessionsInv'
<1> DEFINE t == Current(w)
           p == Len(Plan(row[t]))
           n == IF row[t].reason = "budget_exhausted" THEN p + 1 ELSE next[w] + 1
           z == [row |-> row[t], lease |-> lease[t]]
<1>1. /\ stage[w] = "refreshing"
      /\ stage' = [stage EXCEPT ![w] = "working"]
      /\ copies' = [copies EXCEPT ![w] = [copies[w] EXCEPT ![t] = z]]
      /\ next' = [next EXCEPT ![w] = n] /\ locked' = locked
      /\ UNCHANGED <<opened, row, log, arrived>> /\ UNCHANGED <<lease, expired, request, loads>>
      /\ faults' = faults
  BY DEF RefreshCopy, tables, history
<1>2. /\ WorkersFine /\ WorkerFine(w) /\ CopiesFine(w) /\ RowsFine
      /\ faults \in 0..MaxFaults /\ next[w] \in 1..4
  BY DEF SessionsInv, WorkersFine, Bounded, WorkerFine, SweepsTyped
<1>3. t \in Turn /\ next[w] <= 3
  BY <1>1, <1>2 DEF WorkerFine, CopiesFine
<1>4. row[t] \in Row(Channel)
  BY <1>2, <1>3 DEF RowsFine, TablesOK
<1>5. p \in 0..3
  BY <1>4, PlanLength
<1> HIDE DEF p
<1>6. n \in 1..4
  BY <1>2, <1>3, <1>5
<1> HIDE DEF n, z, t
<1>7. /\ SweepsTyped' /\ \A v \in Worker \ {w} : SameSweep(v)
      /\ stage'[w] = "working" /\ copies'[w] = [copies[w] EXCEPT ![t] = z]
      /\ locked'[w] = locked[w]
  <2>1. Sweeps(w, "working", [copies[w] EXCEPT ![t] = z], n, locked[w])
    BY <1>1, <1>2, SweepSame DEF Sweeps
  <2> QED BY <2>1, <1>2, <1>6, SweepStep
<1>8. CopiesFine(w)' /\ DOMAIN copies'[w] = DOMAIN copies[w]
  BY <1>1, <1>7, CopyRenewed DEF z
<1>9. WorkerFine(w)'
  BY <1>2, <1>7, <1>8 DEF WorkerFine
<1> QED BY <1>1, <1>2, <1>7, <1>9, SweepOnly

LEMMA ReloadOK ==
  ASSUME SessionsInv, NEW w \in Worker, Reload(w)
  PROVE  SessionsInv'
<1> DEFINE t == Current(w)
           z == [row |-> row[t], lease |-> lease[t]]
<1>1. /\ stage[w] = "working" /\ stage' = stage
      /\ copies' = [copies EXCEPT ![w] = [copies[w] EXCEPT ![t] = z]]
      /\ next' = next /\ locked' = locked
      /\ UNCHANGED <<opened, row, log, arrived>> /\ UNCHANGED <<lease, expired, request, loads>>
      /\ faults' = faults
  BY DEF Reload, tables, history
<1>2. /\ WorkersFine /\ WorkerFine(w) /\ faults \in 0..MaxFaults
  BY DEF SessionsInv, WorkersFine, Bounded
<1> HIDE DEF z, t
<1>3. /\ SweepsTyped' /\ \A v \in Worker \ {w} : SameSweep(v)
      /\ stage'[w] = "working" /\ copies'[w] = [copies[w] EXCEPT ![t] = z]
      /\ locked'[w] = locked[w]
  <2>1. Sweeps(w, stage[w], [copies[w] EXCEPT ![t] = z], next[w], locked[w])
    BY <1>1, <1>2, SweepSame DEF Sweeps
  <2> QED BY <2>1, <1>1, <1>2, SweepSame, SweepStep
<1>4. CopiesFine(w)' /\ DOMAIN copies'[w] = DOMAIN copies[w]
  BY <1>1, <1>3, CopyRenewed DEF z
<1>5. WorkerFine(w)'
  BY <1>2, <1>3, <1>4 DEF WorkerFine
<1> QED BY <1>1, <1>2, <1>3, <1>5, SweepOnly

-----------------------------------------------------------------------------
(* The worker's commits.                                                   *)

\* The worker has the readable copy r of turn t.
Reads(w, t, r) ==
  /\ t \in DOMAIN copies[w] /\ copies[w][t] # Stale /\ r = copies[w][t].row
  /\ t = Current(w)

LEMMA ReadCopy ==
  ASSUME SessionsInv, NEW w \in Worker, NEW t, NEW r, Reads(w, t, r)
  PROVE  /\ t \in Turn /\ Remembers(t, r) /\ r \in Row(Channel)
         /\ copies[w][t].lease \in Worker \cup {NoWorker}
         /\ ~IsTerminal(r) => OpenCopy(r)
<1>1. t \in Turn /\ Remembers(t, r) /\ copies[w][t] \in Copy
  BY DEF SessionsInv, WorkersFine, WorkerFine, CopiesFine, Reads
<1>2. copies[w][t] \in [row : Row(Channel), lease : Worker \cup {NoWorker}]
  BY <1>1 DEF Copy, Reads
<1>3. r \in Row(Channel) /\ copies[w][t].lease \in Worker \cup {NoWorker}
  BY <1>2 DEF Reads
<1> QED BY <1>1, <1>3, OpenFromCopy

\* What the commit of a worker does to the rows.
LEMMA WorkerRows ==
  ASSUME SessionsInv, NEW w \in Worker, NEW t, NEW r, Reads(w, t, r), ~IsTerminal(r),
         NEW x, Allowed(r, x, r.by), WorkerWrites(w, t, x)
  PROVE  Onward /\ RequestsFine'
<1>1. t \in Turn /\ Remembers(t, r)
  BY ReadCopy
<1>2. /\ row' = [row EXCEPT ![t] = Flush(@, r, x.row)]
      /\ log' = [log EXCEPT ![t] = AppendStep(@, x.step)]
      /\ opened' = opened /\ arrived' = arrived /\ request' = request
  BY DEF WorkerWrites, Reads
<1>3. RowsFine' /\ RowsGrow
  BY <1>1, <1>2, RowWritten DEF SessionsInv
<1>4. Onward
  BY <1>2, <1>3, TablesAssumption DEF Onward, SessionsInv, RowsFine, TablesOK
<1> QED BY <1>2, <1>4, RequestsStay DEF SessionsInv

\* Writing a copy back as it is writes nothing.
LEMMA NothingWritten ==
  ASSUME SessionsInv, NEW w \in Worker, NEW t, NEW r, Reads(w, t, r),
         WorkerWrites(w, t, [row |-> r, step |-> NoStep])
  PROVE  UNCHANGED <<opened, row, log, arrived>>
<1>1. t \in Turn /\ r \in Row(Channel)
  BY ReadCopy
<1>2. /\ row \in [Turn -> Row(Channel)] /\ log \in [Turn -> Log]
  BY DEF SessionsInv, RowsFine, TablesOK
<1>3. /\ row' = [row EXCEPT ![t] = Flush(row[t], r, r)]
      /\ log' = [log EXCEPT ![t] = AppendStep(log[t], NoStep)]
      /\ opened' = opened /\ arrived' = arrived
  BY DEF WorkerWrites, Reads
<1>4. Flush(row[t], r, r) = row[t]
  <2> DEFINE q == row[t]
  <2>1. q \in Row(Channel)
    BY <1>1, <1>2
  <2> HIDE DEF q
  <2>2. q = [f \in DOMAIN q |-> q[f]]
    BY <2>1 DEF Row
  <2>3. Flush(q, r, r) = q
    BY <2>2 DEF Flush
  <2> QED BY <2>3 DEF q
<1>5. AppendStep(log[t], NoStep) = log[t]
  <2> DEFINE l == log[t]
             f == l.tools
             g == l.notes
  <2>1. l \in Log
    BY <1>1, <1>2
  <2> HIDE DEF l
  <2>2. /\ f \in [1..MaxBudget -> Nat] /\ g \in [NoteKind -> Nat]
        /\ l = [tools |-> f, notes |-> g]
    BY <2>1 DEF Log
  <2>3. NoStep.tool = 0 /\ NoStep.note = "none" /\ "none" \notin NoteKind /\ 0 \notin 1..MaxBudget
    BY DEF NoStep, NoteKind, MaxBudget
  <2>4. AppendStep(l, NoStep) =
          [tools |-> [n \in 1..MaxBudget |-> IF n = NoStep.tool THEN f[n] + 1 ELSE f[n]],
           notes |-> [k \in NoteKind |-> IF k = NoStep.note THEN g[k] + 1 ELSE g[k]]]
    BY DEF AppendStep
  <2> HIDE DEF f, g
  <2>5. [n \in 1..MaxBudget |-> IF n = NoStep.tool THEN f[n] + 1 ELSE f[n]] = f
    BY <2>2, <2>3
  <2>6. [k \in NoteKind |-> IF k = NoStep.note THEN g[k] + 1 ELSE g[k]] = g
    BY <2>2, <2>3
  <2> QED BY <2>2, <2>4, <2>5, <2>6 DEF l
<1>6. row' = row
  BY <1>2, <1>3, <1>4
<1>7. log' = log
  BY <1>2, <1>3, <1>5
<1> QED BY <1>3, <1>6, <1>7

LEMMA AdvanceOK ==
  ASSUME SessionsInv, NEW w \in Worker, WorkerAdvance(w)
  PROVE  SessionsInv'
<1>1. PICK t \in DOMAIN copies[w] : \E r \in {copies[w][t].row} :
        /\ Holds(w, t, r)
        /\ next[w] <= Len(Plan(r)) /\ ~Exhausted(r)
        /\ CanAdvance(r, Plan(r)[next[w]])
        /\ WorkerWrites(w, t, Advanced(r))
        /\ lease' = [u \in Turn |-> LeasedBy(w, u)]
        /\ expired' = expired \ locked[w]
        /\ stage' = [stage EXCEPT ![w] = "refreshing"]
        /\ UNCHANGED <<copies, next>>
  BY DEF WorkerAdvance
<1> DEFINE r == copies[w][t].row
<1>2. /\ Reads(w, t, r) /\ next[w] <= Len(Plan(r))
      /\ CanAdvance(r, Plan(r)[next[w]]) /\ ~IsTerminal(r)
      /\ WorkerWrites(w, t, Advanced(r))
      /\ lease' = [u \in Turn |-> LeasedBy(w, u)] /\ expired' = expired \ locked[w]
      /\ stage' = [stage EXCEPT ![w] = "refreshing"]
      /\ copies' = copies /\ next' = next
  BY <1>1 DEF Holds, Reads, CanAdvance
<1> HIDE DEF r
<1>3. /\ opened' = opened /\ request' = request /\ loads' = loads /\ faults' = faults
      /\ locked' = [locked EXCEPT ![w] = {}]
  BY <1>2 DEF WorkerWrites
<1>4. /\ WorkersFine /\ WorkerFine(w) /\ LeasesFine /\ Bounded /\ next[w] \in 1..4
  BY DEF SessionsInv, WorkersFine, SweepsTyped
<1>5. t \in Turn /\ r \in Row(Channel) /\ OpenCopy(r)
  BY <1>2, ReadCopy
<1>6. Allowed(r, Advanced(r), r.by)
  BY <1>2, <1>5, AdvancedAllowed
<1>7. Onward /\ RequestsFine'
  BY <1>2, <1>6, WorkerRows
<1>8. /\ SweepsTyped' /\ \A v \in Worker \ {w} : SameSweep(v)
      /\ stage'[w] = "refreshing" /\ copies'[w] = copies[w] /\ next'[w] = next[w]
      /\ locked'[w] = {}
  <2>1. Sweeps(w, "refreshing", copies[w], next[w], {})
    BY <1>2, <1>3, <1>4, SweepSame DEF Sweeps
  <2> QED BY <2>1, <1>4, SweepStep
<1>9. next[w] <= 3
  <2>1. Len(Plan(r)) \in 0..3
    BY <1>5, PlanLength
  <2> QED BY <2>1, <1>2, <1>4
<1>10. Current(w)' \in DOMAIN copies'[w]
  BY <1>1, <1>2, <1>8, CurrentIs DEF Reads
<1>11. CopiesFine(w)'
  BY <1>4, <1>7, <1>8, CopiesKept DEF WorkerFine
<1>12. WorkerFine(w)'
  BY <1>8, <1>9, <1>10, <1>11 DEF WorkerFine
<1>13. LeasesFine'
  <2>1. \A u \in Turn : /\ LeasedBy(w, u) \in Worker \cup {NoWorker}
                        /\ u \notin locked[w] => LeasedBy(w, u) = lease[u]
    BY <1>4 DEF LeasesFine, LeasedBy
  <2>2. Turn' = Turn
    BY <1>3 DEF Turn
  <2>3. lease' \in [Turn -> Worker \cup {NoWorker}]
    BY <1>2, <2>1
  <2>4. \A u \in expired \ locked[w] : u \in Turn /\ lease'[u] # NoWorker
    BY <1>2, <1>4, <2>1 DEF LeasesFine
  <2> QED BY <1>2, <2>2, <2>3, <2>4 DEF LeasesFine
<1>14. WorkersFine'
  BY <1>4, <1>7, <1>8, <1>12, <1>13, WorkerStepped
<1> QED BY <1>3, <1>4, <1>7, <1>14 DEF SessionsInv, Onward, Bounded

LEMMA SweepMoved ==
  ASSUME WorkersFine, NEW w \in Worker, NEW t, NEW f, MoveOn(w, t, f),
         locked' = [locked EXCEPT ![w] = {}]
  PROVE  /\ SweepsTyped' /\ \A v \in Worker \ {w} : SameSweep(v)
         /\ stage'[w] = (IF f = <<>> THEN "idle" ELSE "working")
         /\ copies'[w] = f /\ next'[w] = 1 /\ locked'[w] = {}
<1> DEFINE a == IF f = <<>> THEN "idle" ELSE "working"
           n == 1
<1>1. Sweeps(w, a, f, n, {})
  BY DEF Sweeps, MoveOn
<1>2. a \in {"idle", "claiming", "working", "refreshing"}
  OBVIOUS
<1>3. n \in 1..4
  OBVIOUS
<1> HIDE DEF a, n
<1>4. /\ SweepsTyped' /\ \A v \in Worker \ {w} : SameSweep(v)
      /\ stage'[w] = a /\ copies'[w] = f /\ next'[w] = n /\ locked'[w] = {}
  BY <1>1, <1>2, <1>3, SweepStep
<1> QED BY <1>4 DEF a, n

\* A sweep goes on with what is left of its batch, or with copies to reload.
LeftOf(f, w) ==
  /\ DOMAIN f \subseteq DOMAIN copies[w]
  /\ f = [u \in DOMAIN f |-> f[u]]
  /\ \A u \in DOMAIN f : f[u] = copies[w][u] \/ f[u] = Stale

LEMMA MovedOn ==
  ASSUME SessionsInv, Onward, NEW w \in Worker, NEW t, NEW f, MoveOn(w, t, f),
         LeftOf(f, w), locked' = [locked EXCEPT ![w] = {}], LeasesFine'
  PROVE  WorkersFine'
<1> DEFINE a == IF f = <<>> THEN "idle" ELSE "working"
<1>1. WorkersFine /\ WorkerFine(w) /\ CopiesFine(w)
  BY DEF SessionsInv, WorkersFine, WorkerFine
<1>2. /\ SweepsTyped' /\ \A v \in Worker \ {w} : SameSweep(v)
      /\ stage'[w] = a /\ copies'[w] = f /\ locked'[w] = {}
  BY <1>1, SweepMoved
<1>3. /\ DOMAIN copies[w] \subseteq Turn
      /\ \A u \in DOMAIN copies[w] : copies[w][u] \in Copy
      /\ \A u \in DOMAIN copies[w] : copies[w][u] = Stale \/ Remembers(u, copies[w][u].row)
  BY <1>1 DEF CopiesFine
<1>4. \A u \in DOMAIN f : f[u] = Stale \/ Recalls(u, f[u].row)
  BY <1>3, RememberKept DEF LeftOf
<1>5. f \in [DOMAIN f -> Copy]
  <2>1. \A u \in DOMAIN f : f[u] \in Copy
    BY <1>3 DEF Copy, LeftOf
  <2> QED BY <2>1 DEF LeftOf
<1>6. DOMAIN f \subseteq Turn'
  BY <1>3, OnwardTurns DEF LeftOf
<1>7. CopiesFine(w)'
  BY <1>2, <1>4, <1>5, <1>6 DEF CopiesFine, Copy, Stale, Remembers, Recalls
<1>8. stage'[w] = "idle" => DOMAIN copies'[w] = {}
  <2>1. stage'[w] = "idle" => f = <<>>
    BY <1>2
  <2>2. DOMAIN <<>> = {}
    OBVIOUS
  <2> QED BY <1>2, <2>1, <2>2
<1>9. stage'[w] \in {"idle", "working"}
  BY <1>2
<1>10. WorkerFine(w)'
  BY <1>2, <1>7, <1>8, <1>9 DEF WorkerFine
<1> QED BY <1>1, <1>2, <1>10, WorkerStepped

\* The last commit of a turn.
LEMMA FinishOK ==
  ASSUME SessionsInv, NEW w \in Worker, NEW t, NEW r, Reads(w, t, r), NEW x,
         FinishTurn(w, t, x), Onward, RequestsFine'
  PROVE  SessionsInv'
<1> DEFINE U == IF copies[w][t].lease = NoWorker THEN {} ELSE {t}
           f == Without(copies[w], t)
<1>1. /\ WorkerWrites(w, t, x)
      /\ lease' = [u \in Turn |-> IF u \in U THEN NoWorker ELSE LeasedBy(w, u)]
      /\ expired' = expired \ (locked[w] \cup U)
      /\ MoveOn(w, t, f)
  BY DEF FinishTurn
<1>2. /\ opened' = opened /\ loads' = loads /\ faults' = faults
      /\ locked' = [locked EXCEPT ![w] = {}]
  BY <1>1 DEF WorkerWrites
<1>3. LeasesFine /\ Bounded
  BY DEF SessionsInv, WorkersFine
<1> HIDE DEF U
<1>4. LeasesFine'
  <2>1. \A u \in Turn : /\ LeasedBy(w, u) \in Worker \cup {NoWorker}
                        /\ u \notin locked[w] => LeasedBy(w, u) = lease[u]
    BY <1>3 DEF LeasesFine, LeasedBy
  <2>2. Turn' = Turn
    BY <1>2 DEF Turn
  <2>3. lease' \in [Turn -> Worker \cup {NoWorker}]
    BY <1>1, <2>1
  <2>4. \A u \in expired \ (locked[w] \cup U) : u \in Turn /\ lease'[u] # NoWorker
    BY <1>1, <1>3, <2>1 DEF LeasesFine
  <2> QED BY <1>1, <2>2, <2>3, <2>4 DEF LeasesFine
<1>5. LeftOf(f, w)
  BY DEF Without, LeftOf
<1>6. WorkersFine'
  BY <1>1, <1>2, <1>4, <1>5, MovedOn
<1> QED BY <1>2, <1>3, <1>6 DEF SessionsInv, Onward, Bounded

\* The five ways in which the worker is done with a turn.
Finishes(w) ==
  LeaveClosed(w) \/ FinishPlan(w) \/ StopExhausted(w) \/ FailStep(w) \/ ToolFails(w)

\* The worker commits what its ending makes of the copy, or nothing.
Ends(w, t, r, x) ==
  /\ Reads(w, t, r) /\ stage[w] = "working" /\ FinishTurn(w, t, x)
  /\ IF IsTerminal(r) THEN x = [row |-> r, step |-> NoStep]
                      ELSE Allowed(r, x, r.by)

LEMMA FinishCases ==
  ASSUME SessionsInv, NEW w \in Worker, Finishes(w)
  PROVE  \E t, r, x : Ends(w, t, r, x)
<1>1. ASSUME NEW t \in DOMAIN copies[w], NEW r \in {copies[w][t].row}, Holds(w, t, r)
      PROVE  Reads(w, t, r) /\ stage[w] = "working" /\ (~IsTerminal(r) => OpenCopy(r))
  <2>1. Reads(w, t, r) /\ stage[w] = "working"
    BY <1>1 DEF Holds, Reads
  <2> QED BY <2>1, ReadCopy
<1>2. CASE LeaveClosed(w)
  BY <1>1, <1>2 DEF LeaveClosed, Ends
<1>3. CASE FinishPlan(w)
  BY <1>1, <1>3, EndingsAllowed DEF FinishPlan, Ends
<1>4. CASE StopExhausted(w)
  BY <1>1, <1>4, EndingsAllowed DEF StopExhausted, Ends
<1>5. CASE FailStep(w)
  BY <1>1, <1>5, EndingsAllowed DEF FailStep, Ends
<1>6. CASE ToolFails(w)
  BY <1>1, <1>6, EndingsAllowed DEF ToolFails, Ends
<1> QED BY <1>2, <1>3, <1>4, <1>5, <1>6 DEF Finishes

LEMMA EndsOK ==
  ASSUME SessionsInv, NEW w \in Worker, NEW t, NEW r, NEW x, Ends(w, t, r, x)
  PROVE  SessionsInv'
<1>1. Reads(w, t, r) /\ FinishTurn(w, t, x) /\ WorkerWrites(w, t, x)
  BY DEF Ends, FinishTurn
<1>2. Onward /\ RequestsFine'
  <2>1. CASE IsTerminal(r)
    <3>1. x = [row |-> r, step |-> NoStep]
      BY <2>1 DEF Ends
    <3>2. UNCHANGED <<opened, row, log, arrived>>
      BY <1>1, <3>1, NothingWritten
    <3>3. request' = request
      BY <1>1 DEF WorkerWrites
    <3> QED BY <3>2, <3>3, Still, RequestsStay DEF SessionsInv
  <2>2. CASE ~IsTerminal(r)
    <3>1. Allowed(r, x, r.by)
      BY <2>2 DEF Ends
    <3> QED BY <1>1, <2>2, <3>1, WorkerRows
  <2> QED BY <2>1, <2>2
<1> QED BY <1>1, <1>2, FinishOK

LEMMA RollBackOK ==
  ASSUME SessionsInv, NEW w \in Worker, RollBack(w)
  PROVE  SessionsInv'
<1>0. PICK t \in DOMAIN copies[w] : MoveOn(w, t, [u \in DOMAIN copies[w] \ {t} |-> Stale])
  BY DEF RollBack
<1> DEFINE f == [u \in DOMAIN copies[w] \ {t} |-> Stale]
<1>1. /\ MoveOn(w, t, f)
      /\ locked' = [locked EXCEPT ![w] = {}]
      /\ faults < MaxFaults /\ faults' = faults + 1 /\ loads' = loads
      /\ UNCHANGED <<opened, row, log, arrived>> /\ UNCHANGED <<opened, lease, expired>>
      /\ request' = request
  BY <1>0 DEF RollBack, tables
<1>2. Onward /\ RequestsFine' /\ LeasesFine'
  BY <1>1, Still, RequestsStay, LeasesStay DEF SessionsInv, WorkersFine
<1>3. WorkersFine'
  <2>1. LeftOf(f, w)
    BY DEF LeftOf
  <2> HIDE DEF f
  <2> QED BY <1>1, <1>2, <2>1, MovedOn
<1>4. Bounded'
  BY <1>1, TurnSessionsAssumption DEF Bounded, SessionsInv
<1> QED BY <1>2, <1>3, <1>4 DEF SessionsInv, Onward

LEMMA CrashOK ==
  ASSUME SessionsInv, NEW w \in Worker, Crash(w)
  PROVE  SessionsInv'
<1>1. /\ Sweeps(w, "idle", <<>>, 1, {}) /\ 1 \in 1..4
      /\ faults < MaxFaults /\ faults' = faults + 1
      /\ UNCHANGED <<opened, row, log, arrived>> /\ UNCHANGED <<lease, expired, request, loads>>
  BY DEF Crash, tables, Sweeps
<1>2. WorkersFine /\ Bounded
  BY DEF SessionsInv
<1>3. /\ SweepsTyped' /\ \A v \in Worker \ {w} : SameSweep(v)
      /\ stage'[w] = "idle" /\ copies'[w] = <<>> /\ locked'[w] = {}
  BY <1>1, <1>2, SweepStep
<1>4. DOMAIN <<>> = {} /\ <<>> \in [{} -> Copy]
  OBVIOUS
<1>5. CopiesFine(w)'
  BY <1>3, <1>4 DEF CopiesFine, Copy
<1>6. WorkerFine(w)'
  BY <1>3, <1>4, <1>5 DEF WorkerFine
<1>7. faults' \in 0..MaxFaults
  BY <1>1, <1>2, TurnSessionsAssumption DEF Bounded
<1> QED BY <1>1, <1>3, <1>6, <1>7, SweepOnly

LEMMA ExpireOK ==
  ASSUME SessionsInv, NEW t \in Turn, ExpireLease(t)
  PROVE  SessionsInv'
<1>1. /\ lease[t] # NoWorker /\ expired' = expired \cup {t} /\ lease' = lease
      /\ UNCHANGED <<opened, row, log, arrived>> /\ UNCHANGED workers
      /\ UNCHANGED <<request, loads, faults>>
  BY DEF ExpireLease, tables, history
<1>2. Onward /\ RequestsFine'
  BY <1>1, Still, RequestsStay DEF SessionsInv
<1>3. LeasesFine'
  BY <1>1 DEF SessionsInv, WorkersFine, LeasesFine, Turn
<1>4. WorkersFine'
  BY <1>1, <1>2, <1>3, WorkersStay DEF SessionsInv
<1> QED BY <1>1, <1>2, <1>4 DEF SessionsInv, Onward, Bounded

-----------------------------------------------------------------------------
LEMMA SessionsInitOK == SessionsInit => SessionsInv
<1> SUFFICES ASSUME SessionsInit PROVE SessionsInv
  OBVIOUS
<1>1. /\ opened = 0 /\ row = <<>> /\ log = <<>> /\ Turn = {} /\ lease = <<>> /\ expired = {}
      /\ request = [s \in Request |-> Idle] /\ stage = [w \in Worker |-> "idle"]
      /\ copies = [w \in Worker |-> <<>>] /\ next = [w \in Worker |-> 1]
      /\ locked = [w \in Worker |-> {}] /\ loads = 0 /\ faults = 0 /\ arrived = <<>>
  BY DEF SessionsInit, NoTurns, Turn
<1>2. RowsFine
  BY <1>1, TablesAssumption DEF RowsFine, TablesOK, OvertakenIsClosed
<1>3. RequestsFine
  <2>1. Arriving = {}
    BY <1>1, OpsDiffer DEF Arriving
  <2>2. Cardinality(Arriving) = 0
    BY <2>1, FS_EmptySet
  <2>3. \A s \in Request : RequestFine(s)
    BY <1>1 DEF RequestFine
  <2> QED BY <1>1, <2>2, <2>3, TablesAssumption DEF RequestsFine
<1>4. LeasesFine
  BY <1>1 DEF LeasesFine
<1>5. SweepsTyped
  BY <1>1 DEF SweepsTyped
<1>6. ASSUME NEW w \in Worker PROVE WorkerFine(w)
  <2>1. copies[w] = <<>> /\ locked[w] = {} /\ stage[w] = "idle"
    BY <1>1
  <2>2. DOMAIN <<>> = {} /\ <<>> \in [{} -> Copy]
    OBVIOUS
  <2>3. CopiesFine(w)
    BY <2>1, <2>2 DEF CopiesFine
  <2> QED BY <2>1, <2>2, <2>3 DEF WorkerFine
<1>7. Bounded
  BY <1>1, TurnSessionsAssumption DEF Bounded
<1> QED BY <1>2, <1>3, <1>4, <1>5, <1>6, <1>7 DEF SessionsInv, WorkersFine

LEMMA SessionsStepOK == SessionsInv /\ [SessionsNext]_sessionVars => SessionsInv'
<1> SUFFICES ASSUME SessionsInv, [SessionsNext]_sessionVars PROVE SessionsInv'
  OBVIOUS
<1>1. ASSUME NEW s \in Request, RequestStep(s)
      PROVE  SessionsInv'
  <2>1. ASSUME SaveTurn(s) PROVE SessionsInv'
    BY <2>1, SaveCases, SaveOK
  <2>2. ASSUME SaveEvent(s) PROVE SessionsInv'
    BY <2>2, SaveEventOK
  <2>3. ASSUME NEW t \in Turn, LoadTurn(s, t) PROVE SessionsInv'
    BY <2>3, LoadOK
  <2>4. ASSUME NEW c \in Channel, NEW k \in Kinds, NEW a \in Acts \cup {"pass"},
               InsertEvent(s, c, k, a)
        PROVE  SessionsInv'
    BY <2>4, InsertEventOK
  <2>5. ASSUME SelectOpen(s) PROVE SessionsInv'
    BY <2>5, SelectOpenOK
  <2>6. ASSUME Refuse(s) PROVE SessionsInv'
    BY <2>6, RefuseOK
  <2> QED BY <1>1, <2>1, <2>2, <2>3, <2>4, <2>5, <2>6 DEF RequestStep, SaveTurn
<1>2. ASSUME NEW w \in Worker, Finishes(w)
      PROVE  SessionsInv'
  BY <1>2, FinishCases, EndsOK
<1>3. ASSUME NEW w \in Worker, WorkerStep(w)
      PROVE  SessionsInv'
  BY <1>2, <1>3, SelectOK, FlushClaimOK, AdvanceOK, RefreshOK, ReloadOK DEF WorkerStep, Finishes
<1>4. ASSUME NEW w \in Worker, ToolFails(w)
      PROVE  SessionsInv'
  BY <1>2, <1>4 DEF Finishes
<1>5. ASSUME NEW w \in Worker, RollBack(w) \/ Crash(w)
      PROVE  SessionsInv'
  BY <1>5, RollBackOK, CrashOK
<1>6. ASSUME NEW t \in Turn, ExpireLease(t)
      PROVE  SessionsInv'
  BY <1>6, ExpireOK
<1>7. CASE UNCHANGED sessionVars
  <2>1. /\ UNCHANGED <<opened, row, log, arrived>> /\ UNCHANGED <<opened, lease, expired>>
        /\ UNCHANGED workers /\ UNCHANGED <<request, loads, faults>>
    BY <1>7 DEF sessionVars, workers
  <2>2. Onward /\ RequestsFine' /\ LeasesFine'
    BY <2>1, Still, RequestsStay, LeasesStay DEF SessionsInv, WorkersFine
  <2>3. WorkersFine'
    BY <2>1, <2>2, WorkersStay DEF SessionsInv
  <2> QED BY <2>1, <2>2, <2>3 DEF SessionsInv, Onward, Bounded
<1> QED BY <1>1, <1>3, <1>4, <1>5, <1>6, <1>7 DEF SessionsNext

LEMMA SessionsInvariance == SessionsSpec => []SessionsInv
BY SessionsInitOK, SessionsStepOK, PTL DEF SessionsSpec

\* Stale counters written over each other never charge a turn with a step that
\* its transcript does not show, nor beyond its budget, and number no step
\* beyond it.  Steps charged once may have been done more than once.
THEOREM ChargeIsHonest == SessionsSpec => []NeverOvercharged
<1>1. SessionsInv => NeverOvercharged
  BY DEF SessionsInv, RowsFine, RowFine, NeverOvercharged
<1> QED BY <1>1, SessionsInvariance, PTL

\* What no stale copy undoes, however the sessions interleave, workers die
\* and transactions fail.
THEOREM StaleCopiesSurvived == SessionsSpec => []SurvivesStaleCopies
<1>1. SessionsInv => SurvivesStaleCopies
  <2> SUFFICES ASSUME SessionsInv PROVE SurvivesStaleCopies
    OBVIOUS
  <2>1. \A t \in Turn : RowFine(row[t], log[t]) /\ (row[t].by # 0 => NamesNewer(t))
    BY DEF SessionsInv, RowsFine
  <2>2. DecisionWasAsked
    BY <2>1 DEF RowFine, Decided, DecisionWasAsked
  <2>3. PassIsKept
    BY <2>1 DEF RowFine, PassIsKept
  <2>4. DisplacedByActing
    BY <2>1 DEF RowFine, NamesNewer, DisplacedByActing
  <2>5. OvertakenIsClosed
    BY DEF SessionsInv, RowsFine
  <2> QED BY <2>2, <2>3, <2>4, <2>5 DEF SurvivesStaleCopies
<1> QED BY <1>1, SessionsInvariance, PTL

-----------------------------------------------------------------------------
(* Leases, also of workers that fail.                                      *)

\* A leased turn is in its worker's batch, or was given up by a failure.  A
\* copy that shows no lease after the claim tells the truth: its last commit
\* has none to release.  A sweep that has rolled back holds no lock.
LeaseFine(w) ==
  /\ \A t \in Turn : lease[t] = w => t \in DOMAIN copies[w] \/ t \in givenUp
  /\ \A t \in DOMAIN copies[w] :
       IF copies[w][t] = Stale THEN locked[w] = {}
       ELSE (stage[w] # "claiming" /\ copies[w][t].lease = NoWorker
               => lease[t] # w /\ t \notin locked[w])
  /\ stage[w] # "working" => locked[w] = {}

LeaseInv == givenUp \subseteq Turn /\ \A w \in Worker : LeaseFine(w)

\* A sweep that does not move keeps its leases, if nobody else gives it one.
LEMMA LeaseKept ==
  ASSUME SessionsInv, NEW w \in Worker, LeaseFine(w), SameSweep(w), Turn \subseteq Turn',
         \A t \in Turn' :
           lease'[t] = w => t \in Turn /\ lease[t] = w /\ (t \in givenUp => t \in givenUp')
  PROVE  LeaseFine(w)'
<1>1. DOMAIN copies[w] \subseteq Turn
  BY DEF SessionsInv, WorkersFine, WorkerFine, CopiesFine
<1>2. \A t \in DOMAIN copies[w] : lease'[t] = w => lease[t] = w
  BY <1>1
<1> QED BY <1>1, <1>2 DEF LeaseFine, SameSweep

\* A worker's step and what it does to the leases of the others.
LeaseStepped(w) ==
  /\ LeaseFine(w)' /\ opened' = opened
  /\ \A v \in Worker \ {w} : SameSweep(v)
  /\ \A v \in Worker \ {w} : \A t \in Turn :
       lease'[t] = v => lease[t] = v /\ (t \in givenUp => t \in givenUp')

LEMMA LeaseStepOK ==
  ASSUME SessionsInv, \A v \in Worker : LeaseFine(v), NEW w \in Worker, LeaseStepped(w)
  PROVE  \A v \in Worker : LeaseFine(v)'
<1>1. Turn' = Turn
  BY DEF LeaseStepped, Turn
<1>2. \A v \in Worker \ {w} : LeaseFine(v)'
  BY <1>1, LeaseKept DEF LeaseStepped
<1> QED BY <1>2 DEF LeaseStepped

LEMMA LeaseSelect ==
  ASSUME SessionsInv, NEW w \in Worker, LeaseFine(w), SelectPending(w)
  PROVE  LeaseStepped(w)
<1> DEFINE f == [t \in Claimable |-> [row |-> row[t], lease |-> lease[t]]]
<1>1. /\ stage[w] = "idle" /\ lease' = lease /\ opened' = opened /\ givenUp' = givenUp
      /\ Sweeps(w, "claiming", f, next[w], locked[w]) /\ next[w] \in 1..4
      /\ WorkersFine /\ WorkerFine(w)
  BY SweepSame DEF SelectPending, tables, history, SessionsInv, WorkersFine, Sweeps
<1>2. \A t \in Claimable : f[t] # Stale
  BY NotStale
<1>3. DOMAIN f = Claimable
  OBVIOUS
<1> HIDE DEF f
<1>4. /\ \A v \in Worker \ {w} : SameSweep(v)
      /\ stage'[w] = "claiming" /\ copies'[w] = f /\ locked'[w] = locked[w]
  BY <1>1, SweepStep
<1>5. locked[w] = {} /\ \A t \in Turn : lease[t] = w => t \in givenUp
  BY <1>1 DEF LeaseFine, WorkerFine
<1>6. Turn' = Turn
  BY <1>1 DEF Turn
<1>7. LeaseFine(w)'
  BY <1>1, <1>2, <1>3, <1>4, <1>5, <1>6 DEF LeaseFine, Stale
<1> QED BY <1>1, <1>4, <1>7 DEF LeaseStepped

LEMMA LeaseClaim ==
  ASSUME SessionsInv, NEW w \in Worker, LeaseFine(w), FlushClaim(w)
  PROVE  LeaseStepped(w)
<1> DEFINE g == copies[w]
           f == [t \in DOMAIN g |-> [g[t] EXCEPT !.lease = w]]
<1>1. /\ stage[w] = "claiming" /\ lease' = lease /\ opened' = opened /\ givenUp' = givenUp
      /\ WorkersFine /\ WorkerFine(w) /\ CopiesFine(w)
  BY DEF FlushClaim, tables, history, SessionsInv, WorkersFine, WorkerFine
<1>2. Sweeps(w, "working", f, 1, DOMAIN g)
  BY DEF FlushClaim, Sweeps
<1>3. ASSUME NEW t \in DOMAIN g
      PROVE  f[t] # Stale /\ f[t].lease = w
  <2> DEFINE y == g[t]
  <2>1. y \in [row : Row(Channel), lease : Worker \cup {NoWorker}] /\ f[t] = [y EXCEPT !.lease = w]
    BY <1>1 DEF WorkerFine, CopiesFine, Copy
  <2> HIDE DEF y, f
  <2>2. f[t] = [row |-> y.row, lease |-> w]
    BY <2>1
  <2>3. f[t] # Stale
    BY <2>2, NotStale
  <2> QED BY <2>2, <2>3
<1>4. DOMAIN f = DOMAIN g
  OBVIOUS
<1> HIDE DEF f
<1>5. /\ \A v \in Worker \ {w} : SameSweep(v)
      /\ stage'[w] = "working" /\ copies'[w] = f /\ locked'[w] = DOMAIN g
  <2>1. 1 \in 1..4
    OBVIOUS
  <2> HIDE DEF g
  <2> QED BY <1>1, <1>2, <2>1, SweepStep
<1>6. Turn' = Turn /\ w # NoWorker
  BY <1>1, TurnSessionsAssumption DEF Turn
<1>7. LeaseFine(w)'
  BY <1>1, <1>3, <1>4, <1>5, <1>6 DEF LeaseFine, Stale
<1> QED BY <1>1, <1>5, <1>7 DEF LeaseStepped

LEMMA LeaseReread ==
  ASSUME SessionsInv, NEW w \in Worker, LeaseFine(w), RefreshCopy(w) \/ Reload(w)
  PROVE  LeaseStepped(w)
<1> DEFINE t == Current(w)
           z == [row |-> row[t], lease |-> lease[t]]
           f == [copies[w] EXCEPT ![t] = z]
<1>1. /\ lease' = lease /\ opened' = opened /\ givenUp' = givenUp
      /\ WorkersFine /\ WorkerFine(w) /\ CopiesFine(w)
  BY DEF RefreshCopy, Reload, tables, history, SessionsInv, WorkersFine, WorkerFine
<1>2. SessionsInv'
  BY RefreshOK, ReloadOK
<1>3. /\ stage'[w] = "working" /\ copies'[w] = f /\ locked'[w] = locked[w]
      /\ \A v \in Worker \ {w} : SameSweep(v)
  <2>1. CASE RefreshCopy(w)
    BY <1>1, <2>1 DEF RefreshCopy, SweepsTyped, WorkersFine, SameSweep
  <2>2. CASE Reload(w)
    BY <1>1, <2>2 DEF Reload, SweepsTyped, WorkersFine, SameSweep
  <2> QED BY <2>1, <2>2
<1>4. t \in DOMAIN copies[w] => stage[w] = "refreshing" \/ copies[w][t] = Stale
  <2>1. CASE RefreshCopy(w)
    BY <2>1 DEF RefreshCopy
  <2>2. CASE Reload(w)
    BY <2>2 DEF Reload
  <2> QED BY <2>1, <2>2
<1>5. t \in DOMAIN copies[w] => locked[w] = {}
  BY <1>4 DEF LeaseFine
<1>6. z # Stale /\ z.lease = lease[t]
  BY NotStale
<1>7. w # NoWorker /\ Turn' = Turn
  BY <1>1, TurnSessionsAssumption DEF Turn
<1>8. stage[w] \in {"working", "refreshing"}
  BY DEF RefreshCopy, Reload
<1> HIDE DEF z, t
<1>9. /\ DOMAIN f = DOMAIN copies[w]
      /\ \A u \in DOMAIN copies[w] : f[u] = IF u = t THEN z ELSE copies[w][u]
  BY <1>1 DEF CopiesFine
<1> HIDE DEF f
<1>10. LeaseFine(w)'
  BY <1>1, <1>3, <1>5, <1>6, <1>7, <1>8, <1>9 DEF LeaseFine, Stale
<1> QED BY <1>1, <1>3, <1>10 DEF LeaseStepped

LEMMA LeaseAdvance ==
  ASSUME SessionsInv, NEW w \in Worker, LeaseFine(w), WorkerAdvance(w)
  PROVE  LeaseStepped(w)
<1>1. /\ stage[w] = "working"
      /\ lease' = [u \in Turn |-> LeasedBy(w, u)]
      /\ stage' = [stage EXCEPT ![w] = "refreshing"]
      /\ copies' = copies /\ next' = next /\ opened' = opened
      /\ locked' = [locked EXCEPT ![w] = {}] /\ givenUp' = givenUp \ locked[w]
  BY DEF WorkerAdvance, WorkerWrites, Holds
<1>2. WorkersFine /\ WorkerFine(w) /\ CopiesFine(w)
  BY DEF SessionsInv, WorkersFine, WorkerFine
<1>3. /\ \A v \in Worker \ {w} : SameSweep(v)
      /\ stage'[w] = "refreshing" /\ copies'[w] = copies[w] /\ locked'[w] = {}
  <2>1. Sweeps(w, "refreshing", copies[w], next[w], {}) /\ next[w] \in 1..4
    BY <1>1, <1>2, SweepSame DEF Sweeps
  <2> QED BY <2>1, <1>2, SweepStep
<1>4. \A u \in Turn : lease'[u] = IF u \in locked[w] THEN w ELSE lease[u]
  BY <1>1 DEF LeasedBy
<1>5. Turn' = Turn /\ locked[w] \subseteq DOMAIN copies[w] /\ DOMAIN copies[w] \subseteq Turn
  BY <1>1, <1>2 DEF Turn, WorkerFine, CopiesFine
<1>6. LeaseFine(w)'
  BY <1>1, <1>3, <1>4, <1>5 DEF LeaseFine, Stale
<1>7. \A v \in Worker \ {w} : \A u \in Turn :
        lease'[u] = v => lease[u] = v /\ (u \in givenUp => u \in givenUp')
  BY <1>1, <1>4
<1> QED BY <1>1, <1>3, <1>6, <1>7 DEF LeaseStepped

LEMMA LeaseFinish ==
  ASSUME SessionsInv, NEW w \in Worker, LeaseFine(w), NEW t, NEW r, NEW x, Ends(w, t, r, x)
  PROVE  LeaseStepped(w)
<1> DEFINE U == IF copies[w][t].lease = NoWorker THEN {} ELSE {t}
           f == Without(copies[w], t)
<1>1. /\ stage[w] = "working" /\ t \in DOMAIN copies[w] /\ copies[w][t] # Stale
      /\ lease' = [u \in Turn |-> IF u \in U THEN NoWorker ELSE LeasedBy(w, u)]
      /\ opened' = opened
      /\ MoveOn(w, t, f) /\ locked' = [locked EXCEPT ![w] = {}]
      /\ givenUp' = givenUp \ locked[w]
  BY DEF Ends, Reads, FinishTurn, WorkerWrites
<1>2. WorkersFine /\ WorkerFine(w) /\ CopiesFine(w)
  BY DEF SessionsInv, WorkersFine, WorkerFine
<1>3. DOMAIN f = DOMAIN copies[w] \ {t} /\ \A u \in DOMAIN f : f[u] = copies[w][u]
  BY DEF Without
<1>4. \A u \in U : u = t
  OBVIOUS
<1>5. t \notin U => copies[w][t].lease = NoWorker
  OBVIOUS
<1> HIDE DEF f, U
<1>6. /\ \A v \in Worker \ {w} : SameSweep(v)
      /\ stage'[w] # "claiming" /\ copies'[w] = f /\ locked'[w] = {}
  BY <1>1, <1>2, SweepMoved
<1>7. \A u \in Turn : lease'[u] = IF u \in U THEN NoWorker
                                  ELSE IF u \in locked[w] THEN w ELSE lease[u]
  BY <1>1 DEF LeasedBy
<1>8. /\ Turn' = Turn /\ locked[w] \subseteq DOMAIN copies[w] /\ DOMAIN copies[w] \subseteq Turn
       /\ w # NoWorker /\ NoWorker \notin Worker
  BY <1>1, <1>2, TurnSessionsAssumption DEF Turn, WorkerFine, CopiesFine
<1>9. lease'[t] # w
  <2>1. CASE t \in U
    BY <2>1, <1>1, <1>7, <1>8
  <2>2. CASE t \notin U
    <3>1. lease[t] # w /\ t \notin locked[w]
      BY <2>2, <1>1, <1>5 DEF LeaseFine
    <3> QED BY <2>2, <3>1, <1>1, <1>7, <1>8
  <2> QED BY <2>1, <2>2
<1>10. \A u \in Turn : lease'[u] = w => u \in DOMAIN f \/ u \in givenUp'
  BY <1>1, <1>3, <1>7, <1>8, <1>9 DEF LeaseFine
<1>11. \A u \in DOMAIN f : f[u] # Stale /\ f[u].lease = NoWorker => lease'[u] # w
  BY <1>1, <1>3, <1>4, <1>7, <1>8 DEF LeaseFine
<1>12. LeaseFine(w)'
  BY <1>3, <1>6, <1>8, <1>10, <1>11 DEF LeaseFine, Stale
<1>13. \A v \in Worker \ {w} : \A u \in Turn :
         lease'[u] = v => lease[u] = v /\ (u \in givenUp => u \in givenUp')
  BY <1>1, <1>7, <1>8
<1> QED BY <1>1, <1>6, <1>12, <1>13 DEF LeaseStepped

\* A failure takes back the locks, and what it drops from the batch is given up.
LeaseFailed(w, f) ==
  /\ Sweeps(w, IF f = <<>> THEN "idle" ELSE "working", f, 1, {})
  /\ lease' = lease /\ opened' = opened
  /\ DOMAIN f \subseteq DOMAIN copies[w] /\ \A t \in DOMAIN f : f[t] = Stale
  /\ givenUp' = givenUp \cup (DOMAIN copies[w] \ DOMAIN f)

LEMMA LeaseFailure ==
  ASSUME SessionsInv, NEW w \in Worker, LeaseFine(w), NEW f, LeaseFailed(w, f)
  PROVE  LeaseStepped(w)
<1> DEFINE a == IF f = <<>> THEN "idle" ELSE "working"
           n == 1
<1>1. Sweeps(w, a, f, n, {}) /\ a \in {"idle", "claiming", "working", "refreshing"} /\ n \in 1..4
  BY DEF LeaseFailed
<1>2. WorkersFine
  BY DEF SessionsInv
<1> HIDE DEF a, n
<1>3. /\ \A v \in Worker \ {w} : SameSweep(v)
      /\ copies'[w] = f /\ locked'[w] = {}
  BY <1>1, <1>2, SweepStep
<1>4. Turn' = Turn
  BY DEF LeaseFailed, Turn
<1>5. LeaseFine(w)'
  BY <1>3, <1>4 DEF LeaseFailed, LeaseFine, Stale
<1> QED BY <1>3, <1>5 DEF LeaseStepped, LeaseFailed

LEMMA LeaseFails ==
  ASSUME NEW w \in Worker, RollBack(w) \/ Crash(w)
  PROVE  \E f : LeaseFailed(w, f)
<1>1. CASE RollBack(w)
  <2>1. PICK t \in DOMAIN copies[w] :
          /\ MoveOn(w, t, [u \in DOMAIN copies[w] \ {t} |-> Stale])
          /\ givenUp' = givenUp \cup {t}
    BY <1>1 DEF RollBack
  <2> DEFINE f == [u \in DOMAIN copies[w] \ {t} |-> Stale]
  <2>2. DOMAIN f = DOMAIN copies[w] \ {t} /\ \A u \in DOMAIN f : f[u] = Stale
    OBVIOUS
  <2>3. DOMAIN copies[w] \ DOMAIN f = {t}
    BY <2>2
  <2>4. /\ MoveOn(w, t, f) /\ locked' = [locked EXCEPT ![w] = {}]
        /\ lease' = lease /\ opened' = opened /\ givenUp' = givenUp \cup {t}
    BY <1>1, <2>1 DEF RollBack, tables
  <2> HIDE DEF f
  <2>5. LeaseFailed(w, f)
    BY <2>2, <2>3, <2>4 DEF LeaseFailed, Sweeps, MoveOn
  <2> QED BY <2>5
<1>2. CASE Crash(w)
  <2>1. DOMAIN <<>> = {}
    OBVIOUS
  <2>2. LeaseFailed(w, <<>>)
    BY <1>2, <2>1 DEF Crash, LeaseFailed, Sweeps, tables
  <2> QED BY <2>2
<1> QED BY <1>1, <1>2

\* A request, or time, gives no worker a lease.
LEMMA LeaseElsewhere ==
  ASSUME SessionsInv, \A v \in Worker : LeaseFine(v), UNCHANGED workers, givenUp' = givenUp,
         \/ UNCHANGED <<opened, lease>>
         \/ \E s \in Request : SaveEvent(s)
  PROVE  \A v \in Worker : LeaseFine(v)'
<1>1. \A v \in Worker : SameSweep(v)
  BY DEF workers, SameSweep
<1>2. CASE UNCHANGED <<opened, lease>>
  <2>1. Turn' = Turn
    BY <1>2 DEF Turn
  <2> QED BY <1>1, <1>2, <2>1, LeaseKept
<1>3. CASE \E s \in Request : SaveEvent(s)
  <2> DEFINE e == opened + 1
  <2>1. opened' = e /\ lease' = [t \in 1..e |-> IF t = e THEN NoWorker ELSE lease[t]]
    BY <1>3 DEF SaveEvent
  <2>2. opened \in Nat
    BY TablesAssumption DEF SessionsInv, RowsFine, TablesOK
  <2>3. /\ Turn \subseteq Turn' /\ Turn' = 1..e
        /\ \A t \in 1..e : t # e => t \in Turn
    BY <2>1, <2>2 DEF Turn
  <2> HIDE DEF e
  <2>4. \A v \in Worker : \A t \in Turn' : lease'[t] = v => t \in Turn /\ lease[t] = v
    BY <2>1, <2>3, TurnSessionsAssumption
  <2> QED BY <1>1, <2>3, <2>4, LeaseKept
<1> QED BY <1>2, <1>3

\* What a step adds to the turns, and to those given up.
LEMMA GivenUpStep ==
  ASSUME SessionsInv, [SessionsNext]_sessionVars
  PROVE  /\ opened' = opened \/ opened' = opened + 1
         /\ \A t \in givenUp' : t \in givenUp \/ \E w \in Worker : t \in DOMAIN copies[w]
<1>1. ASSUME NEW s \in Request, RequestStep(s)
      PROVE  (opened' = opened \/ opened' = opened + 1) /\ givenUp' = givenUp
  <2>1. (opened' = opened /\ givenUp' = givenUp) \/ SaveEvent(s)
    BY <1>1 DEF RequestStep, LoadTurn, InsertEvent, SelectOpen, Refuse, SaveAdvance, SaveSuspend,
                SaveResume, SaveSteer, SaveStop, TurnRequest, Save, tables, history
  <2> QED BY <2>1 DEF SaveEvent
<1>2. ASSUME NEW w \in Worker, Finishes(w)
      PROVE  opened' = opened /\ givenUp' \subseteq givenUp
  <2>1. PICK t, r, x : FinishTurn(w, t, x)
    BY <1>2, FinishCases DEF Ends
  <2> QED BY <2>1 DEF FinishTurn, WorkerWrites
<1>3. ASSUME NEW w \in Worker, WorkerStep(w) \/ ToolFails(w)
      PROVE  opened' = opened /\ givenUp' \subseteq givenUp
  <2>1. CASE WorkerAdvance(w)
    BY <2>1 DEF WorkerAdvance, WorkerWrites
  <2>2. CASE SelectPending(w) \/ FlushClaim(w) \/ RefreshCopy(w) \/ Reload(w)
    BY <2>2 DEF SelectPending, FlushClaim, RefreshCopy, Reload, tables, history
  <2> QED BY <1>2, <1>3, <2>1, <2>2 DEF WorkerStep, Finishes
<1>4. ASSUME NEW w \in Worker, RollBack(w) \/ Crash(w)
      PROVE  opened' = opened /\ givenUp' \subseteq givenUp \cup DOMAIN copies[w]
  BY <1>4, LeaseFails DEF LeaseFailed
<1>5. ASSUME NEW t \in Turn, ExpireLease(t)
      PROVE  opened' = opened /\ givenUp' = givenUp
  BY <1>5 DEF ExpireLease, tables, history
<1>6. CASE UNCHANGED sessionVars
  BY <1>6 DEF sessionVars
<1> QED BY <1>1, <1>3, <1>4, <1>5, <1>6 DEF SessionsNext

\* What has been given up is a turn still.
LEMMA GivenUpKept ==
  ASSUME SessionsInv, givenUp \subseteq Turn, [SessionsNext]_sessionVars
  PROVE  givenUp' \subseteq Turn'
<1>1. Turn \subseteq Turn'
  <2>1. opened \in Nat
    BY TablesAssumption DEF SessionsInv, RowsFine, TablesOK
  <2> QED BY <2>1, GivenUpStep DEF Turn
<1>2. \A w \in Worker : DOMAIN copies[w] \subseteq Turn
  BY DEF SessionsInv, WorkersFine, WorkerFine, CopiesFine
<1> QED BY <1>1, <1>2, GivenUpStep

LEMMA LeaseNext == SessionsInv /\ LeaseInv /\ [SessionsNext]_sessionVars => LeaseInv'
<1> SUFFICES ASSUME SessionsInv, LeaseInv, [SessionsNext]_sessionVars
             PROVE  \A w \in Worker : LeaseFine(w)'
  BY SessionsStepOK, GivenUpKept DEF LeaseInv
<1>1. \A w \in Worker : LeaseFine(w)
  BY DEF LeaseInv
<1>2. ASSUME NEW w \in Worker, RollBack(w) \/ Crash(w)
      PROVE  \A v \in Worker : LeaseFine(v)'
  BY <1>1, <1>2, LeaseFails, LeaseFailure, LeaseStepOK
<1>3. ASSUME NEW s \in Request, RequestStep(s)
      PROVE  \A w \in Worker : LeaseFine(w)'
  <2>1. \/ UNCHANGED <<opened, lease>> /\ UNCHANGED workers /\ givenUp' = givenUp
        \/ SaveEvent(s)
    BY <1>3 DEF RequestStep, LoadTurn, InsertEvent, SelectOpen, Refuse, SaveAdvance, SaveSuspend,
                SaveResume, SaveSteer, SaveStop, TurnRequest, Save, tables, workers, history
  <2>2. UNCHANGED workers /\ givenUp' = givenUp
    BY <2>1 DEF SaveEvent
  <2> QED BY <1>1, <2>1, <2>2, LeaseElsewhere
<1>4. ASSUME NEW w \in Worker, WorkerStep(w) \/ ToolFails(w)
      PROVE  \A v \in Worker : LeaseFine(v)'
  <2>1. LeaseStepped(w)
    <3>1. CASE Finishes(w)
      <4>1. PICK t, r, x : Ends(w, t, r, x)
        BY <3>1, FinishCases
      <4> QED BY <1>1, <4>1, LeaseFinish
    <3> QED BY <1>1, <1>4, <3>1, LeaseSelect, LeaseClaim, LeaseReread, LeaseAdvance
            DEF WorkerStep, Finishes
  <2> QED BY <1>1, <2>1, LeaseStepOK
<1>5. ASSUME NEW t \in Turn, ExpireLease(t)
      PROVE  \A w \in Worker : LeaseFine(w)'
  <2>1. UNCHANGED <<opened, lease>> /\ UNCHANGED workers /\ givenUp' = givenUp
    BY <1>5 DEF ExpireLease, tables, history
  <2> QED BY <1>1, <2>1, LeaseElsewhere
<1>6. CASE UNCHANGED sessionVars
  <2>1. UNCHANGED <<opened, lease>> /\ UNCHANGED workers /\ givenUp' = givenUp
    BY <1>6 DEF sessionVars, workers
  <2> QED BY <1>1, <2>1, LeaseElsewhere
<1> QED BY <1>2, <1>3, <1>4, <1>5, <1>6 DEF SessionsNext

LEMMA LeaseInvariance == SessionsSpec => []LeaseInv
<1>1. SessionsInit => LeaseInv
  <2> SUFFICES ASSUME SessionsInit PROVE givenUp = {} /\ \A w \in Worker : LeaseFine(w)
    BY DEF LeaseInv
  <2>1. givenUp = {}
    BY DEF SessionsInit
  <2>2. ASSUME NEW w \in Worker PROVE LeaseFine(w)
    <3>1. Turn = {} /\ copies[w] = <<>> /\ locked[w] = {}
      BY DEF SessionsInit, NoTurns, Turn
    <3>2. DOMAIN <<>> = {}
      OBVIOUS
    <3> QED BY <3>1, <3>2 DEF LeaseFine
  <2> QED BY <2>1, <2>2
<1> QED BY <1>1, LeaseNext, SessionsInvariance, PTL DEF SessionsSpec

\* A lease is left behind on no turn but one whose worker died or rolled back:
\* any other turn that carries one is among those its worker still has to
\* process, whatever the other workers and the requests do.
THEOREM LeasesHeld == SessionsSpec => []LeaseIsHeld
<1>1. LeaseInv => LeaseIsHeld
  BY DEF LeaseInv, LeaseFine, LeaseIsHeld
<1> QED BY <1>1, LeaseInvariance, PTL

\* Every table, every copy and every sweep is of the shape its handlers expect.
THEOREM SessionsTypeCorrect == SessionsSpec => []SessionsTypeOK
<1>1. SessionsInv /\ LeaseInv => SessionsTypeOK
  <2> SUFFICES ASSUME SessionsInv, LeaseInv PROVE SessionsTypeOK
    OBVIOUS
  <2>1. /\ TablesOK
        /\ lease \in [Turn -> Worker \cup {NoWorker}]
        /\ expired \subseteq {t \in Turn : lease[t] # NoWorker}
        /\ stage \in [Worker -> {"idle", "claiming", "working", "refreshing"}]
        /\ next \in [Worker -> 1..4]
        /\ loads \in 0..MaxLoads /\ faults \in 0..MaxFaults
        /\ arrived \in [Turn -> Nat] /\ givenUp \subseteq Turn
    BY DEF SessionsInv, LeaseInv, RowsFine, WorkersFine, LeasesFine, SweepsTyped, Bounded
  <2>2. ASSUME NEW w \in Worker
        PROVE  /\ DOMAIN copies[w] \subseteq Turn
               /\ \A t \in DOMAIN copies[w] : copies[w][t] \in Copy
               /\ locked[w] \subseteq DOMAIN copies[w]
    BY DEF SessionsInv, WorkersFine, WorkerFine, CopiesFine
  <2>3. ASSUME NEW s \in Request
        PROVE  \/ request[s] = Idle
               \/ request[s].op = "turn" /\ \E t \in Turn : request[s].seen \in Seen({t})
               \/ \E S \in SUBSET Turn : request[s] \in Arrival(S)
    <3>1. CASE request[s] = Idle
      BY <3>1
    <3>2. CASE TurnLoaded(s)
      BY <3>2 DEF TurnLoaded
    <3>3. CASE EventLoaded(s)
      <4> DEFINE q == request[s]
      <4>1. /\ DOMAIN q.seen \in SUBSET Turn /\ q.seen \in Seen(DOMAIN q.seen)
            /\ q.op \in {"inserted", "selected"} /\ q.channel \in Channel
            /\ q.kind \in Kinds /\ q.action \in Acts \cup {"pass"} /\ q.after \in 0..opened
            /\ q = [op |-> q.op, channel |-> q.channel, kind |-> q.kind,
                    action |-> q.action, after |-> q.after, seen |-> q.seen]
        BY <3>3 DEF EventLoaded
      <4> HIDE DEF q
      <4>2. q \in Arrival(DOMAIN q.seen)
        BY <4>1 DEF Arrival
      <4> QED BY <4>1, <4>2 DEF q
    <3> QED BY <3>1, <3>2, <3>3 DEF SessionsInv, RequestsFine, RequestFine
  <2> QED BY <2>1, <2>2, <2>3 DEF SessionsTypeOK
<1> QED BY <1>1, SessionsInvariance, LeaseInvariance, PTL

-----------------------------------------------------------------------------
(* Sessions that do not overlap are the handlers of Turns.                 *)

\* The rules are the same on either side.
LEMMA SameRules ==
  ASSUME NEW r, NEW s, NEW x, NEW c, NEW k, NEW a
  PROVE  /\ Turns!CanAdvance(r, x) = CanAdvance(r, x) /\ Turns!Advanced(r) = Advanced(r)
         /\ Turns!CanSuspend(r) = CanSuspend(r) /\ Turns!Suspended(r) = Suspended(r)
         /\ Turns!CanResume(r, x) = CanResume(r, x) /\ Turns!Resumed(r, x) = Resumed(r, x)
         /\ Turns!CanSteer(r) = CanSteer(r) /\ Turns!Steered(r) = Steered(r)
         /\ Turns!CanStop(r) = CanStop(r) /\ Turns!Stopped(r, x) = Stopped(r, x)
         /\ Turns!PlanComplete(r) = PlanComplete(r) /\ Turns!WorkerError(r) = WorkerError(r)
         /\ Turns!Superseded(r, x) = Superseded(r, x)
         /\ Turns!AppendStep(r, s) = AppendStep(r, s)
         /\ Turns!IsActive(r) = IsActive(r) /\ Turns!IsOpen(r) = IsOpen(r)
         /\ Turns!NewTurn(c, k, a) = NewTurn(c, k, a) /\ Turns!NewLog = NewLog
         /\ Turns!Overtakes(k, a) = Overtakes(k, a)
         /\ Turns!Turn = Turn
         /\ Turns!ActiveTool(a) = ActiveTool(a) /\ Turns!Action = Action
BY DEF CanAdvance, Advanced, CanSuspend, Suspended, CanResume, Resumed, CanSteer, Steered,
       CanStop, Stopped, PlanComplete, WorkerError, Superseded, AppendStep, IsActive, IsOpen,
       IsTerminal, NewTurn, NewLog, Overtakes, Turn, ActiveTool, Action, Exhausted, Budget,
       ACTION_BUDGET, ACTIVE_TOOLS, TERMINAL_STATUSES, OPEN_STATUSES, Closed, NoteStep,
       ToolStep, NoStep, NoteKind, MaxBudget, EmptyLog, AddressKinds, Turns!CanAdvance,
       Turns!Advanced, Turns!CanSuspend, Turns!Suspended, Turns!CanResume, Turns!Resumed,
       Turns!CanSteer, Turns!Steered, Turns!CanStop, Turns!Stopped, Turns!PlanComplete,
       Turns!WorkerError, Turns!Superseded, Turns!AppendStep, Turns!IsActive, Turns!IsOpen,
       Turns!IsTerminal, Turns!NewTurn, Turns!NewLog, Turns!Overtakes, Turns!Turn,
       Turns!ActiveTool, Turns!Action, Turns!Exhausted, Turns!Budget, Turns!ACTION_BUDGET,
       Turns!ACTIVE_TOOLS, Turns!TERMINAL_STATUSES, Turns!OPEN_STATUSES, Turns!Closed,
       Turns!NoteStep, Turns!ToolStep, Turns!NoStep, Turns!NoteKind, Turns!MaxBudget,
       Turns!EmptyLog, Turns!AddressKinds

\* A request, or a worker, that is the only session there is.
OnlyRequest(s) ==
  /\ \A q \in Request \ {s} : request[q] = Idle
  /\ \A w \in Worker : stage[w] = "idle"

OnlyWorker(w) ==
  /\ \A q \in Request : request[q] = Idle
  /\ \A v \in Worker \ {w} : stage[v] = "idle"

Alone ==
  /\ \A s \in Request : request[s] # Idle => OnlyRequest(s)
  /\ \A w \in Worker : stage[w] # "idle" => OnlyWorker(w)

\* What a request has loaded is what the tables say.
SeenIsTrue(s) ==
  /\ request[s].op = "turn" =>
       \A t \in DOMAIN request[s].seen :
         request[s].seen[t] = row[t] /\ row[t].instructions < loads
  /\ request[s].op = "selected" =>
       request[s].seen = [t \in OpenOn(request[s].channel) |-> row[t]]

\* So is what a worker holds, but for the row it has just written; the turns
\* it has not begun are pending still, the one it has begun is running or spent.
CopiesAreTrue(w) ==
  \A t \in DOMAIN copies[w] :
    /\ copies[w][t] = Stale \/ copies[w][t].row = row[t]
         \/ (t = Current(w) /\ stage[w] = "refreshing")
    /\ IF t # Current(w) \/ stage[w] = "claiming" \/ (stage[w] = "working" /\ next[w] = 1)
       THEN row[t].status = "pending"
       ELSE row[t].status \in {"running", "completed"}

InstructionsCounted == \A t \in Turn : row[t].instructions <= loads

SerialFine ==
  /\ Alone /\ InstructionsCounted
  /\ \A s \in Request : SeenIsTrue(s)
  /\ \A w \in Worker : CopiesAreTrue(w)

SerialInv == Serial => SerialFine

\* A step of Turns, or none.
Simulated == Turns!Next \/ UNCHANGED tables

LEMMA FlushWhole ==
  ASSUME NEW r \in Row(Channel), NEW q \in Row(Channel)
  PROVE  Flush(r, r, q) = q
<1>1. DOMAIN r = DOMAIN q /\ q = [f \in DOMAIN q |-> q[f]]
  BY DEF Row
<1>2. \A f \in DOMAIN q : (IF q[f] # r[f] THEN q[f] ELSE r[f]) = q[f]
  OBVIOUS
<1> QED BY <1>1, <1>2 DEF Flush

\* A session that saw the row as it is commits as a handler does.
LEMMA Commits ==
  ASSUME SessionsInv, NEW t \in Turn, NEW x, x.row \in Row(Channel), opened' = opened,
         row' = [row EXCEPT ![t] = Flush(@, row[t], x.row)],
         log' = [log EXCEPT ![t] = AppendStep(@, x.step)]
  PROVE  /\ Turns!Commit(t, x) /\ Turn' = Turn
         /\ \A u \in Turn : row'[u] = IF u = t THEN x.row ELSE row[u]
<1>1. row \in [Turn -> Row(Channel)]
  BY DEF SessionsInv, RowsFine, TablesOK
<1>2. Flush(row[t], row[t], x.row) = x.row
  BY <1>1, FlushWhole
<1>3. row' = [row EXCEPT ![t] = x.row]
  BY <1>2
<1>4. log' = [log EXCEPT ![t] = Turns!AppendStep(@, x.step)]
  BY SameRules
<1> QED BY <1>1, <1>3, <1>4 DEF Turns!Commit, Turn

\* No handler but steer adds instructions.
LEMMA InstructionsOf ==
  ASSUME NEW c \in Row(Channel), NEW approved, NEW said
  PROVE  /\ Advanced(c).row.instructions = c.instructions
         /\ Suspended(c).row.instructions = c.instructions
         /\ Resumed(c, approved).row.instructions = c.instructions
         /\ Stopped(c, said).row.instructions = c.instructions
         /\ Steered(c).row.instructions = c.instructions + 1
         /\ PlanComplete(c).row.instructions = c.instructions
         /\ WorkerError(c).row.instructions = c.instructions
         /\ \A e : Superseded(c, e).row.instructions = c.instructions
<1>1. ASSUME NEW v, NEW z PROVE Closed(c, v, z).instructions = c.instructions
  BY DEF Closed, Row
<1>2. Advanced(c).row.instructions = c.instructions
  BY <1>1 DEF Advanced, Row
<1>3. /\ Suspended(c).row.instructions = c.instructions
      /\ Steered(c).row.instructions = c.instructions + 1
      /\ \A e : Superseded(c, e).row.instructions = c.instructions
  BY DEF Suspended, Steered, Superseded, Row
<1> QED BY <1>1, <1>2, <1>3 DEF Resumed, Stopped, PlanComplete, WorkerError

LEMMA OtherRequest ==
  ASSUME NEW s \in Request, request[s] = Idle
  PROVE  SeenIsTrue(s)
BY OpsDiffer DEF SeenIsTrue

\* What remains to be shown of a request's step, and of a worker's.
LEMMA SerialByRequest ==
  ASSUME SessionsInv, SessionsInv', NEW s \in Request, OnlyRequest(s),
         \A q \in Request \ {s} : request'[q] = request[q], UNCHANGED workers,
         SeenIsTrue(s)', InstructionsCounted'
  PROVE  SerialFine'
<1>1. OnlyRequest(s)'
  BY DEF OnlyRequest, workers
<1>2. Alone'
  BY <1>1 DEF OnlyRequest, OnlyWorker, Alone
<1>3. \A q \in Request \ {s} : SeenIsTrue(q)'
  BY <1>1, OpsDiffer DEF OnlyRequest, SeenIsTrue
<1>4. \A w \in Worker : DOMAIN copies'[w] = {}
  BY <1>1 DEF OnlyRequest, SessionsInv, WorkersFine, WorkerFine
<1>5. \A w \in Worker : CopiesAreTrue(w)'
  BY <1>4 DEF CopiesAreTrue
<1> QED BY <1>2, <1>3, <1>5 DEF SerialFine

LEMMA SerialByWorker ==
  ASSUME SessionsInv, SessionsInv', NEW w \in Worker, OnlyWorker(w), request' = request,
         \A v \in Worker \ {w} : SameSweep(v),
         CopiesAreTrue(w)', InstructionsCounted'
  PROVE  SerialFine'
<1>1. OnlyWorker(w)'
  BY DEF OnlyWorker, SameSweep
<1>2. Alone'
  BY <1>1 DEF OnlyRequest, OnlyWorker, Alone
<1>3. \A q \in Request : SeenIsTrue(q)'
  BY <1>1, OpsDiffer DEF OnlyWorker, SeenIsTrue
<1>4. \A v \in Worker \ {w} : DOMAIN copies'[v] = {}
  BY <1>1 DEF OnlyWorker, SessionsInv, WorkersFine, WorkerFine
<1>5. \A v \in Worker : CopiesAreTrue(v)'
  BY <1>4 DEF CopiesAreTrue
<1> QED BY <1>2, <1>3, <1>5 DEF SerialFine

LEMMA SerialLoad ==
  ASSUME SessionsInv, SessionsInv', Serial, SerialFine, NEW s \in Request,
         NEW t \in Turn, LoadTurn(s, t)
  PROVE  SerialFine' /\ Simulated
<1> DEFINE z == [op |-> "turn", seen |-> [u \in {t} |-> row[u]]]
<1>1. /\ request[s] = Idle /\ MayStart /\ loads' = loads + 1
      /\ request' = [request EXCEPT ![s] = z]
      /\ opened' = opened /\ row' = row /\ log' = log /\ UNCHANGED workers
  BY DEF LoadTurn, tables, history
<1>2. OnlyRequest(s)
  BY <1>1 DEF MayStart, OnlyRequest
<1>3. request'[s] = z /\ \A q \in Request \ {s} : request'[q] = request[q]
  BY <1>1 DEF SessionsInv, RequestsFine
<1>4. z.op = "turn" /\ DOMAIN z.seen = {t} /\ z.seen[t] = row[t]
  OBVIOUS
<1> HIDE DEF z
<1>5. InstructionsCounted /\ loads \in Nat /\ \A u \in Turn : row[u].instructions \in Nat
  BY DEF SerialFine, SessionsInv, Bounded, RowsFine, TablesOK, Row
<1>6. InstructionsCounted'
  BY <1>1, <1>5 DEF InstructionsCounted, Turn
<1>7. SeenIsTrue(s)'
  BY <1>1, <1>3, <1>4, <1>5 DEF SeenIsTrue, InstructionsCounted
<1> QED BY <1>1, <1>2, <1>3, <1>6, <1>7, SerialByRequest DEF Simulated, tables

LEMMA SerialInsert ==
  ASSUME SessionsInv, SessionsInv', Serial, SerialFine, NEW s \in Request, NEW c, NEW k, NEW a,
         InsertEvent(s, c, k, a)
  PROVE  SerialFine' /\ Simulated
<1> DEFINE z == [op |-> "inserted", channel |-> c, kind |-> k, action |-> a,
                 after |-> opened, seen |-> <<>>]
<1>1. /\ request[s] = Idle /\ MayStart /\ loads' = loads
      /\ request' = [request EXCEPT ![s] = z]
      /\ opened' = opened /\ row' = row /\ log' = log /\ UNCHANGED workers
  BY DEF InsertEvent, tables, history
<1>2. OnlyRequest(s)
  BY <1>1 DEF MayStart, OnlyRequest
<1>3. request'[s] = z /\ \A q \in Request \ {s} : request'[q] = request[q]
  BY <1>1 DEF SessionsInv, RequestsFine
<1>4. z.op = "inserted"
  OBVIOUS
<1> HIDE DEF z
<1>5. InstructionsCounted'
  BY <1>1 DEF SerialFine, InstructionsCounted, Turn
<1>6. SeenIsTrue(s)'
  BY <1>3, <1>4 DEF SeenIsTrue
<1> QED BY <1>1, <1>2, <1>3, <1>5, <1>6, SerialByRequest DEF Simulated, tables

LEMMA SerialSearch ==
  ASSUME SessionsInv, SessionsInv', SerialFine, NEW s \in Request, SelectOpen(s)
  PROVE  SerialFine' /\ Simulated
<1> DEFINE c == request[s].channel
           f == [t \in OpenOn(c) |-> row[t]]
           z == [request[s] EXCEPT !.op = "selected", !.seen = f]
<1>1. /\ request[s].op = "inserted" /\ loads' = loads
      /\ opened' = opened /\ row' = row /\ log' = log /\ UNCHANGED workers
  BY DEF SelectOpen, tables, history
<1>2. OnlyRequest(s)
  BY <1>1, OpsDiffer DEF SerialFine, Alone
<1>3. request'[s] = z /\ \A q \in Request \ {s} : request'[q] = request[q]
  BY DEF SelectOpen, SessionsInv, RequestsFine
<1>4. z.op = "selected" /\ z.channel = c /\ z.seen = f
  <2>1. EventLoaded(s)
    BY <1>1, OpsDiffer DEF SessionsInv, RequestsFine, RequestFine, TurnLoaded
  <2> DEFINE q == request[s]
  <2>2. q = [op |-> q.op, channel |-> q.channel, kind |-> q.kind, action |-> q.action,
             after |-> q.after, seen |-> q.seen]
    BY <2>1 DEF EventLoaded
  <2> HIDE DEF q, f
  <2>3. /\ [q EXCEPT !.op = "selected", !.seen = f].op = "selected"
        /\ [q EXCEPT !.op = "selected", !.seen = f].channel = q.channel
        /\ [q EXCEPT !.op = "selected", !.seen = f].seen = f
    BY <2>2
  <2> QED BY <2>3 DEF q
<1> HIDE DEF z, c
<1>5. InstructionsCounted'
  BY <1>1 DEF SerialFine, InstructionsCounted, Turn
<1>6. request'[s].seen = [t \in {u \in Turn' : IsOpen(row'[u]) /\ row'[u].channel = c} |-> row'[t]]
  BY <1>1, <1>3, <1>4 DEF OpenOn, Turn
<1>7. request'[s].channel = c /\ request'[s].op = "selected"
  BY <1>3, <1>4
<1>8. SeenIsTrue(s)'
  BY <1>6, <1>7 DEF SeenIsTrue, OpenOn
<1> QED BY <1>1, <1>2, <1>3, <1>5, <1>8, SerialByRequest DEF Simulated, tables

LEMMA SerialRefuse ==
  ASSUME SessionsInv, SessionsInv', SerialFine, NEW s \in Request, Refuse(s)
  PROVE  SerialFine' /\ Simulated
<1>1. /\ request[s].op = "turn" /\ request' = [request EXCEPT ![s] = Idle]
      /\ opened' = opened /\ row' = row /\ log' = log /\ UNCHANGED workers /\ loads' = loads
  BY DEF Refuse, tables, history
<1>2. OnlyRequest(s)
  BY <1>1, OpsDiffer DEF SerialFine, Alone
<1>3. request'[s] = Idle /\ \A q \in Request \ {s} : request'[q] = request[q]
  BY <1>1 DEF SessionsInv, RequestsFine
<1>4. InstructionsCounted'
  BY <1>1 DEF SerialFine, InstructionsCounted, Turn
<1>5. SeenIsTrue(s)'
  BY <1>3, OpsDiffer DEF SeenIsTrue
<1> QED BY <1>1, <1>2, <1>3, <1>4, <1>5, SerialByRequest DEF Simulated, tables

\* What a request does with the row it has loaded.
LEMMA SerialSave ==
  ASSUME SessionsInv, SessionsInv', SerialFine, NEW s \in Request, NEW t \in Turn,
         request[s].op = "turn", row[t].instructions < loads,
         NEW x, x.row \in Row(Channel), x.row.instructions <= row[t].instructions + 1,
         Save(s, t, row[t], x)
  PROVE  SerialFine' /\ Turns!Commit(t, x)
<1>1. /\ row' = [row EXCEPT ![t] = Flush(@, row[t], x.row)]
      /\ log' = [log EXCEPT ![t] = AppendStep(@, x.step)]
      /\ request' = [request EXCEPT ![s] = Idle]
      /\ opened' = opened /\ UNCHANGED workers /\ loads' = loads
  BY DEF Save
<1>2. OnlyRequest(s)
  BY OpsDiffer DEF SerialFine, Alone
<1>3. request'[s] = Idle /\ \A q \in Request \ {s} : request'[q] = request[q]
  BY <1>1 DEF SessionsInv, RequestsFine
<1>4. /\ Turns!Commit(t, x) /\ Turn' = Turn
      /\ \A u \in Turn : row'[u] = IF u = t THEN x.row ELSE row[u]
  BY <1>1, Commits
<1>5. x.row.instructions \in Nat /\ row[t].instructions \in Nat /\ loads \in Nat
  BY DEF SessionsInv, Bounded, RowsFine, TablesOK, Row
<1>6. InstructionsCounted'
  BY <1>1, <1>4, <1>5 DEF SerialFine, InstructionsCounted
<1>7. SeenIsTrue(s)'
  BY <1>3, OpsDiffer DEF SeenIsTrue
<1> QED BY <1>1, <1>2, <1>3, <1>4, <1>6, <1>7, SerialByRequest

LEMMA SerialSaves ==
  ASSUME SessionsInv, SessionsInv', SerialFine, NEW s \in Request, SaveTurn(s)
  PROVE  SerialFine' /\ Turns!Next
<1>1. request[s].op = "turn"
  BY DEF SaveTurn, SaveAdvance, SaveSuspend, SaveResume, SaveSteer, SaveStop, TurnRequest
<1>2. TurnLoaded(s)
  BY <1>1 DEF SessionsInv, RequestsFine, RequestFine, EventLoaded, Idle
<1>3. PICK t \in Turn : request[s].seen \in Seen({t}) /\ Remembers(t, request[s].seen[t])
  BY <1>2 DEF TurnLoaded
<1> DEFINE c == row[t]
<1>4. DOMAIN request[s].seen = {t} /\ request[s].seen[t] = c /\ c.instructions < loads
  BY <1>1, <1>3 DEF Seen, SerialFine, SeenIsTrue
<1>5. ~IsTerminal(c) => OpenCopy(c)
  BY <1>3, <1>4, OpenFromCopy
<1>6. c \in Row(Channel) /\ c.instructions \in Nat /\ t \in Turns!Turn
  BY SameRules DEF SessionsInv, RowsFine, TablesOK, Row
<1>7. c.instructions < MaxLoads
  BY <1>4, <1>6, TurnSessionsAssumption DEF SessionsInv, Bounded
<1>8. ASSUME NEW x, NEW e, Allowed(c, x, e), Save(s, t, c, x),
             x.row.instructions \in {c.instructions, c.instructions + 1}
      PROVE  SerialFine' /\ Turns!Commit(t, x)
  <2>1. x.row \in Row(Channel) /\ x.row.instructions <= c.instructions + 1
    BY <1>6, <1>8 DEF Allowed
  <2> QED BY <1>1, <1>4, <1>8, <2>1, SerialSave
<1> HIDE DEF c
<1>9. ASSUME NEW tool \in ActiveTool("investigate"), SaveAdvance(s, tool)
      PROVE  SerialFine' /\ Turns!Next
  <2>1. CanAdvance(c, tool) /\ Save(s, t, c, Advanced(c)) /\ ~IsTerminal(c)
    BY <1>4, <1>9 DEF SaveAdvance, TurnRequest, CanAdvance
  <2>2. SerialFine' /\ Turns!Commit(t, Advanced(c))
    BY <1>5, <1>6, <1>8, <2>1, AdvancedAllowed, InstructionsOf
  <2>3. Turns!AdvanceTurn(t, tool)
    BY <2>1, <2>2, SameRules DEF Turns!AdvanceTurn, c
  <2> QED BY <1>6, <2>2, <2>3, SameRules DEF Turns!Next
<1>10. ASSUME SaveSuspend(s)
       PROVE  SerialFine' /\ Turns!Next
  <2>1. CanSuspend(c) /\ Save(s, t, c, Suspended(c)) /\ ~IsTerminal(c)
    BY <1>4, <1>10 DEF SaveSuspend, TurnRequest, CanSuspend, IsActive, IsTerminal, TERMINAL_STATUSES
  <2>2. SerialFine' /\ Turns!Commit(t, Suspended(c))
    BY <1>5, <1>6, <1>8, <2>1, SuspendedAllowed, InstructionsOf
  <2>3. Turns!SuspendTurn(t)
    BY <2>1, <2>2, SameRules DEF Turns!SuspendTurn, c
  <2> QED BY <1>6, <2>2, <2>3 DEF Turns!Next
<1>11. ASSUME NEW approved \in BOOLEAN, SaveResume(s, approved)
       PROVE  SerialFine' /\ Turns!Next
  <2>1. CanResume(c, TRUE) /\ Save(s, t, c, Resumed(c, approved)) /\ ~IsTerminal(c)
    BY <1>4, <1>11 DEF SaveResume, TurnRequest, CanResume, IsTerminal, TERMINAL_STATUSES
  <2>2. SerialFine' /\ Turns!Commit(t, Resumed(c, approved))
    BY <1>5, <1>6, <1>8, <2>1, ResumedAllowed, InstructionsOf
  <2>3. Turns!ResumeTurn(t, approved, TRUE)
    BY <2>1, <2>2, SameRules DEF Turns!ResumeTurn, c
  <2> QED BY <1>6, <2>2, <2>3 DEF Turns!Next
<1>12. ASSUME SaveSteer(s)
       PROVE  SerialFine' /\ Turns!Next
  <2>1. CanSteer(c) /\ Save(s, t, c, Steered(c)) /\ ~IsTerminal(c)
    BY <1>4, <1>12 DEF SaveSteer, TurnRequest, CanSteer
  <2>2. SerialFine' /\ Turns!Commit(t, Steered(c))
    BY <1>5, <1>6, <1>8, <2>1, SteeredAllowed, InstructionsOf
  <2>3. Turns!SteerTurn(t)
    BY <1>7, <2>1, <2>2, SameRules DEF Turns!SteerTurn, c
  <2> QED BY <1>6, <2>2, <2>3 DEF Turns!Next
<1>13. ASSUME NEW said \in Said, SaveStop(s, said)
       PROVE  SerialFine' /\ Turns!Next
  <2>1. CanStop(c) /\ Save(s, t, c, Stopped(c, said)) /\ ~IsTerminal(c)
    BY <1>4, <1>13 DEF SaveStop, TurnRequest, CanStop
  <2>2. SerialFine' /\ Turns!Commit(t, Stopped(c, said))
    BY <1>5, <1>6, <1>8, <2>1, EndingsAllowed, InstructionsOf
  <2>3. Turns!StopTurn(t, said)
    BY <2>1, <2>2, SameRules DEF Turns!StopTurn, c
  <2> QED BY <1>6, <2>2, <2>3 DEF Turns!Next
<1> QED BY <1>9, <1>10, <1>11, <1>12, <1>13 DEF SaveTurn

\* An event that saw the open turns as they are displaces those that Turns does.
LEMMA SerialEvent ==
  ASSUME SessionsInv, SessionsInv', SerialFine, NEW s \in Request, SaveEvent(s)
  PROVE  SerialFine' /\ Turns!Next
<1> DEFINE seen == request[s].seen
           c == request[s].channel
           k == request[s].kind
           a == request[s].action
           late == DOMAIN seen
           e == opened + 1
<1>1. /\ request[s].op \in EventOp /\ request' = [request EXCEPT ![s] = Idle]
      /\ request[s].op = (IF Overtakes(k, a) THEN "selected" ELSE "inserted")
      /\ opened' = e
      /\ row' = [t \in 1..e |-> IF t = e THEN NewTurn(c, k, a)
                                ELSE IF t \in late
                                     THEN Flush(row[t], seen[t], Superseded(seen[t], e).row)
                                ELSE row[t]]
      /\ log' = [t \in 1..e |-> IF t = e THEN NewLog
                                ELSE IF t \in late
                                     THEN AppendStep(log[t], Superseded(seen[t], e).step)
                                ELSE log[t]]
      /\ loads' = loads /\ UNCHANGED workers
  BY DEF SaveEvent, Arriving, EventOp
<1>2. /\ OnlyRequest(s) /\ InstructionsCounted
      /\ Overtakes(k, a) => seen = [t \in OpenOn(c) |-> row[t]]
  BY <1>1, OpsDiffer DEF SerialFine, Alone, SeenIsTrue, EventOp
<1>3. request'[s] = Idle /\ \A q \in Request \ {s} : request'[q] = request[q]
  BY <1>1 DEF SessionsInv, RequestsFine
<1>4. /\ EventLoaded(s) /\ c \in Channel /\ k \in Kinds /\ a \in Action
      /\ k = "ignored" => a = "pass"
      /\ ~Overtakes(k, a) => late = {}
  BY <1>1, TurnSessionsAssumption
     DEF SessionsInv, RequestsFine, RequestFine, TurnLoaded, EventLoaded, Idle, Action, EventOp
<1>5. late = Turns!Overtaken(c, k, a)
  BY <1>2, <1>4, SameRules DEF Turns!Overtaken, OpenOn
<1>6. /\ late \subseteq Turn /\ \A t \in late : seen[t] = row[t]
      /\ opened \in Nat /\ Turn = 1..opened
      /\ row \in [Turn -> Row(Channel)]
  <2>1. opened \in Nat /\ Turn = 1..opened /\ row \in [Turn -> Row(Channel)]
    BY TablesAssumption DEF SessionsInv, RowsFine, TablesOK, Turn
  <2>2. late \subseteq Turn
    BY <1>4 DEF EventLoaded
  <2>3. \A t \in late : seen[t] = row[t]
    BY <1>2, <1>4
  <2> QED BY <2>1, <2>2, <2>3
<1>7. opened < MaxTurns
  BY <1>1, <1>6, TablesAssumption DEF SessionsInv, RowsFine, TablesOK
<1>8. ASSUME NEW t \in late
      PROVE  /\ Superseded(row[t], e).row \in Row(Channel)
             /\ Flush(row[t], seen[t], Superseded(seen[t], e).row) = Superseded(row[t], e).row
             /\ Superseded(row[t], e).row.instructions = row[t].instructions
  <2> DEFINE r == row[t]
  <2>1. r \in Row(Channel) /\ seen[t] = r /\ e \in Nat
    BY <1>6
  <2> HIDE DEF r, e, seen, late
  <2>2. Superseded(r, e).row \in Row(Channel)
    BY <2>1 DEF Superseded, Row, Status, StopReason, TERMINAL_STATUSES
  <2> QED BY <2>1, <2>2, FlushWhole, InstructionsOf DEF r
<1> HIDE DEF seen, c, k, a, late
<1>9. row' = [t \in 1..e |-> IF t = e THEN NewTurn(c, k, a)
                             ELSE IF t \in late THEN Superseded(row[t], e).row
                             ELSE row[t]]
  BY <1>1, <1>8
<1>10. log' = [t \in 1..e |-> IF t = e THEN NewLog
                              ELSE IF t \in late THEN AppendStep(log[t], Superseded(row[t], e).step)
                              ELSE log[t]]
  BY <1>1, <1>6
<1>11. Turns!HandleEvent(c, k, a)
  <2>1. a \in Turns!Decisions(k)
    BY <1>4, SameRules DEF Turns!Decisions
  <2>2. /\ Turns!NewTurn(c, k, a) = NewTurn(c, k, a) /\ Turns!NewLog = NewLog
        /\ \A t : Turns!Superseded(row[t], e) = Superseded(row[t], e)
        /\ \A t : Turns!AppendStep(log[t], Superseded(row[t], e).step)
                 = AppendStep(log[t], Superseded(row[t], e).step)
    BY SameRules
  <2>3. row' = [t \in 1..e |-> IF t = e THEN Turns!NewTurn(c, k, a)
                               ELSE IF t \in late THEN Turns!Superseded(row[t], e).row
                               ELSE row[t]]
    BY <1>9, <2>2, Zenon
  <2>4. log' = [t \in 1..e |-> IF t = e THEN Turns!NewLog
                               ELSE IF t \in late
                                    THEN Turns!AppendStep(log[t], Turns!Superseded(row[t], e).step)
                               ELSE log[t]]
    BY <1>10, <2>2, Zenon
  <2> QED BY <1>1, <1>5, <1>7, <2>1, <2>3, <2>4, Zenon DEF Turns!HandleEvent
<1>12. Turns!Next
  BY <1>4, <1>11, SameRules DEF Turns!Next
<1>13. InstructionsCounted'
  <2>1. NewTurn(c, k, a).instructions = 0 /\ loads \in Nat
    BY DEF NewTurn, SessionsInv, Bounded
  <2>2. ASSUME NEW t \in 1..e
        PROVE  row'[t].instructions <= loads
    <3>1. CASE t = e
      BY <1>9, <2>1, <3>1
    <3>2. CASE t # e /\ t \in late
      BY <1>2, <1>6, <1>8, <1>9, <3>2 DEF InstructionsCounted
    <3>3. CASE t # e /\ t \notin late
      BY <1>2, <1>6, <1>9, <3>3 DEF InstructionsCounted
    <3> QED BY <3>1, <3>2, <3>3
  <2> QED BY <1>1, <2>2 DEF InstructionsCounted, Turn
<1>14. SeenIsTrue(s)'
  BY <1>3, OpsDiffer DEF SeenIsTrue
<1> QED BY <1>1, <1>2, <1>3, <1>12, <1>13, <1>14, SerialByRequest

\* Whatever a turn may use, an investigation may.
LEMMA ToolsOfAction ==
  ASSUME NEW a \in Action
  PROVE  ActiveTool(a) \subseteq ActiveTool("investigate")
<1> DEFINE P == ACTIVE_TOOLS["investigate"]
<1>1. P = <<"search_knowledge", "list_sources", "get_proposal">>
  BY DEF ACTIVE_TOOLS
<1>2. "search_knowledge" \in ActiveTool("investigate")
  <2>1. 1 \in DOMAIN P /\ P[1] = "search_knowledge"
    BY <1>1
  <2> QED BY <2>1 DEF ActiveTool
<1>3. CASE a = "answer"
  <2>1. ACTIVE_TOOLS[a] = <<"search_knowledge">>
    BY <1>3 DEF ACTIVE_TOOLS
  <2>2. \A i \in DOMAIN ACTIVE_TOOLS[a] : ACTIVE_TOOLS[a][i] = "search_knowledge"
    BY <2>1
  <2> QED BY <1>2, <2>2 DEF ActiveTool
<1>4. CASE a = "pass"
  <2>1. DOMAIN ACTIVE_TOOLS[a] = {}
    BY <1>4 DEF ACTIVE_TOOLS
  <2> QED BY <2>1 DEF ActiveTool
<1> QED BY <1>3, <1>4 DEF Action

\* The tables stay: what is left of a worker's step is its sweep.
LEMMA SerialSweep ==
  ASSUME SessionsInv, SessionsInv', SerialFine, NEW w \in Worker, OnlyWorker(w),
         UNCHANGED tables, request' = request, loads' = loads,
         \A v \in Worker \ {w} : SameSweep(v), CopiesAreTrue(w)'
  PROVE  SerialFine' /\ Simulated
<1>1. InstructionsCounted'
  BY DEF SerialFine, InstructionsCounted, Turn, tables
<1> QED BY <1>1, SerialByWorker DEF Simulated

LEMMA SerialSelect ==
  ASSUME SessionsInv, SessionsInv', Serial, SerialFine, NEW w \in Worker, SelectPending(w)
  PROVE  SerialFine' /\ Simulated
<1> DEFINE f == [t \in Claimable |-> [row |-> row[t], lease |-> lease[t]]]
<1>1. /\ MayStart /\ UNCHANGED tables /\ request' = request /\ loads' = loads
      /\ Sweeps(w, "claiming", f, next[w], locked[w]) /\ next[w] \in 1..4
      /\ WorkersFine
  BY SweepSame DEF SelectPending, SessionsInv, WorkersFine, Sweeps
<1>2. OnlyWorker(w)
  BY <1>1 DEF MayStart, OnlyWorker
<1>3. DOMAIN f = Claimable /\ \A t \in Claimable : f[t].row = row[t] /\ row[t].status = "pending"
  BY DEF Claimable
<1> HIDE DEF f
<1>4. /\ \A v \in Worker \ {w} : SameSweep(v)
      /\ stage'[w] = "claiming" /\ copies'[w] = f
  BY <1>1, SweepStep
<1>5. CopiesAreTrue(w)'
  BY <1>1, <1>3, <1>4 DEF CopiesAreTrue, tables
<1> QED BY <1>1, <1>2, <1>4, <1>5, SerialSweep

LEMMA SerialClaim ==
  ASSUME SessionsInv, SessionsInv', SerialFine, NEW w \in Worker, FlushClaim(w)
  PROVE  SerialFine' /\ Simulated
<1> DEFINE g == copies[w]
           f == [t \in DOMAIN g |-> [g[t] EXCEPT !.lease = w]]
<1>1. /\ stage[w] = "claiming" /\ UNCHANGED tables /\ request' = request /\ loads' = loads
      /\ Sweeps(w, "working", f, 1, DOMAIN g)
      /\ WorkersFine /\ WorkerFine(w)
  BY DEF FlushClaim, SessionsInv, WorkersFine, Sweeps
<1>2. OnlyWorker(w)
  BY <1>1 DEF SerialFine, Alone
<1>3. \A t \in DOMAIN g : row[t].status = "pending" /\ g[t].row = row[t]
  BY <1>1 DEF SerialFine, CopiesAreTrue, WorkerFine
<1>4. \A t \in DOMAIN g : g[t] \in [row : Row(Channel), lease : Worker \cup {NoWorker}]
  BY <1>1 DEF WorkerFine, CopiesFine, Copy
<1>5. DOMAIN f = DOMAIN g /\ \A t \in DOMAIN g : f[t].row = g[t].row
  BY <1>4
<1> HIDE DEF f, g
<1>6. /\ \A v \in Worker \ {w} : SameSweep(v)
      /\ stage'[w] = "working" /\ copies'[w] = f /\ next'[w] = 1
  <2>1. 1 \in 1..4
    OBVIOUS
  <2> QED BY <1>1, <2>1, SweepStep
<1>7. CopiesAreTrue(w)'
  BY <1>1, <1>3, <1>5, <1>6 DEF CopiesAreTrue, tables
<1> QED BY <1>1, <1>2, <1>6, <1>7, SerialSweep

\* A copy of a closed turn says so; a readable one is the row itself.
LEMMA SerialReads ==
  ASSUME SessionsInv, SerialFine, NEW w \in Worker, NEW t, NEW r, Reads(w, t, r),
         stage[w] = "working"
  PROVE  /\ OnlyWorker(w) /\ t \in Turn /\ t \in Turns!Turn /\ r = row[t]
         /\ r.status \in {"pending", "running", "completed"}
         /\ next[w] # 1 => r.status # "pending"
<1>1. OnlyWorker(w) /\ CopiesAreTrue(w)
  BY DEF SerialFine, Alone
<1>2. t \in Turn
  BY ReadCopy
<1> QED BY <1>1, <1>2, SameRules DEF CopiesAreTrue, Reads

LEMMA SerialAdvance ==
  ASSUME SessionsInv, SessionsInv', SerialFine, NEW w \in Worker, WorkerAdvance(w)
  PROVE  SerialFine' /\ Turns!Next
<1>1. PICK t \in DOMAIN copies[w] : \E r \in {copies[w][t].row} :
        /\ Holds(w, t, r)
        /\ next[w] <= Len(Plan(r)) /\ ~Exhausted(r)
        /\ CanAdvance(r, Plan(r)[next[w]])
        /\ WorkerWrites(w, t, Advanced(r))
        /\ stage' = [stage EXCEPT ![w] = "refreshing"]
        /\ UNCHANGED <<copies, next>>
  BY DEF WorkerAdvance
<1> DEFINE r == copies[w][t].row
           tool == Plan(r)[next[w]]
           x == Advanced(r)
<1>2. /\ Reads(w, t, r) /\ stage[w] = "working" /\ ~IsTerminal(r)
      /\ next[w] <= Len(Plan(r)) /\ CanAdvance(r, tool)
      /\ row' = [row EXCEPT ![t] = Flush(@, r, x.row)]
      /\ log' = [log EXCEPT ![t] = AppendStep(@, x.step)]
      /\ opened' = opened /\ request' = request /\ loads' = loads
      /\ locked' = [locked EXCEPT ![w] = {}]
      /\ stage' = [stage EXCEPT ![w] = "refreshing"]
      /\ copies' = copies /\ next' = next
  BY <1>1 DEF Holds, Reads, CanAdvance, WorkerWrites
<1>3. OnlyWorker(w) /\ t \in Turn /\ t \in Turns!Turn /\ r = row[t]
  BY <1>2, SerialReads
<1>4. OpenCopy(r) /\ r \in Row(Channel)
  BY <1>2, ReadCopy
<1>5. /\ WorkersFine /\ WorkerFine(w) /\ CopiesFine(w) /\ CopiesAreTrue(w) /\ next[w] \in 1..4
  BY DEF SessionsInv, WorkersFine, WorkerFine, SerialFine, SweepsTyped
<1>6. tool \in ActiveTool(r.action) /\ ActiveTool(r.action) \subseteq ActiveTool("investigate")
  <2>1. \A n \in 1..Len(Plan(r)) : Plan(r)[n] \in ActiveTool(r.action)
    BY <1>4, PlanLength
  <2>2. Len(Plan(r)) \in 0..3
    BY <1>4, PlanLength
  <2>3. next[w] \in 1..Len(Plan(r))
    BY <1>2, <1>5, <2>2
  <2>4. r.action \in Action
    BY <1>4 DEF Row
  <2>5. ActiveTool(r.action) \subseteq ActiveTool("investigate")
    BY <2>4, ToolsOfAction
  <2> QED BY <2>1, <2>3, <2>5
<1> HIDE DEF tool, r
<1>7. /\ Allowed(r, x, r.by) /\ x.row \in Row(Channel)
      /\ x.row.instructions = r.instructions
      /\ x.row.status \in {"running", "completed"}
  <2>1. Allowed(r, x, r.by)
    BY <1>2, <1>4, AdvancedAllowed
  <2>2. x.row.status \in {"running", "completed"}
    BY <1>4 DEF Advanced, Closed, Row
  <2> QED BY <1>4, <2>1, <2>2, InstructionsOf DEF Allowed
<1> HIDE DEF x
<1>8. /\ Turns!Commit(t, x) /\ Turn' = Turn
      /\ \A u \in Turn : row'[u] = IF u = t THEN x.row ELSE row[u]
  BY <1>2, <1>3, <1>7, Commits
<1>9. Turns!Next
  <2>1. Turns!AdvanceTurn(t, tool)
    BY <1>2, <1>3, <1>8, SameRules DEF Turns!AdvanceTurn, x
  <2> QED BY <1>3, <1>6, <2>1, SameRules DEF Turns!Next
<1>10. /\ \A v \in Worker \ {w} : SameSweep(v)
       /\ stage'[w] = "refreshing" /\ copies'[w] = copies[w] /\ next'[w] = next[w]
  <2>1. Sweeps(w, "refreshing", copies[w], next[w], {})
    BY <1>2, <1>5, SweepSame DEF Sweeps
  <2> QED BY <2>1, <1>5, SweepStep
<1>11. Current(w)' = Current(w) /\ t = Current(w)
  BY <1>2, <1>10, CurrentIs DEF Reads
<1>12. CopiesAreTrue(w)'
  <2>1. ASSUME NEW u \in DOMAIN copies[w]
        PROVE  /\ u \in Turn
               /\ u # t => row'[u] = row[u] /\ row[u].status = "pending"
                           /\ (copies[w][u] # Stale => copies[w][u].row = row[u])
               /\ u = t => row'[u].status \in {"running", "completed"}
    BY <1>2, <1>3, <1>5, <1>7, <1>8, <1>11, <2>1 DEF CopiesFine, CopiesAreTrue
  <2> QED BY <1>10, <1>11, <2>1 DEF CopiesAreTrue
<1>13. InstructionsCounted'
  BY <1>2, <1>3, <1>7, <1>8 DEF SerialFine, InstructionsCounted
<1> QED BY <1>2, <1>3, <1>9, <1>10, <1>12, <1>13, SerialByWorker

LEMMA SerialReread ==
  ASSUME SessionsInv, SessionsInv', SerialFine, NEW w \in Worker, RefreshCopy(w) \/ Reload(w)
  PROVE  SerialFine' /\ Simulated
<1> DEFINE t == Current(w)
           p == Len(Plan(row[t]))
           n == IF stage[w] = "working" THEN next[w]
                ELSE IF row[t].reason = "budget_exhausted" THEN p + 1 ELSE next[w] + 1
           z == [row |-> row[t], lease |-> lease[t]]
<1>1. /\ stage[w] \in {"working", "refreshing"}
      /\ stage' = [stage EXCEPT ![w] = "working"]
      /\ copies' = [copies EXCEPT ![w] = [copies[w] EXCEPT ![t] = z]]
      /\ next' = [next EXCEPT ![w] = n] /\ locked' = locked
      /\ UNCHANGED <<opened, row, log, arrived>> /\ UNCHANGED tables
      /\ request' = request /\ loads' = loads
  <2>1. WorkersFine
    BY DEF SessionsInv
  <2>2. CASE RefreshCopy(w)
    BY <2>2 DEF RefreshCopy, tables, history
  <2>3. CASE Reload(w)
    BY <2>1, <2>3, SweepSame DEF Reload, tables, history
  <2> QED BY <2>2, <2>3
<1>2. /\ WorkersFine /\ WorkerFine(w) /\ CopiesFine(w) /\ RowsFine /\ CopiesAreTrue(w)
      /\ next[w] \in 1..4 /\ OnlyWorker(w)
  BY <1>1 DEF SessionsInv, WorkersFine, WorkerFine, SweepsTyped, SerialFine, Alone
<1>3. stage[w] = "refreshing" => t \in Turn /\ next[w] <= 3 /\ p \in 0..3 /\ n >= 2
  <2> SUFFICES ASSUME stage[w] = "refreshing"
               PROVE  t \in Turn /\ next[w] <= 3 /\ p \in 0..3 /\ n >= 2
    OBVIOUS
  <2>1. t \in Turn /\ next[w] <= 3
    BY <1>2 DEF WorkerFine, CopiesFine
  <2>2. row[t] \in Row(Channel) /\ (row[t].action = "pass" => row[t].reason = "passed")
    <3> DEFINE q == row[t]
    <3>1. RowFine(q, log[t])
      BY <1>2, <2>1 DEF RowsFine
    <3> HIDE DEF q
    <3>2. q \in Row(Channel) /\ (q.action = "pass" => q = NewTurn(q.channel, q.kind, "pass"))
      BY <3>1 DEF RowFine
    <3>3. NewTurn(q.channel, q.kind, "pass").reason = "passed"
      BY DEF NewTurn
    <3> QED BY <3>2, <3>3 DEF q
  <2>3. p \in 0..3 /\ (row[t].action # "pass" => p >= 1)
    BY <2>2, PlanLength
  <2> HIDE DEF p
  <2> QED BY <1>2, <2>1, <2>2, <2>3
<1> HIDE DEF p
<1>4. n \in 1..4
  BY <1>1, <1>2, <1>3
<1>5. stage[w] = "working" => n = next[w]
  OBVIOUS
<1>6. z.row = row[t]
  OBVIOUS
<1> HIDE DEF n, z, t
<1>7. /\ \A v \in Worker \ {w} : SameSweep(v)
      /\ stage'[w] = "working" /\ copies'[w] = [copies[w] EXCEPT ![t] = z] /\ next'[w] = n
  <2>1. Sweeps(w, "working", [copies[w] EXCEPT ![t] = z], n, locked[w])
    BY <1>1, <1>2, SweepSame DEF Sweeps
  <2> QED BY <2>1, <1>2, <1>4, SweepStep
<1>8. DOMAIN copies'[w] = DOMAIN copies[w] /\ Current(w)' = t
  BY <1>7, CurrentIs DEF t
<1>9. CopiesAreTrue(w)'
  <2>1. \A u \in DOMAIN copies[w] : copies'[w][u] = IF u = t THEN z ELSE copies[w][u]
    BY <1>7
  <2>2. ASSUME NEW u \in DOMAIN copies[w]
        PROVE  /\ copies'[w][u] # Stale => copies'[w][u].row = row[u]
               /\ IF u # t \/ n = 1 THEN row[u].status = "pending"
                                    ELSE row[u].status \in {"running", "completed"}
    BY <1>1, <1>2, <1>3, <1>5, <1>6, <2>1 DEF CopiesAreTrue, t
  <2> QED BY <1>1, <1>7, <1>8, <2>2 DEF CopiesAreTrue
<1> QED BY <1>1, <1>2, <1>7, <1>9, SerialSweep

\* The worker goes on with turns that it has not begun.
LEMMA SerialMoves ==
  ASSUME SessionsInv, SerialFine, NEW w \in Worker, NEW t, NEW f,
         MoveOn(w, t, f), locked' = [locked EXCEPT ![w] = {}],
         DOMAIN f = DOMAIN copies[w] \ {Current(w)},
         stage[w] \in {"working", "refreshing"},
         \A u \in DOMAIN f : f[u] = Stale \/ f[u] = copies[w][u],
         \A u \in DOMAIN f : row'[u] = row[u]
  PROVE  CopiesAreTrue(w)' /\ \A v \in Worker \ {w} : SameSweep(v)
<1>1. WorkersFine
  BY DEF SessionsInv
<1>2. /\ SweepsTyped' /\ \A v \in Worker \ {w} : SameSweep(v)
      /\ stage'[w] = (IF f = <<>> THEN "idle" ELSE "working")
      /\ copies'[w] = f /\ next'[w] = 1 /\ locked'[w] = {}
  BY <1>1, SweepMoved
<1>3. ASSUME NEW u \in DOMAIN f
      PROVE  row'[u].status = "pending" /\ (f[u] # Stale => f[u].row = row'[u])
  BY DEF SerialFine, CopiesAreTrue
<1>4. DOMAIN <<>> = {}
  OBVIOUS
<1>5. DOMAIN f # {} => stage'[w] = "working"
  BY <1>2, <1>4
<1> QED BY <1>2, <1>3, <1>5 DEF CopiesAreTrue

\* Without overlaps no step is refused: the copy is not at the gate.
LEMMA SerialEnding ==
  ASSUME SessionsInv, SerialFine, NEW w \in Worker, Finishes(w)
  PROVE  \E t, r, x :
           /\ Ends(w, t, r, x) /\ r = row[t] /\ t \in Turns!Turn
           /\ \/ IsTerminal(r)
              \/ /\ x.row.instructions = r.instructions
                 /\ Turns!Commit(t, x) => Turns!Next
<1>1. \E t \in DOMAIN copies[w] : Holds(w, t, copies[w][t].row)
  BY DEF Finishes, LeaveClosed, FinishPlan, StopExhausted, FailStep, ToolFails
<1> DEFINE t == Current(w)
           r == copies[w][t].row
           tool == Plan(r)[next[w]]
<1>2. Reads(w, t, r) /\ stage[w] = "working"
  BY <1>1 DEF Holds, Reads
<1>3. /\ t \in Turn /\ t \in Turns!Turn /\ r = row[t]
      /\ r.status \in {"pending", "running", "completed"}
      /\ (next[w] # 1 => r.status # "pending")
  BY <1>2, SerialReads
<1>4. r \in Row(Channel) /\ (~IsTerminal(r) => OpenCopy(r)) /\ next[w] \in 1..4
      /\ RowFine(r, log[t])
  BY <1>2, <1>3, ReadCopy DEF SessionsInv, WorkersFine, SweepsTyped, RowsFine
<1>5. /\ Len(Plan(r)) \in 0..3
      /\ r.action # "pass" => Len(Plan(r)) >= 1
      /\ \A n \in 1..Len(Plan(r)) : Plan(r)[n] \in ActiveTool(r.action)
      /\ ActiveTool(r.action) \subseteq ActiveTool("investigate")
  <2>1. r.action \in Action
    BY <1>4 DEF Row
  <2> QED BY <1>4, <2>1, PlanLength, ToolsOfAction
<1>6. ~IsTerminal(r) => /\ r.action # "pass" /\ IsActive(r)
                        /\ r.status \in {"pending", "running"}
  BY <1>3, <1>4 DEF RowFine, NewTurn, IsTerminal, IsActive, TERMINAL_STATUSES
<1>7. next[w] <= Len(Plan(r)) => tool \in ActiveTool(r.action) /\ tool \in ActiveTool("investigate")
  BY <1>4, <1>5
<1> DEFINE Good(x) == /\ Ends(w, t, r, x) /\ r = row[t] /\ t \in Turns!Turn
                      /\ \/ IsTerminal(r)
                         \/ /\ x.row.instructions = r.instructions
                            /\ Turns!Commit(t, x) => Turns!Next
<1>8. CASE LeaveClosed(w)
  <2> DEFINE x == [row |-> r, step |-> NoStep]
  <2>1. IsTerminal(r) /\ FinishTurn(w, t, x)
    BY <1>8 DEF LeaveClosed, Holds
  <2>2. Good(x)
    BY <1>2, <1>3, <2>1 DEF Ends
  <2> QED BY <2>2
<1>9. CASE FinishPlan(w)
  <2>1. ~IsTerminal(r) /\ next[w] > Len(Plan(r)) /\ FinishTurn(w, t, PlanComplete(r))
    BY <1>9 DEF FinishPlan, Holds
  <2>2. r.status = "running"
    BY <1>3, <1>4, <1>5, <1>6, <2>1
  <2>3. Turns!Commit(t, PlanComplete(r)) => Turns!CompletePlan(t)
    BY <1>3, <2>2, SameRules DEF Turns!CompletePlan
  <2>4. Turns!Commit(t, PlanComplete(r)) => Turns!Next
    BY <1>3, <2>3 DEF Turns!Next
  <2>5. Ends(w, t, r, PlanComplete(r))
    BY <1>2, <1>4, <2>1, EndingsAllowed DEF Ends
  <2>6. Good(PlanComplete(r))
    BY <1>3, <1>4, <2>4, <2>5, InstructionsOf
  <2> QED BY <2>6
<1>10. CASE StopExhausted(w)
  <2> DEFINE x == [row |-> Closed(r, "completed", "budget_exhausted"), step |-> NoteStep("stop")]
  <2>1. ~IsTerminal(r) /\ next[w] <= Len(Plan(r)) /\ Exhausted(r) /\ FinishTurn(w, t, x)
    BY <1>10 DEF StopExhausted, Holds
  <2>2. CanAdvance(r, tool) /\ Advanced(r) = x
    BY <1>6, <2>1 DEF CanAdvance, Advanced
  <2>3. Turns!Commit(t, Advanced(r)) => Turns!AdvanceTurn(t, tool)
    BY <1>3, <2>2, SameRules DEF Turns!AdvanceTurn
  <2>4. Turns!Commit(t, Advanced(r)) => Turns!Next
    BY <1>3, <1>7, <2>1, <2>3, SameRules DEF Turns!Next
  <2>5. Ends(w, t, r, x)
    BY <1>2, <1>4, <2>1, EndingsAllowed DEF Ends
  <2>6. Good(x)
    BY <1>3, <1>4, <2>2, <2>4, <2>5, InstructionsOf
  <2> QED BY <2>6
<1>11. CASE FailStep(w)
  <2>1. /\ ~IsTerminal(r) /\ next[w] <= Len(Plan(r)) /\ ~CanAdvance(r, tool)
    BY <1>11 DEF FailStep, Holds
  <2>2. CanAdvance(r, tool)
    BY <1>6, <1>7, <2>1 DEF CanAdvance
  <2> QED BY <2>1, <2>2
<1>12. CASE ToolFails(w)
  <2>1. ~IsTerminal(r) /\ FinishTurn(w, t, WorkerError(r))
    BY <1>12 DEF ToolFails, Holds
  <2>2. Turns!Commit(t, WorkerError(r)) => Turns!FailTurn(t)
    BY <1>3, <1>6, <2>1, SameRules DEF Turns!FailTurn
  <2>3. Turns!Commit(t, WorkerError(r)) => Turns!Next
    BY <1>3, <2>2 DEF Turns!Next
  <2>4. Ends(w, t, r, WorkerError(r))
    BY <1>2, <1>4, <2>1, EndingsAllowed DEF Ends
  <2>5. Good(WorkerError(r))
    BY <1>3, <1>4, <2>3, <2>4, InstructionsOf
  <2> QED BY <2>5
<1> QED BY <1>8, <1>9, <1>10, <1>11, <1>12 DEF Finishes

LEMMA SerialFinish ==
  ASSUME SessionsInv, SessionsInv', SerialFine, NEW w \in Worker, Finishes(w)
  PROVE  SerialFine' /\ Simulated
<1>1. PICK t, r, x :
        /\ Ends(w, t, r, x) /\ r = row[t] /\ t \in Turns!Turn
        /\ \/ IsTerminal(r)
           \/ /\ x.row.instructions = r.instructions
              /\ Turns!Commit(t, x) => Turns!Next
  BY SerialEnding
<1> DEFINE f == Without(copies[w], t)
<1>2. /\ Reads(w, t, r) /\ stage[w] = "working" /\ t = Current(w)
      /\ FinishTurn(w, t, x) /\ WorkerWrites(w, t, x) /\ MoveOn(w, t, f)
      /\ row' = [row EXCEPT ![t] = Flush(@, r, x.row)]
      /\ log' = [log EXCEPT ![t] = AppendStep(@, x.step)]
      /\ opened' = opened /\ request' = request /\ loads' = loads
      /\ locked' = [locked EXCEPT ![w] = {}]
  BY <1>1 DEF Ends, Reads, FinishTurn, WorkerWrites
<1>3. OnlyWorker(w) /\ t \in Turn /\ r \in Row(Channel)
  BY <1>2, SerialReads, ReadCopy
<1>4. /\ Turn' = Turn /\ Simulated
      /\ \A u \in Turn \ {t} : row'[u] = row[u]
      /\ row'[t].instructions = row[t].instructions
  <2>1. CASE IsTerminal(r)
    <3>1. x = [row |-> r, step |-> NoStep]
      BY <1>1, <2>1 DEF Ends
    <3>2. UNCHANGED <<opened, row, log, arrived>>
      BY <1>2, <3>1, NothingWritten
    <3> QED BY <3>2 DEF Simulated, tables, Turn
  <2>2. CASE ~IsTerminal(r)
    <3>1. Allowed(r, x, r.by) /\ x.row.instructions = r.instructions
      BY <1>1, <2>2 DEF Ends
    <3>2. x.row \in Row(Channel)
      BY <3>1 DEF Allowed
    <3>3. /\ Turns!Commit(t, x) /\ Turn' = Turn
          /\ \A u \in Turn : row'[u] = IF u = t THEN x.row ELSE row[u]
      BY <1>1, <1>2, <1>3, <3>2, Commits
    <3> QED BY <1>1, <1>3, <2>2, <3>1, <3>3 DEF Simulated
  <2> QED BY <2>1, <2>2
<1>5. /\ DOMAIN f = DOMAIN copies[w] \ {Current(w)}
      /\ \A u \in DOMAIN f : f[u] = Stale \/ f[u] = copies[w][u]
  BY <1>2 DEF Without
<1>6. \A u \in DOMAIN f : row'[u] = row[u]
  <2>1. DOMAIN copies[w] \subseteq Turn
    BY DEF SessionsInv, WorkersFine, WorkerFine, CopiesFine
  <2> QED BY <1>2, <1>4, <1>5, <2>1
<1> HIDE DEF f
<1>7. CopiesAreTrue(w)' /\ \A v \in Worker \ {w} : SameSweep(v)
  BY <1>2, <1>5, <1>6, SerialMoves
<1>8. InstructionsCounted'
  BY <1>2, <1>4 DEF SerialFine, InstructionsCounted
<1> QED BY <1>2, <1>3, <1>4, <1>7, <1>8, SerialByWorker

LEMMA SerialRollBack ==
  ASSUME SessionsInv, SessionsInv', SerialFine, NEW w \in Worker, RollBack(w)
  PROVE  SerialFine' /\ Simulated
<1>0. PICK t \in DOMAIN copies[w] :
        t = Current(w) /\ MoveOn(w, t, [u \in DOMAIN copies[w] \ {t} |-> Stale])
  BY DEF RollBack
<1> DEFINE f == [u \in DOMAIN copies[w] \ {t} |-> Stale]
<1>1. /\ MoveOn(w, t, f) /\ stage[w] \in {"working", "refreshing"}
      /\ locked' = [locked EXCEPT ![w] = {}] /\ loads' = loads
      /\ UNCHANGED tables /\ row' = row /\ request' = request
  BY <1>0 DEF RollBack, tables
<1>2. OnlyWorker(w)
  BY <1>1 DEF SerialFine, Alone
<1>3. DOMAIN f = DOMAIN copies[w] \ {Current(w)} /\ \A u \in DOMAIN f : f[u] = Stale
  BY <1>0
<1> HIDE DEF f
<1>4. CopiesAreTrue(w)' /\ \A v \in Worker \ {w} : SameSweep(v)
  BY <1>1, <1>3, SerialMoves
<1> QED BY <1>1, <1>2, <1>4, SerialSweep

LEMMA SerialCrash ==
  ASSUME SessionsInv, SessionsInv', SerialFine, NEW w \in Worker, Crash(w)
  PROVE  SerialFine' /\ Simulated
<1>1. /\ Sweeps(w, "idle", <<>>, 1, {}) /\ stage[w] # "idle"
      /\ UNCHANGED tables /\ request' = request /\ loads' = loads
  BY DEF Crash, Sweeps
<1>2. OnlyWorker(w) /\ WorkersFine
  BY <1>1 DEF SerialFine, Alone, SessionsInv
<1>3. /\ \A v \in Worker \ {w} : SameSweep(v)
      /\ copies'[w] = <<>>
  <2>1. 1 \in 1..4
    OBVIOUS
  <2> QED BY <1>1, <1>2, <2>1, SweepStep
<1>4. DOMAIN <<>> = {}
  OBVIOUS
<1>5. CopiesAreTrue(w)'
  BY <1>3, <1>4 DEF CopiesAreTrue
<1> QED BY <1>1, <1>2, <1>3, <1>5, SerialSweep

\* Time passes, or nothing happens.
LEMMA SerialStutter ==
  ASSUME SessionsInv, SerialFine, UNCHANGED <<opened, row, log, request, loads>>, UNCHANGED workers
  PROVE  SerialFine' /\ Simulated
<1>1. /\ opened' = opened /\ row' = row /\ request' = request /\ loads' = loads
      /\ stage' = stage /\ copies' = copies /\ next' = next /\ locked' = locked
      /\ UNCHANGED tables
  BY DEF workers, tables
<1>2. Alone' /\ InstructionsCounted'
  BY <1>1 DEF SerialFine, Alone, OnlyRequest, OnlyWorker, InstructionsCounted, Turn
<1>3. \A s \in Request : SeenIsTrue(s)'
  BY <1>1 DEF SerialFine, SeenIsTrue, OpenOn, Turn
<1>4. \A w \in Worker : CopiesAreTrue(w)'
  BY <1>1 DEF SerialFine, CopiesAreTrue, Current
<1> QED BY <1>1, <1>2, <1>3, <1>4 DEF SerialFine, Simulated

LEMMA SerialNext ==
  ASSUME SessionsInv, SerialInv, [SessionsNext]_sessionVars, Serial
  PROVE  SerialInv' /\ Simulated
<1>1. SerialFine
  BY DEF SerialInv
<1>2. SessionsInv'
  BY SessionsStepOK
<1>3. ASSUME NEW s \in Request, RequestStep(s)
      PROVE  SerialFine' /\ Simulated
  <2>1. ASSUME SaveTurn(s) PROVE SerialFine' /\ Simulated
    BY <1>1, <1>2, <2>1, SerialSaves DEF Simulated
  <2>2. ASSUME SaveEvent(s) PROVE SerialFine' /\ Simulated
    BY <1>1, <1>2, <2>2, SerialEvent DEF Simulated
  <2>3. ASSUME NEW t \in Turn, LoadTurn(s, t) PROVE SerialFine' /\ Simulated
    BY <1>1, <1>2, <2>3, SerialLoad
  <2>4. ASSUME NEW c, NEW k, NEW a, InsertEvent(s, c, k, a) PROVE SerialFine' /\ Simulated
    BY <1>1, <1>2, <2>4, SerialInsert
  <2>5. ASSUME SelectOpen(s) PROVE SerialFine' /\ Simulated
    BY <1>1, <1>2, <2>5, SerialSearch
  <2>6. ASSUME Refuse(s) PROVE SerialFine' /\ Simulated
    BY <1>1, <1>2, <2>6, SerialRefuse
  <2> QED BY <1>3, <2>1, <2>2, <2>3, <2>4, <2>5, <2>6 DEF RequestStep, SaveTurn
<1>4. ASSUME NEW w \in Worker, WorkerStep(w) \/ ToolFails(w) \/ RollBack(w) \/ Crash(w)
      PROVE  SerialFine' /\ Simulated
  <2>1. ASSUME Finishes(w) PROVE SerialFine' /\ Simulated
    BY <1>1, <1>2, <2>1, SerialFinish
  <2>2. ASSUME WorkerAdvance(w) PROVE SerialFine' /\ Simulated
    BY <1>1, <1>2, <2>2, SerialAdvance DEF Simulated
  <2>3. ASSUME SelectPending(w) \/ FlushClaim(w) PROVE SerialFine' /\ Simulated
    BY <1>1, <1>2, <2>3, SerialSelect, SerialClaim
  <2>4. ASSUME RefreshCopy(w) \/ Reload(w) PROVE SerialFine' /\ Simulated
    BY <1>1, <1>2, <2>4, SerialReread
  <2>5. ASSUME RollBack(w) \/ Crash(w) PROVE SerialFine' /\ Simulated
    BY <1>1, <1>2, <2>5, SerialRollBack, SerialCrash
  <2> QED BY <1>4, <2>1, <2>2, <2>3, <2>4, <2>5 DEF WorkerStep, Finishes
<1>5. ASSUME NEW t \in Turn, ExpireLease(t)
      PROVE  SerialFine' /\ Simulated
  <2>1. UNCHANGED <<opened, row, log, request, loads>> /\ UNCHANGED workers
    BY <1>5 DEF ExpireLease, tables
  <2> QED BY <1>1, <2>1, SerialStutter
<1>6. ASSUME UNCHANGED sessionVars
      PROVE  SerialFine' /\ Simulated
  <2>1. UNCHANGED <<opened, row, log, request, loads>> /\ UNCHANGED workers
    BY <1>6 DEF sessionVars, workers
  <2> QED BY <1>1, <2>1, SerialStutter
<1>7. SerialFine' /\ Simulated
  BY <1>3, <1>4, <1>5, <1>6 DEF SessionsNext
<1> QED BY <1>7 DEF SerialInv

\* Sessions that do not overlap do what the handlers of Turns do: each commit
\* is one handler applied to the row as it is, and nothing else touches the
\* tables.
THEOREM SerialImplements ==
  ASSUME Serial
  PROVE  SessionsSpec => ImplementsTurns
<1>1. SessionsInit => SerialInv
  <2> SUFFICES ASSUME SessionsInit PROVE SerialFine
    BY DEF SerialInv
  <2>1. /\ Turn = {} /\ \A s \in Request : request[s] = Idle
        /\ \A w \in Worker : stage[w] = "idle" /\ copies[w] = <<>>
    BY DEF SessionsInit, NoTurns, Turn
  <2>2. DOMAIN <<>> = {}
    OBVIOUS
  <2>3. \A s \in Request : SeenIsTrue(s)
    BY <2>1, OpsDiffer DEF SeenIsTrue
  <2>4. \A w \in Worker : CopiesAreTrue(w)
    BY <2>1, <2>2 DEF CopiesAreTrue
  <2> QED BY <2>1, <2>3, <2>4 DEF SerialFine, Alone, InstructionsCounted
<1>2. SessionsInit => Turns!Init
  BY DEF SessionsInit, NoTurns, Turns!Init, Turns!NoTurns
<1>3. SessionsInv /\ SerialInv /\ [SessionsNext]_sessionVars
        => SerialInv' /\ [Turns!Next]_Turns!vars
  BY SerialNext DEF Simulated, tables, Turns!vars
<1> QED BY <1>1, <1>2, <1>3, SessionsInvariance, PTL DEF SessionsSpec, ImplementsTurns, Turns!Spec
=============================================================================
