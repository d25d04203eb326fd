----------------------------- MODULE TurnSessions -----------------------------
(***************************************************************************)
(* Turn handlers as they run: every API request and every sweep of a       *)
(* worker (api/brain/worker.py) is a database session of its own.  A       *)
(* session loads rows, decides on its copies and writes back the columns   *)
(* it changed; nothing in the row says that it changed in between.  The    *)
(* handlers' rules are those of TurnRules, applied to the copy.            *)
(*                                                                         *)
(* A commit of a request is one step: its statements wait for the rows a   *)
(* worker's uncommitted claim has locked, and nothing of it is visible     *)
(* before it ends.  An event is inserted, given its time of arrival and    *)
(* compared with the open turns before that.                               *)
(***************************************************************************)
EXTENDS TurnTables, Sequences, FiniteSets

CONSTANTS Acts,       \* the actions triage decides on, apart from "pass"
          Request,    \* bound: requests in flight
          MaxLoads,   \* bound: requests on turns, in all
          Worker,     \* worker processes
          NoWorker,   \* a null leased_by
          MaxFaults,  \* bound: crashes and failed transactions of workers
          Serial      \* TRUE: a session begins only when no other is open

ASSUME TurnSessionsAssumption ==
  /\ Acts \subseteq Action
  /\ IsFiniteSet(Request)
  /\ MaxLoads \in Nat /\ MaxFaults \in Nat
  /\ NoWorker \notin Worker
  /\ Serial \in BOOLEAN

VARIABLES lease,              \* leased_by
          expired,            \* the turns whose lease_expires_at has passed
          request,            \* per request: the copies it has loaded
          stage,              \* per worker: where it is in its sweep
          copies,             \* per worker: its copies of the turns still to process
          next,               \* per worker: the next tool of the current turn's plan
          locked,             \* per worker: the rows its open transaction has leased
          loads, faults,      \* requests on turns, failures: for the bounds
          arrived,            \* per turn: the turns committed when its event arrived
          givenUp             \* turns whose worker failed since it claimed them

tables   == <<opened, row, log>>
workers  == <<stage, copies, next, locked>>
\* Kept for the properties only.
history  == <<arrived, givenUp>>
sessionVars == <<opened, row, log, lease, expired, request, stage, copies, next, locked,
          loads, faults, arrived, givenUp>>

Idle == [op |-> "idle"]
\* A rollback expires every copy; it is read again when the turn comes up.
Stale == [row |-> "expired"]
Copy  == [row : Row(Channel), lease : Worker \cup {NoWorker}] \cup {Stale}

Seen(S) == [S -> Row(Channel)]
\* An event in hand: "inserted", and after the search for open turns "selected".
Arrival(S) == [op : {"inserted", "selected"}, channel : Channel, kind : Kinds,
               action : Acts \cup {"pass"}, after : 0..opened, seen : Seen(S)]

SessionsTypeOK ==
  /\ TablesOK
  /\ lease \in [Turn -> Worker \cup {NoWorker}]
  /\ expired \subseteq {t \in Turn : lease[t] # NoWorker}
  /\ \A s \in Request :
       \/ request[s] = Idle
       \/ request[s].op = "turn" /\ \E t \in Turn : request[s].seen \in Seen({t})
       \/ \E S \in SUBSET Turn : request[s] \in Arrival(S)
  /\ stage \in [Worker -> {"idle", "claiming", "working", "refreshing"}]
  /\ \A w \in Worker : /\ DOMAIN copies[w] \subseteq Turn
                       /\ \A t \in DOMAIN copies[w] : copies[w][t] \in Copy
                       /\ locked[w] \subseteq DOMAIN copies[w]
  /\ next \in [Worker -> 1..4]
  /\ loads \in 0..MaxLoads /\ faults \in 0..MaxFaults
  /\ arrived \in [Turn -> Nat] /\ givenUp \subseteq Turn

SessionsInit ==
  /\ NoTurns
  /\ lease = <<>> /\ expired = {}
  /\ request = [s \in Request |-> Idle]
  /\ stage = [w \in Worker |-> "idle"]
  /\ copies = [w \in Worker |-> <<>>]
  /\ next = [w \in Worker |-> 1]
  /\ locked = [w \in Worker |-> {}]
  /\ loads = 0 /\ faults = 0
  /\ arrived = <<>> /\ givenUp = {}

-----------------------------------------------------------------------------
(* Sessions.                                                               *)

\* What an UPDATE writes: the columns whose value differs from the one the
\* session loaded, over whatever the row holds by then.
Flush(now, loaded, changed) ==
  [f \in DOMAIN now |-> IF changed[f] # loaded[f] THEN changed[f] ELSE now[f]]

\* Rows that only the worker holding their lock can write.
LockedRows == UNION {locked[w] : w \in Worker}
FreeFor(w, S) == \A v \in Worker \ {w} : locked[v] \cap S = {}

MayStart ==
  Serial => /\ \A s \in Request : request[s] = Idle
            /\ \A w \in Worker : stage[w] = "idle"

\* load_turn
LoadTurn(s, t) ==
  /\ request[s] = Idle /\ MayStart
  /\ loads < MaxLoads /\ loads' = loads + 1
  /\ request' = [request EXCEPT ![s] = [op |-> "turn", seen |-> [u \in {t} |-> row[u]]]]
  /\ UNCHANGED <<tables, lease, expired, workers, faults, history>>

\* The open turns of a channel, for supersede_open_turns.
OpenOnAnyChannel(c) == {t \in Turn : IsOpen(row[t])}    \* slip: no channel filter
OpenOnActive(c) == {t \in Turn : IsActive(row[t]) /\ row[t].channel = c}
                                          \* slip: a gated turn is forgotten
OpenOnClosed(c) == {t \in Turn : row[t].channel = c}    \* slip: no status filter
OpenOn(c) == {t \in Turn : IsOpen(row[t]) /\ row[t].channel = c}

Arriving == {s \in Request : request[s].op \in {"inserted", "selected"}}

\* handle_event decides on an event and inserts it.
InsertEvent(s, c, k, a) ==
  /\ request[s] = Idle /\ MayStart
  /\ opened + Cardinality(Arriving) < MaxTurns
  /\ k = "ignored" => a = "pass"
  /\ request' = [request EXCEPT ![s] =
                   [op |-> "inserted", channel |-> c, kind |-> k, action |-> a,
                    after |-> opened, seen |-> <<>>]]
  /\ UNCHANGED <<tables, lease, expired, workers, loads, faults, history>>

SelectOpen(s) ==
  /\ request[s].op = "inserted" /\ Overtakes(request[s].kind, request[s].action)
  /\ request' = [request EXCEPT ![s].op = "selected",
                                ![s].seen = [t \in OpenOn(request[s].channel) |-> row[t]]]
  /\ UNCHANGED <<tables, lease, expired, workers, loads, faults, history>>

\* A refused request, or a stop of a turn it saw closed: nothing is written.
Refuse(s) ==
  /\ request[s].op = "turn"
  /\ request' = [request EXCEPT ![s] = Idle]
  /\ UNCHANGED <<tables, lease, expired, workers, loads, faults, history>>

\* A request that saw r commits the outcome of its handler.
Save(s, t, r, result) ==
  /\ t \notin LockedRows
  /\ row' = [row EXCEPT ![t] = Flush(@, r, result.row)]
  /\ log' = [log EXCEPT ![t] = AppendStep(@, result.step)]
  /\ request' = [request EXCEPT ![s] = Idle]
  /\ UNCHANGED <<opened, lease, expired, workers, loads, faults, history>>

TurnRequest(s, Rule(_), Result(_)) ==
  /\ request[s].op = "turn"
  /\ \E t \in DOMAIN request[s].seen :
       LET r == request[s].seen[t] IN Rule(r) /\ Save(s, t, r, Result(r))

SaveAdvance(s, tool) == LET Can(r) == CanAdvance(r, tool) IN TurnRequest(s, Can, Advanced)
SaveSuspend(s) == TurnRequest(s, CanSuspend, Suspended)
SaveResume(s, approved) ==
  LET Can(r) == CanResume(r, TRUE)
      Result(r) == Resumed(r, approved)
  IN TurnRequest(s, Can, Result)
SaveSteer(s) == TurnRequest(s, CanSteer, Steered)
SaveStop(s, said) ==
  LET Result(r) == Stopped(r, said)
  IN TurnRequest(s, CanStop, Result)

SaveEvent(s) ==
  LET new  == opened + 1
      c    == request[s].channel
      k    == request[s].kind
      a    == request[s].action
      seen == request[s].seen
      late == DOMAIN seen
  IN /\ s \in Arriving
     /\ request[s].op = IF Overtakes(k, a) THEN "selected" ELSE "inserted"
     /\ late \cap LockedRows = {}
     /\ opened' = new
     /\ row' = [t \in 1..new |->
                  IF t = new THEN NewTurn(c, k, a)
                  ELSE IF t \in late
                       THEN Flush(row[t], seen[t], Superseded(seen[t], new).row)
                  ELSE row[t]]
     /\ log' = [t \in 1..new |->
                  IF t = new THEN NewLog
                  ELSE IF t \in late
                       THEN AppendStep(log[t], Superseded(seen[t], new).step)
                  ELSE log[t]]
     /\ lease' = [t \in 1..new |-> IF t = new THEN NoWorker ELSE lease[t]]
     /\ arrived' = [t \in 1..new |-> IF t = new THEN request[s].after ELSE arrived[t]]
     /\ request' = [request EXCEPT ![s] = Idle]
     /\ UNCHANGED <<expired, workers, loads, faults, givenUp>>

-----------------------------------------------------------------------------
(* The worker.  A sweep claims the pending turns and processes them in the *)
(* order they were created, in one session.                                *)

ClaimableUnleased == {t \in Turn : row[t].status = "pending" /\ lease[t] = NoWorker}
                                          \* slip: an expired lease still counts
Claimable ==
  {t \in Turn : row[t].status = "pending" /\ (lease[t] = NoWorker \/ t \in expired)}

SelectPending(w) ==
  /\ stage[w] = "idle" /\ MayStart
  /\ Claimable # {}
  /\ stage'  = [stage EXCEPT ![w] = "claiming"]
  /\ copies' = [copies EXCEPT ![w] = [t \in Claimable |-> [row |-> row[t], lease |-> lease[t]]]]
  /\ UNCHANGED <<tables, lease, expired, request, next, locked, loads, faults, history>>

\* The leases are flushed, which locks the rows, and committed with the first
\* commit of the sweep.
FlushClaim(w) ==
  LET mine == DOMAIN copies[w]
  IN /\ stage[w] = "claiming"
     /\ FreeFor(w, mine)
     /\ stage'  = [stage EXCEPT ![w] = "working"]
     /\ copies' = [copies EXCEPT ![w] = [t \in mine |-> [@[t] EXCEPT !.lease = w]]]
     /\ next'   = [next EXCEPT ![w] = 1]
     /\ locked' = [locked EXCEPT ![w] = mine]
     /\ UNCHANGED <<tables, lease, expired, request, loads, faults, history>>

Current(w) == CHOOSE t \in DOMAIN copies[w] : \A u \in DOMAIN copies[w] : t <= u
Plan(r)    == ACTIVE_TOOLS[r.action]

\* The worker has a readable copy r of turn t at hand.
Holds(w, t, r) ==
  /\ stage[w] = "working"
  /\ t = Current(w) /\ copies[w][t] # Stale /\ r = copies[w][t].row

\* The worker's transaction ends well: what it leased becomes visible.
LeasedBy(w, t) == IF t \in locked[w] THEN w ELSE lease[t]

WorkerWrites(w, t, result) ==
  /\ FreeFor(w, {t})
  /\ row' = [row EXCEPT ![t] = Flush(@, copies[w][t].row, result.row)]
  /\ log' = [log EXCEPT ![t] = AppendStep(@, result.step)]
  /\ locked' = [locked EXCEPT ![w] = {}]
  /\ givenUp' = givenUp \ locked[w]
  /\ UNCHANGED <<opened, request, loads, faults, arrived>>

\* One tool of the plan: advance_turn commits, then reads the row again.
WorkerAdvance(w) ==
  \E t \in DOMAIN copies[w] : \E r \in {copies[w][t].row} :
    /\ Holds(w, t, r)
    /\ next[w] <= Len(Plan(r)) /\ ~Exhausted(r)
    /\ CanAdvance(r, Plan(r)[next[w]])
    /\ WorkerWrites(w, t, Advanced(r))
    /\ lease' = [u \in Turn |-> LeasedBy(w, u)]
    /\ expired' = expired \ locked[w]
    /\ stage' = [stage EXCEPT ![w] = "refreshing"]
    /\ UNCHANGED <<copies, next>>

RefreshCopy(w) ==
  LET t == Current(w)
  IN /\ stage[w] = "refreshing"
     /\ stage'  = [stage EXCEPT ![w] = "working"]
     /\ copies' = [copies EXCEPT ![w][t] = [row |-> row[t], lease |-> lease[t]]]
     /\ next'   = [next EXCEPT ![w] = IF row[t].reason = "budget_exhausted"
                                      THEN Len(Plan(row[t])) + 1 ELSE @ + 1]
     /\ UNCHANGED <<tables, lease, expired, request, locked, loads, faults, history>>

\* The worker is done with turn t and moves on to the rest of its batch.
MoveOn(w, t, rest) ==
  /\ copies' = [copies EXCEPT ![w] = rest]
  /\ stage'  = [stage EXCEPT ![w] = IF rest = <<>> THEN "idle" ELSE "working"]
  /\ next'   = [next EXCEPT ![w] = 1]
Without(f, t) == [u \in DOMAIN f \ {t} |-> f[u]]

\* The last commit of a turn also releases its lease.
KeepLease(w, t, result) ==                \* slip: the lease is left to expire
  /\ WorkerWrites(w, t, result)
  /\ lease' = [u \in Turn |-> LeasedBy(w, u)]
  /\ expired' = expired \ locked[w]
  /\ MoveOn(w, t, Without(copies[w], t))

FinishKeepingExpiry(w, t, result) ==      \* slip: lease_expires_at is left set
  /\ WorkerWrites(w, t, result)
  /\ lease' = [u \in Turn |-> IF u = t THEN NoWorker ELSE LeasedBy(w, u)]
  /\ expired' = expired \ (locked[w] \ {t})
  /\ MoveOn(w, t, Without(copies[w], t))

FinishTurn(w, t, result) ==
  LET unleased == IF copies[w][t].lease = NoWorker THEN {} ELSE {t}
  IN /\ WorkerWrites(w, t, result)
     /\ lease' = [u \in Turn |-> IF u \in unleased THEN NoWorker ELSE LeasedBy(w, u)]
     /\ expired' = expired \ (locked[w] \cup unleased)
     /\ MoveOn(w, t, Without(copies[w], t))

\* The copy says that the turn is closed: it is left as it is.
LeaveClosed(w) ==
  \E t \in DOMAIN copies[w] : \E r \in {copies[w][t].row} :
    /\ Holds(w, t, r) /\ IsTerminal(r)
    /\ FinishTurn(w, t, [row |-> r, step |-> NoStep])

FinishPlan(w) ==
  \E t \in DOMAIN copies[w] : \E r \in {copies[w][t].row} :
    /\ Holds(w, t, r) /\ ~IsTerminal(r) /\ next[w] > Len(Plan(r))
    /\ FinishTurn(w, t, PlanComplete(r))

\* The worker's own look at the budget, before it runs a tool.
StopExhausted(w) ==
  \E t \in DOMAIN copies[w] : \E r \in {copies[w][t].row} :
    /\ Holds(w, t, r) /\ ~IsTerminal(r) /\ next[w] <= Len(Plan(r)) /\ Exhausted(r)
    /\ FinishTurn(w, t, [row  |-> Closed(r, "completed", "budget_exhausted"),
                         step |-> NoteStep("stop")])

\* advance_turn refuses the copy: it is at the approval gate.
FailStep(w) ==
  \E t \in DOMAIN copies[w] : \E r \in {copies[w][t].row} :
    /\ Holds(w, t, r) /\ ~IsTerminal(r) /\ next[w] <= Len(Plan(r)) /\ ~Exhausted(r)
    /\ ~CanAdvance(r, Plan(r)[next[w]])
    /\ FinishTurn(w, t, StepError(r))

\* The tool itself raises, before advance_turn is called.
ToolFails(w) ==
  \E t \in DOMAIN copies[w] : \E r \in {copies[w][t].row} :
    /\ Holds(w, t, r) /\ ~IsTerminal(r) /\ next[w] <= Len(Plan(r)) /\ ~Exhausted(r)
    /\ FinishTurn(w, t, WorkerError(r))

\* The database refuses a statement: the sweep rolls back, gives up the turn
\* it was at and goes on with the others.
RollBack(w) ==
  \E t \in DOMAIN copies[w] :
    /\ stage[w] \in {"working", "refreshing"} /\ t = Current(w)
    /\ faults < MaxFaults
    /\ faults' = faults + 1
    /\ MoveOn(w, t, [u \in DOMAIN copies[w] \ {t} |-> Stale])
    /\ locked' = [locked EXCEPT ![w] = {}]
    /\ givenUp' = givenUp \cup {t}
    /\ UNCHANGED <<tables, lease, expired, request, loads, arrived>>

Reload(w) ==
  LET t == Current(w)
  IN /\ stage[w] = "working" /\ copies[w][t] = Stale
     /\ copies' = [copies EXCEPT ![w][t] = [row |-> row[t], lease |-> lease[t]]]
     /\ UNCHANGED <<tables, lease, expired, request, stage, next, locked, loads, faults, history>>

\* The worker process dies, or its claim fails: the session is gone.
Crash(w) ==
  /\ stage[w] # "idle"
  /\ faults < MaxFaults
  /\ faults' = faults + 1
  /\ stage'  = [stage EXCEPT ![w] = "idle"]
  /\ copies' = [copies EXCEPT ![w] = <<>>]
  /\ locked' = [locked EXCEPT ![w] = {}]
  /\ next'   = [next EXCEPT ![w] = 1]
  /\ givenUp' = givenUp \cup DOMAIN copies[w]
  /\ UNCHANGED <<tables, lease, expired, request, loads, arrived>>

ExpireLease(t) ==
  /\ lease[t] # NoWorker /\ t \notin expired
  /\ expired' = expired \cup {t}
  /\ UNCHANGED <<tables, lease, request, workers, loads, faults, history>>

-----------------------------------------------------------------------------
WorkerStep(w) ==
  \/ SelectPending(w) \/ FlushClaim(w) \/ WorkerAdvance(w) \/ RefreshCopy(w)
  \/ LeaveClosed(w) \/ FinishPlan(w) \/ StopExhausted(w) \/ FailStep(w) \/ Reload(w)

RequestStep(s) ==
  \/ \E t \in Turn : LoadTurn(s, t)
  \/ \E c \in Channel, k \in Kinds, a \in Acts \cup {"pass"} : InsertEvent(s, c, k, a)
  \/ SelectOpen(s)
  \/ Refuse(s)
  \/ \E tool \in ActiveTool("investigate") : SaveAdvance(s, tool)
  \/ SaveSuspend(s)
  \/ \E approved \in BOOLEAN : SaveResume(s, approved)
  \/ SaveSteer(s)
  \/ \E said \in Said : SaveStop(s, said)
  \/ SaveEvent(s)

SessionsNext ==
  \/ \E s \in Request : RequestStep(s)
  \/ \E w \in Worker : WorkerStep(w)
  \/ \E w \in Worker : ToolFails(w)
  \/ \E w \in Worker : RollBack(w)
  \/ \E w \in Worker : Crash(w)
  \/ \E t \in Turn : ExpireLease(t)

SessionsSpec == SessionsInit /\ [][SessionsNext]_sessionVars

\* A worker polls and goes on with what it has begun; time passes.  People
\* need not do anything.
Fairness ==
  /\ \A w \in Worker : WF_sessionVars(WorkerStep(w))
  /\ \A t \in 1..MaxTurns : WF_sessionVars(t \in Turn /\ ExpireLease(t))

FairSpec == SessionsSpec /\ Fairness

-----------------------------------------------------------------------------
(* What holds however the sessions interleave.                             *)

\* The charge is never ahead of the transcript: a turn charged with n steps
\* shows steps 1 to n, and no step is numbered beyond the budget, whatever
\* stale counters have been written over each other.
NeverOvercharged ==
  \A t \in Turn :
    /\ row[t].used <= Budget(row[t])
    /\ \A n \in 1..MaxBudget :
         /\ n <= row[t].used => log[t].tools[n] >= 1
         /\ n > Budget(row[t]) => log[t].tools[n] = 0

\* A decision in the transcript of a turn has its question there too, and a
\* turn that says it was approved or rejected has been at the gate and was
\* decided on, unless a person stopped it in just those words.
DecisionWasAsked ==
  \A t \in Turn :
    LET notes == log[t].notes
        asked == row[t].suspended /\ notes["suspend"] >= 1
    IN /\ notes["resume"] >= 1 => asked
       /\ row[t].reason \in {"approved", "approval_rejected"} =>
            (asked /\ notes["resume"] >= 1) \/ notes["stop"] >= 1

\* The decision to stay quiet is never revised, by anybody.
PassIsKept ==
  \A t \in Turn :
    row[t].action = "pass" =>
      row[t] = NewTurn(row[t].channel, row[t].kind, "pass") /\ log[t] = NewLog

\* A turn that was there when a displacing message arrived on its channel, the
\* gated ones included, has been given an ending by the time the turn of that
\* message is there: its own, or the displacement, which no stale write takes
\* back.  Nothing is said of a turn that was committed in between.
OvertakenIsClosed ==
  \A t, b \in Turn :
    /\ t <= arrived[b] /\ row[t].channel = row[b].channel
    /\ Overtakes(row[b].kind, row[b].action)
    => row[t].reason # "none"

\* Even a supersede that ran on stale copies names an acted-on message of the
\* turn's own channel that was committed after it.  That message may have
\* arrived first.
DisplacedByActing ==
  \A t \in Turn :
    row[t].status = "superseded" =>
      /\ row[t].by \in Turn /\ t < row[t].by
      /\ row[row[t].by].channel = row[t].channel
      /\ Overtakes(row[row[t].by].kind, row[row[t].by].action)

\* What a stale copy cannot undo: a decision was asked for, a pass is kept, and
\* a displacing message ends the turns it found and none of another channel.
SurvivesStaleCopies ==
  DecisionWasAsked /\ PassIsKept /\ OvertakenIsClosed /\ DisplacedByActing

\* A leased turn is one its worker still has to process, unless the worker
\* died or rolled back since it claimed that very turn.
LeaseIsHeld ==
  \A t \in Turn, w \in Worker :
    lease[t] = w => t \in DOMAIN copies[w] \/ t \in givenUp

\* A pending turn is taken up: by a worker, sooner or later, even if one died
\* holding its lease.
PendingTakenUp ==
  \A t \in 1..MaxTurns :
    (t \in Turn /\ row[t].status = "pending") ~> (t \in Turn /\ row[t].status # "pending")

\* A lease stays behind only on a turn whose worker failed, and keeps a
\* pending turn from the workers for a while only.  A turn that had taken a
\* step when its worker failed is not pending: its lease stays, and nothing is
\* promised of it, for no sweep claims it again.
LeasesServe == []LeaseIsHeld /\ PendingTakenUp

\* When sessions do not overlap, they are the handlers of Turns.
\* Each instruction takes a request.
Turns == INSTANCE Turns WITH MaxSteers <- MaxLoads
ImplementsTurns == Turns!Spec

=============================================================================
