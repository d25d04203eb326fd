---------------------------- MODULE StagedActions ----------------------------
(***************************************************************************)
(* The approval queue for writes to outside accounts                       *)
(* (api/brain/connections.py, connections_api.py): an action is staged as  *)
(* PENDING, and only an approval carries it out, through the tool broker.  *)
(* A request handler that has claimed an action works on it in several     *)
(* steps: the claim is committed before the broker is called and the       *)
(* outcome after it.  The broker may fail, may answer late or not at all,  *)
(* and may carry out a call whose caller has given up on it; the tool may  *)
(* answer without having done anything.                                    *)
(***************************************************************************)
EXTENDS Naturals

CONSTANTS ActionId,    \* staged actions
          Caller,      \* request handlers, each of one reviewer
          Nobody,      \* a null decided_by
          MaxAborts    \* bound: handlers that die or raise

ASSUME StagedAssumption == Nobody \notin Caller /\ MaxAborts \in Nat

VARIABLES status,      \* the row's status; "absent" before it is staged
          decidedBy,   \* decided_by_id
          wire,        \* tool calls the provider has yet to deal with
          effect,      \* times the provider has carried the action out
          answered,    \* actions whose call has got a result, whatever it says
          call,        \* per handler: the action it claimed and how far it is
          aborts

vars == <<status, decidedBy, wire, effect, answered, call, aborts>>

Settled == {"EXECUTED", "FAILED", "REJECTED"}
Status  == Settled \cup {"absent", "PENDING", "EXECUTING"}

Idle == [at |-> "idle"]
Busy(c, a, at) == call[c] = [at |-> at, on |-> a]

TypeOK ==
  /\ status \in [ActionId -> Status]
  /\ decidedBy \in [ActionId -> Caller \cup {Nobody}]
  /\ wire \in [ActionId -> Nat]
  /\ effect \in [ActionId -> Nat]
  /\ answered \subseteq ActionId
  /\ call \in [Caller -> {Idle} \cup [at : {"claimed", "asked", "signing"}, on : ActionId]]
  /\ aborts \in 0..MaxAborts

Init ==
  /\ status = [a \in ActionId |-> "absent"]
  /\ decidedBy = [a \in ActionId |-> Nobody]
  /\ wire = [a \in ActionId |-> 0]
  /\ effect = [a \in ActionId |-> 0]
  /\ answered = {}
  /\ call = [c \in Caller |-> Idle]
  /\ aborts = 0

-----------------------------------------------------------------------------
Stage(a) ==
  /\ status[a] = "absent"
  /\ status' = [status EXCEPT ![a] = "PENDING"]
  /\ UNCHANGED <<decidedBy, wire, effect, answered, call, aborts>>

\* The conditional update: only a pending row is claimed.  A handler that
\* changes no row answers 409 and is done.
CanClaimUndecided(a) == status[a] \in {"PENDING", "EXECUTING"}   \* slip: not decided yet
CanClaimStaged(a) == status[a] # "absent"                        \* slip: no status test
CanClaim(a) == status[a] = "PENDING"

Claim(c, a, claimed, at) ==
  /\ call[c] = Idle /\ CanClaim(a)
  /\ status' = [status EXCEPT ![a] = claimed]
  /\ call' = [call EXCEPT ![c] = [at |-> at, on |-> a]]
  /\ UNCHANGED <<decidedBy, wire, effect, answered, aborts>>

ClaimApprove(c, a) == Claim(c, a, "EXECUTING", "claimed")
ClaimReject(c, a)  == Claim(c, a, "REJECTED", "signing")

\* Who rejected it is a second transaction.
SignReject(c, a) ==
  /\ Busy(c, a, "signing")
  /\ decidedBy' = [decidedBy EXCEPT ![a] = c]
  /\ call' = [call EXCEPT ![c] = Idle]
  /\ UNCHANGED <<status, wire, effect, answered, aborts>>

\* get_bridge: nothing was sent, the action goes back to the queue.
NotConfigured(c, a) ==
  /\ Busy(c, a, "claimed")
  /\ status' = [status EXCEPT ![a] = "PENDING"]
  /\ call' = [call EXCEPT ![c] = Idle]
  /\ UNCHANGED <<decidedBy, wire, effect, answered, aborts>>

\* The broker's session is open and the tool call is on its way.
CallTool(c, a) ==
  /\ Busy(c, a, "claimed")
  /\ wire' = [wire EXCEPT ![a] = @ + 1]
  /\ call' = [call EXCEPT ![c] = [at |-> "asked", on |-> a]]
  /\ UNCHANGED <<status, decidedBy, effect, answered, aborts>>

\* The outcome and the decision are committed together.
Decide(c, a, outcome) ==
  /\ status' = [status EXCEPT ![a] = outcome]
  /\ decidedBy' = [decidedBy EXCEPT ![a] = c]
  /\ call' = [call EXCEPT ![c] = Idle]
  /\ UNCHANGED <<wire, effect, answered, aborts>>

ExecutedUnheard(c, a) == Busy(c, a, "asked") /\ Decide(c, a, "EXECUTED")
                                           \* slip: the answer is not waited for
\* Any result will do, also one in which the tool says that it failed.
Executed(c, a) == Busy(c, a, "asked") /\ a \in answered /\ Decide(c, a, "EXECUTED")

AfterErrorCode  == "bridge_timeout"        \* slip: the error stored as the status
AfterErrorRetry == "PENDING"               \* slip: an error is offered for approval again
AfterError      == "FAILED"

BridgeFailsUntimed(c, a) ==                \* slip: an answer is waited for without a timeout
  Busy(c, a, "claimed") /\ Decide(c, a, AfterError)

\* A BridgeError: no session, a refusal, or no answer within the timeout.
BridgeFails(c, a) ==
  /\ Busy(c, a, "claimed") \/ Busy(c, a, "asked")
  /\ Decide(c, a, AfterError)

\* The process dies, or an answer that cannot be read raises past the handler.
Abort(c) ==
  /\ call[c] # Idle
  /\ aborts < MaxAborts
  /\ aborts' = aborts + 1
  /\ call' = [call EXCEPT ![c] = Idle]
  /\ UNCHANGED <<status, decidedBy, wire, effect, answered>>

\* The provider deals with a call, whether or not anybody still waits.
Perform(a) ==
  /\ wire[a] > 0
  /\ wire' = [wire EXCEPT ![a] = @ - 1]
  /\ effect' = [effect EXCEPT ![a] = @ + 1]
  /\ answered' = answered \cup {a}
  /\ UNCHANGED <<status, decidedBy, call, aborts>>

\* The tool has done nothing, and says so in a result of its own, not in an
\* error of the broker.
Decline(a) ==
  /\ wire[a] > 0
  /\ wire' = [wire EXCEPT ![a] = @ - 1]
  /\ answered' = answered \cup {a}
  /\ UNCHANGED <<status, decidedBy, effect, call, aborts>>

\* The call is refused or goes astray.
LoseCall(a) ==
  /\ wire[a] > 0
  /\ wire' = [wire EXCEPT ![a] = @ - 1]
  /\ UNCHANGED <<status, decidedBy, effect, answered, call, aborts>>

HandlerStep(c, a) ==
  \/ SignReject(c, a) \/ NotConfigured(c, a) \/ CallTool(c, a)
  \/ Executed(c, a) \/ BridgeFails(c, a)

Next ==
  \/ \E a \in ActionId : Stage(a)
  \/ \E c \in Caller, a \in ActionId : ClaimApprove(c, a)
  \/ \E c \in Caller, a \in ActionId : ClaimReject(c, a)
  \/ \E c \in Caller, a \in ActionId : HandlerStep(c, a)
  \/ \E c \in Caller : Abort(c)
  \/ \E a \in ActionId : Perform(a)
  \/ \E a \in ActionId : Decline(a)
  \/ \E a \in ActionId : LoseCall(a)

Spec == Init /\ [][Next]_vars

\* A handler that is running goes on; the timeout of the broker's client sees
\* to it that no answer is waited for without end.
Fairness == \A c \in Caller, a \in ActionId : WF_vars(HandlerStep(c, a))
FairSpec == Spec /\ Fairness

-----------------------------------------------------------------------------
\* "Exactly-once: only one caller can move PENDING -> EXECUTING": however
\* often it is clicked, and whatever is retried or late, the provider is
\* asked at most once, and not again after it has answered.
AtMostOneEffect ==
  \A a \in ActionId : wire[a] + effect[a] <= 1 /\ (a \in answered => wire[a] = 0)

\* Nothing reaches an outside account before an approval, or after a
\* rejection; an action put back in the queue has not been sent.
NothingUnapproved ==
  \A a \in ActionId :
    status[a] \in {"absent", "PENDING", "REJECTED"} =>
      wire[a] = 0 /\ effect[a] = 0 /\ a \notin answered

\* An action reported as executed has its answer, nothing of it is on its way
\* still, and somebody answers for it.  What the answer says is not looked at:
\* nothing here says that the action was carried out.
ExecutedIsAnswered ==
  \A a \in ActionId :
    status[a] = "EXECUTED" => a \in answered /\ wire[a] = 0 /\ decidedBy[a] # Nobody

\* Two handlers never work on one action.
OneHandler ==
  \A c, d \in Caller, a \in ActionId :
    (\E p, q \in {"claimed", "asked", "signing"} : Busy(c, a, p) /\ Busy(d, a, q)) => c = d

\* An approved action is asked for once, by one handler, done at most once, and
\* called executed on an answer only.
DoneOnce == AtMostOneEffect /\ NothingUnapproved /\ ExecutedIsAnswered /\ OneHandler

\* A decision stands: neither the outcome nor the name under it is rewritten.
SettledIsFinal ==
  [][\A a \in ActionId :
       /\ status[a] \in Settled => status'[a] = status[a]
       /\ decidedBy[a] # Nobody => decidedBy'[a] = decidedBy[a]]_vars

\* An approval whose handler lives ends: executed, failed or back in the queue.
ApprovalEnds ==
  \A a \in ActionId :
    status[a] = "EXECUTING"
      ~> (status[a] # "EXECUTING" \/ \A c \in Caller : ~Busy(c, a, "claimed") /\ ~Busy(c, a, "asked"))
=============================================================================
