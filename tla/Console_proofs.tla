---------------------------- MODULE Console_proofs ----------------------------
(***************************************************************************)
(* The two components that people work with at the console: the approval   *)
(* queue for writes to outside accounts, and the Studio.  They share no    *)
(* state, and the proofs of each use nothing of the other.                 *)
(*                                                                         *)
(* The queue, for any number of actions and reviewers, any number of       *)
(* failures and any behaviour of the broker.  The safety properties are    *)
(* not inductive on their own: what makes them hold is that a handler that *)
(* has claimed an action owns its row (Owned), and that a row that is      *)
(* claimed but not yet sent has nothing outstanding (Unsent).              *)
(*                                                                         *)
(* The Studio, for any number of questions, sections, items and requests.  *)
(* What holds it together is what a request in flight may rely on of rows  *)
(* that others change under it (HandlersKnow): a question is never removed *)
(* and a transcript never rewritten, so what an interview's request has    *)
(* read stays true; a section can go, but its ordinal stays counted, and   *)
(* citations come and go by the edit that made them, which a request has   *)
(* either seen whole or not at all.                                        *)
(***************************************************************************)
EXTENDS StagedActions, Studio, TLAPS, FiniteSetTheorems, WellFoundedInduction

\* What the row of a claimed action looks like while its handler runs, and
\* what that handler has asked of the provider.
Owned ==
  \A c \in Caller, a \in ActionId :
    /\ Busy(c, a, "claimed") \/ Busy(c, a, "asked") => status[a] = "EXECUTING"
    /\ Busy(c, a, "signing") => status[a] = "REJECTED"

Unsent ==
  \A c \in Caller, a \in ActionId : Busy(c, a, "claimed") => wire[a] = 0 /\ effect[a] = 0 /\ a \notin answered

\* Nobody's name is under an action before it is settled, nor under one whose
\* rejection is still to be signed.
Undecided ==
  \A a \in ActionId :
    /\ decidedBy[a] # Nobody => status[a] \in Settled
    /\ \A c \in Caller : Busy(c, a, "signing") => decidedBy[a] = Nobody

IInv ==
  /\ TypeOK
  /\ OneHandler
  /\ Owned
  /\ Unsent
  /\ Undecided
  /\ AtMostOneEffect
  /\ NothingUnapproved
  /\ ExecutedIsAnswered

Phase == {"claimed", "asked", "signing"}

-----------------------------------------------------------------------------
(* Who is busy with what.                                                  *)

\* A handler is busy with one action, in one phase.
LEMMA BusyOnce ==
  ASSUME NEW c \in Caller, NEW a \in ActionId, NEW b \in ActionId,
         NEW p \in Phase, NEW q \in Phase, Busy(c, a, p), Busy(c, b, q)
  PROVE  a = b /\ p = q
<1> DEFINE x == [at |-> p, on |-> a]
           y == [at |-> q, on |-> b]
<1>1. x = y
  BY DEF Busy
<1>2. x.on = a /\ x.at = p /\ y.on = b /\ y.at = q
  OBVIOUS
<1> QED BY <1>1, <1>2

\* A handler that is done no longer takes part; the others go on.
LEMMA Leaves ==
  ASSUME TypeOK, NEW c \in Caller, call' = [call EXCEPT ![c] = Idle]
  PROVE  \A d \in Caller, a \in ActionId, p \in Phase :
           Busy(d, a, p)' <=> d # c /\ Busy(d, a, p)
<1> SUFFICES ASSUME NEW d \in Caller, NEW a \in ActionId, NEW p \in Phase
             PROVE  Busy(d, a, p)' <=> d # c /\ Busy(d, a, p)
  OBVIOUS
<1>1. CASE d = c
  <2>1. call'[d] = Idle
    BY <1>1 DEF TypeOK
  <2>2. Idle.at = "idle" /\ [at |-> p, on |-> a].at = p /\ p # "idle"
    BY DEF Idle, Phase
  <2>3. Idle # [at |-> p, on |-> a]
    BY <2>2
  <2> QED BY <1>1, <2>1, <2>3 DEF Busy
<1>2. CASE d # c
  BY <1>2 DEF TypeOK, Busy
<1> QED BY <1>1, <1>2

\* A handler that takes up action b, or goes on with it, is busy with b alone.
LEMMA Enters ==
  ASSUME TypeOK, NEW c \in Caller, NEW b \in ActionId, NEW q \in Phase,
         call' = [call EXCEPT ![c] = [at |-> q, on |-> b]]
  PROVE  \A d \in Caller, a \in ActionId, p \in Phase :
           Busy(d, a, p)' <=> IF d = c THEN a = b /\ p = q ELSE Busy(d, a, p)
<1> SUFFICES ASSUME NEW d \in Caller, NEW a \in ActionId, NEW p \in Phase
             PROVE  Busy(d, a, p)' <=> IF d = c THEN a = b /\ p = q ELSE Busy(d, a, p)
  OBVIOUS
<1>1. CASE d = c
  <2>1. call'[d] = [at |-> q, on |-> b]
    BY <1>1 DEF TypeOK
  <2>2. [at |-> q, on |-> b] = [at |-> p, on |-> a] <=> a = b /\ p = q
    <3>1. ASSUME [at |-> q, on |-> b] = [at |-> p, on |-> a] PROVE a = b /\ p = q
      <4>1. [at |-> q, on |-> b].at = q /\ [at |-> q, on |-> b].on = b
        OBVIOUS
      <4>2. [at |-> p, on |-> a].at = p /\ [at |-> p, on |-> a].on = a
        OBVIOUS
      <4> QED BY <3>1, <4>1, <4>2
    <3> QED BY <3>1
  <2> QED BY <1>1, <2>1, <2>2 DEF Busy
<1>2. CASE d # c
  BY <1>2 DEF TypeOK, Busy
<1> QED BY <1>1, <1>2

-----------------------------------------------------------------------------
(* The steps.                                                              *)

LEMMA InitOK == Init => IInv
<1> SUFFICES ASSUME Init PROVE IInv
  OBVIOUS
<1>1. TypeOK
  BY StagedAssumption DEF Init, TypeOK, Status
<1>2. \A c \in Caller, a \in ActionId, p \in {"claimed", "asked", "signing"} : ~Busy(c, a, p)
  BY DEF Init, Busy, Idle
<1> QED BY <1>1, <1>2 DEF Init, IInv, OneHandler, Owned, Unsent, Undecided,
               AtMostOneEffect, NothingUnapproved, ExecutedIsAnswered, Settled

\* A claim takes a row that no handler owns.
LEMMA ClaimOK ==
  ASSUME IInv, NEW c \in Caller, NEW b \in ActionId,
         ClaimApprove(c, b) \/ ClaimReject(c, b)
  PROVE  IInv'
<1>1. PICK q \in {"claimed", "signing"} :
        /\ call[c] = Idle /\ status[b] = "PENDING"
        /\ status' = [status EXCEPT ![b] = IF q = "claimed" THEN "EXECUTING" ELSE "REJECTED"]
        /\ call' = [call EXCEPT ![c] = [at |-> q, on |-> b]]
        /\ UNCHANGED <<decidedBy, wire, effect, answered, aborts>>
  BY DEF ClaimApprove, ClaimReject, Claim, CanClaim
<1>2. \A d \in Caller, a \in ActionId, p \in Phase :
        Busy(d, a, p)' <=> IF d = c THEN a = b /\ p = q ELSE Busy(d, a, p)
  <2>1. q \in Phase /\ TypeOK
    BY DEF Phase, IInv
  <2> QED BY <1>1, <2>1, Enters
<1>3. TypeOK'
  BY <1>1 DEF IInv, TypeOK, Status, Settled
<1>4. \A d \in Caller, p \in Phase : ~Busy(d, b, p)
  BY <1>1 DEF IInv, Owned, Phase
<1>5. \A a \in ActionId : a # b => status'[a] = status[a]
  BY <1>1 DEF IInv, TypeOK
<1>6. status'[b] = IF q = "claimed" THEN "EXECUTING" ELSE "REJECTED"
  BY <1>1 DEF IInv, TypeOK
<1>7. wire[b] = 0 /\ effect[b] = 0 /\ b \notin answered /\ decidedBy[b] = Nobody
  BY <1>1 DEF IInv, NothingUnapproved, Undecided, Settled
<1>8. OneHandler'
  BY <1>2, <1>4 DEF IInv, OneHandler, Phase
<1>9. Owned'
  <2> SUFFICES ASSUME NEW d \in Caller, NEW a \in ActionId
               PROVE  /\ Busy(d, a, "claimed")' \/ Busy(d, a, "asked")' => status'[a] = "EXECUTING"
                      /\ Busy(d, a, "signing")' => status'[a] = "REJECTED"
    BY DEF Owned
  <2>1. CASE a = b
    BY <2>1, <1>2, <1>4, <1>6 DEF Phase
  <2>2. CASE a # b
    BY <2>2, <1>2, <1>5 DEF IInv, Owned, Phase
  <2> QED BY <2>1, <2>2
<1>10. Unsent'
  BY <1>1, <1>2, <1>7 DEF IInv, Unsent, Phase
<1>11. Undecided'
  BY <1>1, <1>2, <1>5, <1>6, <1>7 DEF IInv, Undecided, Phase
<1>12. AtMostOneEffect' /\ NothingUnapproved' /\ ExecutedIsAnswered'
  BY <1>1, <1>5, <1>6, <1>7 DEF IInv, AtMostOneEffect, NothingUnapproved, ExecutedIsAnswered
<1> QED BY <1>3, <1>8, <1>9, <1>10, <1>11, <1>12 DEF IInv

\* The handler that owns a row writes its outcome: "PENDING" when it has sent
\* nothing, "EXECUTED" when the provider has answered.
LEMMA DecideOK ==
  ASSUME IInv, NEW c \in Caller, NEW b \in ActionId,
         SignReject(c, b) \/ NotConfigured(c, b) \/ Executed(c, b) \/ BridgeFails(c, b)
  PROVE  IInv'
<1>1. PICK q \in Phase : Busy(c, b, q)
  BY DEF SignReject, NotConfigured, Executed, BridgeFails, Phase
<1>2. /\ call' = [call EXCEPT ![c] = Idle]
      /\ UNCHANGED <<wire, effect, answered, aborts>>
  BY DEF SignReject, NotConfigured, Executed, BridgeFails, Decide
<1>3. PICK v \in Status :
        /\ status' = [status EXCEPT ![b] = v]
        /\ \/ v = "REJECTED" /\ status[b] = "REJECTED" /\ decidedBy' = [decidedBy EXCEPT ![b] = c]
           \/ v = "PENDING" /\ wire[b] = 0 /\ effect[b] = 0 /\ b \notin answered /\ decidedBy' = decidedBy
              /\ status[b] = "EXECUTING"
           \/ v = "EXECUTED" /\ b \in answered /\ decidedBy' = [decidedBy EXCEPT ![b] = c]
              /\ status[b] = "EXECUTING"
           \/ v = "FAILED" /\ decidedBy' = [decidedBy EXCEPT ![b] = c]
              /\ status[b] = "EXECUTING"
  <2>1. CASE SignReject(c, b)
    <3>1. status[b] = "REJECTED"
      BY <2>1 DEF SignReject, IInv, Owned
    <3>2. status' = [status EXCEPT ![b] = "REJECTED"]
      BY <2>1, <3>1 DEF SignReject, IInv, TypeOK
    <3> QED BY <2>1, <3>1, <3>2 DEF SignReject, Status, Settled
  <2>2. CASE NotConfigured(c, b)
    BY <2>2 DEF NotConfigured, IInv, Owned, Unsent, Status
  <2>3. CASE Executed(c, b)
    BY <2>3 DEF Executed, Decide, IInv, Owned, Status, Settled
  <2>4. CASE BridgeFails(c, b)
    BY <2>4 DEF BridgeFails, Decide, AfterError, IInv, Owned, Status, Settled
  <2> QED BY <2>1, <2>2, <2>3, <2>4
<1>4. \A d \in Caller, a \in ActionId, p \in Phase :
        Busy(d, a, p)' <=> d # c /\ Busy(d, a, p)
  BY <1>2, Leaves DEF IInv
<1>5. \A d \in Caller, p \in Phase : ~Busy(d, b, p)'
  BY <1>1, <1>4 DEF IInv, OneHandler, Phase
<1>6. TypeOK'
  BY <1>2, <1>3 DEF IInv, TypeOK
<1>7. \A a \in ActionId : a # b => status'[a] = status[a] /\ decidedBy'[a] = decidedBy[a]
  BY <1>3 DEF IInv, TypeOK
<1>8. status'[b] = v
  BY <1>3 DEF IInv, TypeOK
<1>9. \/ v = "REJECTED" /\ status[b] = "REJECTED" /\ decidedBy'[b] = c
      \/ v = "PENDING" /\ wire[b] = 0 /\ effect[b] = 0 /\ b \notin answered /\ decidedBy'[b] = decidedBy[b]
         /\ status[b] = "EXECUTING"
      \/ v = "EXECUTED" /\ b \in answered /\ decidedBy'[b] = c
      \/ v = "FAILED"
  BY <1>3 DEF IInv, TypeOK
<1>10. OneHandler'
  BY <1>4 DEF IInv, OneHandler, Phase
<1>11. Owned'
  BY <1>4, <1>5, <1>7 DEF IInv, Owned, Phase
<1>12. Unsent'
  BY <1>2, <1>4 DEF IInv, Unsent, Phase
<1>13. Undecided'
  <2>1. ASSUME NEW a \in ActionId, decidedBy'[a] # Nobody PROVE status'[a] \in Settled
    BY <2>1, <1>7, <1>8, <1>9 DEF IInv, Undecided, Settled
  <2>2. ASSUME NEW a \in ActionId, NEW d \in Caller, Busy(d, a, "signing")'
        PROVE  decidedBy'[a] = Nobody
    BY <2>2, <1>4, <1>5, <1>7 DEF IInv, Undecided, Phase
  <2> QED BY <2>1, <2>2 DEF Undecided
<1>14. AtMostOneEffect'
  BY <1>2 DEF IInv, AtMostOneEffect
<1>15. NothingUnapproved'
  BY <1>2, <1>7, <1>8, <1>9 DEF IInv, NothingUnapproved
<1>16. ExecutedIsAnswered'
  <2>1. b \in answered => wire[b] = 0
    BY DEF IInv, AtMostOneEffect
  <2>2. c # Nobody
    BY StagedAssumption
  <2>3. ASSUME NEW a \in ActionId, status'[a] = "EXECUTED"
        PROVE  a \in answered' /\ wire'[a] = 0 /\ decidedBy'[a] # Nobody
    <3>1. CASE a = b
      BY <1>2, <1>8, <1>9, <2>1, <2>2, <2>3, <3>1
    <3>2. CASE a # b
      BY <1>2, <1>7, <2>3, <3>2 DEF IInv, ExecutedIsAnswered
    <3> QED BY <3>1, <3>2
  <2> QED BY <2>3 DEF ExecutedIsAnswered
<1> QED BY <1>6, <1>10, <1>11, <1>12, <1>13, <1>14, <1>15, <1>16 DEF IInv

\* The tool call goes out once: nothing was outstanding before it.
LEMMA CallOK ==
  ASSUME IInv, NEW c \in Caller, NEW b \in ActionId, CallTool(c, b)
  PROVE  IInv'
<1>1. /\ Busy(c, b, "claimed")
      /\ wire' = [wire EXCEPT ![b] = wire[b] + 1]
      /\ call' = [call EXCEPT ![c] = [at |-> "asked", on |-> b]]
      /\ UNCHANGED <<status, decidedBy, effect, answered, aborts>>
  BY DEF CallTool
<1>2. \A d \in Caller, a \in ActionId, p \in Phase :
        Busy(d, a, p)' <=> IF d = c THEN a = b /\ p = "asked" ELSE Busy(d, a, p)
  <2>1. "asked" \in Phase /\ TypeOK
    BY DEF Phase, IInv
  <2> QED BY <1>1, <2>1, Enters
<1>3. wire[b] = 0 /\ effect[b] = 0 /\ b \notin answered /\ status[b] = "EXECUTING"
  BY <1>1 DEF IInv, Unsent, Owned
<1>4. /\ wire'[b] = 1 /\ wire' \in [ActionId -> Nat]
      /\ \A a \in ActionId : a # b => wire'[a] = wire[a]
  BY <1>1, <1>3 DEF IInv, TypeOK
<1>5. TypeOK'
  BY <1>1, <1>4 DEF IInv, TypeOK
<1>6. \A d \in Caller, p \in Phase : Busy(d, b, p) => d = c
  BY <1>1 DEF IInv, OneHandler, Phase
<1>7. OneHandler'
  BY <1>2, <1>6 DEF IInv, OneHandler, Phase
<1>8. Owned'
  BY <1>1, <1>2, <1>3 DEF IInv, Owned, Phase
<1>9. Unsent'
  BY <1>1, <1>2, <1>4, <1>6 DEF IInv, Unsent, Phase
<1>10. Undecided'
  BY <1>1, <1>2 DEF IInv, Undecided, Phase
<1>11. AtMostOneEffect'
  BY <1>1, <1>3, <1>4 DEF IInv, AtMostOneEffect
<1>12. NothingUnapproved' /\ ExecutedIsAnswered'
  BY <1>1, <1>3, <1>4 DEF IInv, NothingUnapproved, ExecutedIsAnswered
<1> QED BY <1>5, <1>7, <1>8, <1>9, <1>10, <1>11, <1>12 DEF IInv

\* What the provider makes of an outstanding call: it is carried out, only
\* answered, or lost.
LEMMA ProviderOK ==
  ASSUME IInv, NEW b \in ActionId, Perform(b) \/ Decline(b) \/ LoseCall(b)
  PROVE  IInv'
<1>1. /\ wire[b] > 0
      /\ wire' = [wire EXCEPT ![b] = wire[b] - 1]
      /\ effect' = effect \/ effect' = [effect EXCEPT ![b] = effect[b] + 1]
      /\ answered' = answered \/ answered' = answered \cup {b}
      /\ UNCHANGED <<status, decidedBy, call, aborts>>
  BY DEF Perform, Decline, LoseCall
<1>2. wire[b] \in Nat /\ effect[b] \in Nat /\ wire[b] + effect[b] <= 1
  BY DEF IInv, TypeOK, AtMostOneEffect
<1>3. wire[b] = 1 /\ effect[b] = 0
  BY <1>1, <1>2
<1>4. /\ wire'[b] = 0 /\ (effect'[b] = 0 \/ effect'[b] = 1)
      /\ wire' \in [ActionId -> Nat] /\ effect' \in [ActionId -> Nat]
      /\ \A a \in ActionId : a # b => wire'[a] = wire[a] /\ effect'[a] = effect[a]
  BY <1>1, <1>3 DEF IInv, TypeOK
<1>a. /\ answered' \subseteq ActionId
      /\ \A a \in ActionId : a # b => (a \in answered' <=> a \in answered)
  BY <1>1 DEF IInv, TypeOK
<1>5. TypeOK'
  BY <1>1, <1>4, <1>a DEF IInv, TypeOK
<1>6. \A c \in Caller, a \in ActionId, p \in Phase : Busy(c, a, p)' <=> Busy(c, a, p)
  BY <1>1 DEF Busy
<1>7. status[b] \notin {"absent", "PENDING", "REJECTED", "EXECUTED"}
  BY <1>3 DEF IInv, NothingUnapproved, ExecutedIsAnswered
<1>8. \A c \in Caller : ~Busy(c, b, "claimed")
  BY <1>3 DEF IInv, Unsent
<1>9. OneHandler' /\ Owned' /\ Undecided'
  BY <1>1, <1>6 DEF IInv, OneHandler, Owned, Undecided, Phase
<1>10. Unsent'
  BY <1>4, <1>a, <1>6, <1>8 DEF IInv, Unsent, Phase
<1>11. AtMostOneEffect'
  <2>1. wire'[b] + effect'[b] <= 1 /\ wire'[b] = 0
    BY <1>4
  <2>2. ASSUME NEW a \in ActionId, a # b
        PROVE  wire'[a] + effect'[a] <= 1 /\ (a \in answered' => wire'[a] = 0)
    <3>1. wire[a] + effect[a] <= 1 /\ (a \in answered => wire[a] = 0)
      BY DEF IInv, AtMostOneEffect
    <3>2. wire'[a] = wire[a] /\ effect'[a] = effect[a] /\ (a \in answered' <=> a \in answered)
      BY <1>4, <1>a, <2>2
    <3> QED BY <3>1, <3>2
  <2> QED BY <2>1, <2>2 DEF AtMostOneEffect
<1>12. NothingUnapproved' /\ ExecutedIsAnswered'
  <2>1. ASSUME NEW a \in ActionId, status[a] \in {"absent", "PENDING", "REJECTED", "EXECUTED"}
        PROVE  /\ wire'[a] = wire[a] /\ effect'[a] = effect[a]
               /\ (a \in answered' <=> a \in answered)
    BY <1>4, <1>a, <1>7, <2>1
  <2>2. NothingUnapproved'
    BY <1>1, <2>1 DEF IInv, NothingUnapproved
  <2>3. ExecutedIsAnswered'
    BY <1>1, <2>1 DEF IInv, ExecutedIsAnswered
  <2> QED BY <2>2, <2>3
<1> QED BY <1>5, <1>9, <1>10, <1>11, <1>12 DEF IInv

\* A handler that dies leaves its row as it is, for good.
LEMMA AbortOK ==
  ASSUME IInv, NEW c \in Caller, Abort(c)
  PROVE  IInv'
<1>1. /\ call' = [call EXCEPT ![c] = Idle]
      /\ aborts < MaxAborts /\ aborts' = aborts + 1
      /\ UNCHANGED <<status, decidedBy, wire, effect, answered>>
  BY DEF Abort
<1>2. \A d \in Caller, a \in ActionId, p \in Phase :
        Busy(d, a, p)' <=> d # c /\ Busy(d, a, p)
  BY <1>1, Leaves DEF IInv
<1>3. aborts' \in 0..MaxAborts
  <2>1. aborts \in 0..MaxAborts
    BY DEF IInv, TypeOK
  <2> QED BY <1>1, <2>1, StagedAssumption
<1>4. TypeOK'
  BY <1>1, <1>3 DEF IInv, TypeOK
<1>5. OneHandler' /\ Owned' /\ Unsent' /\ Undecided'
  BY <1>1, <1>2 DEF IInv, OneHandler, Owned, Unsent, Undecided, Phase
<1>6. AtMostOneEffect' /\ NothingUnapproved' /\ ExecutedIsAnswered'
  BY <1>1 DEF IInv, AtMostOneEffect, NothingUnapproved, ExecutedIsAnswered
<1> QED BY <1>4, <1>5, <1>6 DEF IInv

LEMMA StageOK ==
  ASSUME IInv, NEW b \in ActionId, Stage(b)
  PROVE  IInv'
<1>1. /\ status[b] = "absent" /\ status' = [status EXCEPT ![b] = "PENDING"]
      /\ UNCHANGED <<decidedBy, wire, effect, answered, call, aborts>>
  BY DEF Stage
<1>2. TypeOK'
  BY <1>1 DEF IInv, TypeOK, Status
<1>3. status'[b] = "PENDING" /\ \A a \in ActionId : a # b => status'[a] = status[a]
  BY <1>1 DEF IInv, TypeOK
<1>4. \A c \in Caller, a \in ActionId, p \in Phase : Busy(c, a, p)' <=> Busy(c, a, p)
  BY <1>1 DEF Busy
<1>5. \A c \in Caller, p \in Phase : ~Busy(c, b, p)
  BY <1>1 DEF IInv, Owned, Phase
<1>6. OneHandler' /\ Unsent'
  BY <1>1, <1>4 DEF IInv, OneHandler, Unsent, Phase
<1>7. Owned'
  BY <1>3, <1>4, <1>5 DEF IInv, Owned, Phase
<1>8. Undecided'
  BY <1>1, <1>3, <1>4 DEF IInv, Undecided, Phase, Settled
<1>9. AtMostOneEffect' /\ NothingUnapproved' /\ ExecutedIsAnswered'
  BY <1>1, <1>3 DEF IInv, AtMostOneEffect, NothingUnapproved, ExecutedIsAnswered
<1> QED BY <1>2, <1>6, <1>7, <1>8, <1>9 DEF IInv

LEMMA StepOK == IInv /\ [Next]_vars => IInv'
<1> SUFFICES ASSUME IInv, [Next]_vars PROVE IInv'
  OBVIOUS
<1>1. CASE UNCHANGED vars
  BY <1>1 DEF vars, IInv, TypeOK, OneHandler, Owned, Unsent, Undecided, Busy,
              AtMostOneEffect, NothingUnapproved, ExecutedIsAnswered
<1>2. ASSUME NEW c \in Caller, NEW a \in ActionId, HandlerStep(c, a)
      PROVE  IInv'
  BY <1>2, DecideOK, CallOK DEF HandlerStep
<1> QED BY <1>1, <1>2, StageOK, ClaimOK, AbortOK, ProviderOK DEF Next

LEMMA Invariance == Spec => []IInv
BY InitOK, StepOK, PTL DEF Spec

-----------------------------------------------------------------------------
\* The tables keep their shape.
THEOREM StagedTypeCorrect == Spec => []TypeOK
<1>1. IInv => TypeOK
  BY DEF IInv
<1> QED BY <1>1, Invariance, PTL

\* The provider is asked at most once for every staged action, however many
\* reviewers decide on it, never for one that was not approved, by one handler
\* at a time, and the action is called executed only when it has answered.
THEOREM AtMostOnce == Spec => []DoneOnce
<1>1. IInv => DoneOnce
  BY DEF IInv, DoneOnce
<1> QED BY <1>1, Invariance, PTL

\* A decision stands, with the name under it.
THEOREM DecisionStands == Spec => SettledIsFinal
<1>1. ASSUME IInv, [Next]_vars, NEW a \in ActionId
      PROVE  /\ status[a] \in Settled => status'[a] = status[a]
             /\ decidedBy[a] # Nobody => decidedBy'[a] = decidedBy[a]
  <2> DEFINE Kept == /\ status[a] \in Settled => status'[a] = status[a]
                     /\ decidedBy[a] # Nobody => decidedBy'[a] = decidedBy[a]
  <2>1. TypeOK /\ (decidedBy[a] # Nobody => status[a] \in Settled)
    BY <1>1 DEF IInv, Undecided
  <2>2. ASSUME NEW b \in ActionId, Stage(b) PROVE Kept
    BY <2>1, <2>2 DEF Stage, TypeOK, Settled
  <2>3. ASSUME NEW c \in Caller, NEW b \in ActionId, ClaimApprove(c, b) \/ ClaimReject(c, b)
        PROVE  Kept
    BY <2>1, <2>3 DEF ClaimApprove, ClaimReject, Claim, CanClaim, TypeOK, Settled
  <2>4. ASSUME NEW c \in Caller, NEW b \in ActionId, SignReject(c, b)
        PROVE  Kept
    <3>1. decidedBy[b] = Nobody
      BY <1>1, <2>4 DEF IInv, Undecided, SignReject
    <3> QED BY <2>1, <2>4, <3>1 DEF SignReject, TypeOK
  <2>5. ASSUME NEW c \in Caller, NEW b \in ActionId,
               NotConfigured(c, b) \/ Executed(c, b) \/ BridgeFails(c, b)
        PROVE  Kept
    <3>1. status[b] = "EXECUTING"
      BY <1>1, <2>5 DEF IInv, Owned, NotConfigured, Executed, BridgeFails
    <3>2. a # b => status'[a] = status[a] /\ decidedBy'[a] = decidedBy[a]
      BY <2>1, <2>5 DEF NotConfigured, Executed, BridgeFails, Decide, TypeOK
    <3>3. a = b => status[a] \notin Settled
      BY <3>1 DEF Settled
    <3> QED BY <2>1, <3>2, <3>3
  <2>6. ASSUME UNCHANGED <<status, decidedBy>> PROVE Kept
    BY <2>6
  <2>7. ASSUME NEW c \in Caller, NEW b \in ActionId, CallTool(c, b) PROVE Kept
    BY <2>6, <2>7 DEF CallTool
  <2>8. ASSUME NEW c \in Caller, Abort(c) PROVE Kept
    BY <2>6, <2>8 DEF Abort
  <2>9. ASSUME NEW b \in ActionId, Perform(b) \/ Decline(b) \/ LoseCall(b)
        PROVE  Kept
    BY <2>6, <2>9 DEF Perform, Decline, LoseCall
  <2>10. CASE UNCHANGED vars
    BY <2>6, <2>10 DEF vars
  <2> QED BY <1>1, <2>2, <2>3, <2>4, <2>5, <2>7, <2>8, <2>9, <2>10 DEF Next, HandlerStep
<1>2. IInv /\ [Next]_vars =>
        [\A a \in ActionId :
           /\ status[a] \in Settled => status'[a] = status[a]
           /\ decidedBy[a] # Nobody => decidedBy'[a] = decidedBy[a]]_vars
  BY <1>1
<1> QED BY <1>2, Invariance, PTL DEF Spec, SettledIsFinal

-----------------------------------------------------------------------------
(* The Studio: what is true of its rows and of the requests in flight.     *)

\* The rows that have an ordinal, and the sections that ever had one.
AskedIn(Q)   == {q \in Question : Q[q].ordinal > 0}
MadeIn(X)    == {x \in Section : X[x] > 0}
UsedIn(X, G) == MadeIn(X) \cup G

\* What a handler at r relies on of the questions Q and the transcripts S.
SoundInterview(Q, S, r) ==
  /\ r.at = "asking" =>
       /\ r.seen \subseteq AskedIn(Q)
       /\ r.ordinal <= Cardinality(AskedIn(Q)) + 1
       /\ \A p \in r.seen : Q[p].ordinal < r.ordinal
  /\ r.at \in {"transcribed", "captured"} => DOMAIN r.answers \subseteq AskedIn(Q)
  /\ r.at = "captured" => r.source \in 1..Len(S) /\ S[r.source] = r.answers

\* And what of the draft, which is there if b, its sections X, those that are
\* gone, G, their citations C and the number e of edits so far: all citations
\* of an edit are read together.
SoundDraft(b, X, G, C, e, r) ==
  /\ r.at = "placing" =>
       /\ b
       /\ r.seen \subseteq UsedIn(X, G)
       /\ r.ordinal <= Cardinality(UsedIn(X, G)) + 1
       /\ \A y \in r.seen \cap MadeIn(X) : X[y] < r.ordinal
  /\ r.at \in {"citing", "deleting"} =>
       /\ r.on \in UsedIn(X, G)
       /\ \A d \in r.old : d.edit <= e /\ \A c \in C[r.on] : c.edit = d.edit => c \in r.old

\* What requests in flight rely on is so.
HandlersKnow ==
  \A s \in Request : /\ SoundInterview(question, sources, request[s])
                     /\ SoundDraft(draft, section, gone, citation, edits, request[s])

\* No question is numbered further than there are questions.
QuestionsOrdered ==
  /\ \A q \in Question : question[q].ordinal <= Cardinality(AskedIn(question))
  /\ \A q \in Question : seen.question[q] \subseteq AskedIn(question)
  /\ \A q \in AskedIn(question) : \A p \in seen.question[q] :
       question[p].ordinal < question[q].ordinal

\* Only questions that were asked are transcribed.
TranscriptsAsked ==
  \A n \in 1..Len(sources) : DOMAIN sources[n] \subseteq AskedIn(question)

\* InterviewTold without the count, which follows.
MarksTold ==
  /\ interview.status = "completed" =>
       /\ interview.source \in 1..Len(sources)
       /\ \A q \in DOMAIN sources[interview.source] : question[q].extracted
  /\ \A q \in Question : question[q].extracted =>
       /\ interview.status = "completed"
       /\ \E n \in 1..Len(sources) : q \in DOMAIN sources[n]

\* No section is numbered further than there have been sections, and each comes
\* after those its maker had seen.
SectionsOrdered ==
  /\ draft \/ UsedIn(section, gone) = {}
  /\ MadeIn(section) \cap gone = {}
  /\ \A x \in Section : section[x] <= Cardinality(UsedIn(section, gone))
  /\ \A x \in Section : seen.section[x] \subseteq UsedIn(section, gone)
  /\ \A x \in MadeIn(section) : \A y \in seen.section[x] \cap MadeIn(section) :
       section[y] < section[x]

\* Citations are known by the edit that made them: none is of a later one.
CitationsDated ==
  /\ \A x \in Section : \A c \in citation[x] : c.edit <= edits
  /\ \A n \in 1..MaxEdits : \A z \in seen.edit[n] : n <= edits /\ z[2] <= edits

InterviewHalf == QuestionsOrdered /\ TranscriptsAsked /\ MarksTold
DraftHalf     == SectionsOrdered /\ CitationsDated /\ ReplacedIsGone

\* The inductive invariant.
StudioInv == StudioTypeOK /\ InterviewHalf /\ DraftHalf /\ HandlersKnow

-----------------------------------------------------------------------------
(* Ordinals.                                                               *)

\* A set of numbers that n bounds has a greatest.
LEMMA MaxBelow ==
  ASSUME NEW S \in SUBSET Nat, NEW n \in Nat, \A i \in S : i <= n, S # {}
  PROVE  Max(S) \in S /\ \A i \in S : Max(S) >= i
<1> DEFINE T == {n - i : i \in S}
           R == OpToRel(<, Nat)
<1>1. T \subseteq Nat /\ T # {}
  OBVIOUS
<1>2. PICK t \in T : \A u \in T : ~(<<u, t>> \in R)
  <2> HIDE DEF T
  <2> QED BY <1>1, NatLessThanWellFounded, WFMin
<1>3. \A u \in T : ~(u < t)
  <2> TAKE u \in T
  <2>1. u \in Nat /\ t \in Nat
    BY <1>1, <1>2
  <2> HIDE DEF T
  <2> QED BY <1>2, <2>1 DEF OpToRel
<1>4. PICK m \in S : t = n - m
  BY <1>2
<1>5. \A i \in S : m >= i
  <2> TAKE i \in S
  <2>1. n - i \in T
    OBVIOUS
  <2>2. ~(n - i < n - m)
    BY <1>3, <1>4, <2>1
  <2> QED BY <2>2
<1>6. \E x \in S : \A y \in S : x >= y
  BY <1>5
<1> QED BY <1>6 DEF Max

\* The next ordinal comes after all there are, and skips none.
LEMMA NextOrdinalFacts ==
  ASSUME NEW O \in SUBSET Nat, NEW n \in Nat, \A i \in O : i <= n, NEW rows
  PROVE  /\ NextOrdinal(O, rows) \in 1..(n + 1)
         /\ \A i \in O : i < NextOrdinal(O, rows)
<1> DEFINE S == {0} \cup O
<1>1. S \in SUBSET Nat /\ S # {} /\ \A i \in S : i <= n
  OBVIOUS
<1>2. Max(S) \in S /\ \A i \in S : Max(S) >= i
  <2> HIDE DEF S
  <2> QED BY <1>1, MaxBelow
<1> DEFINE m == Max(S)
<1>3. m \in S /\ \A i \in S : m >= i
  BY <1>2
<1>4. NextOrdinal(O, rows) = 1 + m
  BY DEF NextOrdinal
<1>5. m \in 0..n
  <2> HIDE DEF m
  <2> QED BY <1>1, <1>3
<1>6. \A i \in O : m >= i
  <2> HIDE DEF m
  <2> QED BY <1>3
<1> HIDE DEF m
<1> QED BY <1>4, <1>5, <1>6

\* Fields by stage.
LEMMA HandlerFields ==
  ASSUME NEW r \in Handler
  PROVE  /\ r.at = "asking" => /\ r.ordinal \in 1..(Cardinality(Question) + 1)
                               /\ r.seen \in SUBSET Question
         /\ r.at = "answering" => r.on \in Question /\ r.answer \in Response
         /\ r.at \in {"transcribed", "captured"} => r.answers \in Transcript
         /\ r.at = "captured" => r.source \in 1..MaxSources
         /\ r.at = "placing" => /\ r.ordinal \in 1..(Cardinality(Section) + 1)
                                /\ r.seen \in SUBSET Section
         /\ r.at \in {"citing", "deleting"} => r.on \in Section /\ r.old \in SUBSET Citation
BY DEF Handler, AtRest

LEMMA AtRestFacts ==
  /\ AtRest \in Handler
  /\ \A Q, S : SoundInterview(Q, S, AtRest)
  /\ \A b, X, G, C, e : SoundDraft(b, X, G, C, e, AtRest)
BY DEF AtRest, Handler, SoundInterview, SoundDraft

\* There are as many rows with an ordinal as ever, or more.
LEMMA AskedCount ==
  ASSUME NEW Q, NEW P, AskedIn(Q) \subseteq AskedIn(P)
  PROVE  /\ Cardinality(AskedIn(Q)) \in Nat /\ Cardinality(AskedIn(P)) \in Nat
         /\ Cardinality(AskedIn(Q)) <= Cardinality(AskedIn(P))
         /\ Cardinality(AskedIn(P)) <= Cardinality(Question)
         /\ IsFiniteSet(AskedIn(Q))
<1>1. AskedIn(Q) \subseteq Question /\ AskedIn(P) \subseteq Question
  BY DEF AskedIn
<1> QED BY <1>1, StudioAssumption, FS_Subset, FS_CardinalityType

LEMMA UsedCount ==
  ASSUME NEW A \in SUBSET Section, NEW B \in SUBSET Section, A \subseteq B
  PROVE  /\ Cardinality(A) \in Nat /\ Cardinality(B) \in Nat
         /\ Cardinality(A) <= Cardinality(B)
         /\ Cardinality(B) <= Cardinality(Section)
         /\ IsFiniteSet(A) /\ IsFiniteSet(B)
BY StudioAssumption, FS_Subset, FS_CardinalityType

-----------------------------------------------------------------------------
(* What is read stays true.                                                *)

LEMMA InterviewMovesOn ==
  ASSUME NEW Q, NEW P, NEW S, NEW T, NEW r \in Handler,
         \A q \in Question : Q[q].ordinal \in Nat,
         AskedIn(Q) \subseteq AskedIn(P),
         \A q \in AskedIn(Q) : P[q].ordinal = Q[q].ordinal,
         Len(S) \in Nat, Len(T) \in Nat, Len(S) <= Len(T),
         \A n \in 1..Len(S) : T[n] = S[n],
         SoundInterview(Q, S, r)
  PROVE  SoundInterview(P, T, r)
<1>1. r.at = "asking" =>
       /\ r.seen \subseteq AskedIn(P)
       /\ r.ordinal <= Cardinality(AskedIn(P)) + 1
       /\ \A p \in r.seen : P[p].ordinal < r.ordinal
  <2> SUFFICES ASSUME r.at = "asking"
               PROVE  /\ r.seen \subseteq AskedIn(P)
                      /\ r.ordinal <= Cardinality(AskedIn(P)) + 1
                      /\ \A p \in r.seen : P[p].ordinal < r.ordinal
    OBVIOUS
  <2>1. r.ordinal \in Nat
    <3>1. Cardinality(Question) \in Nat
      BY StudioAssumption, FS_CardinalityType
    <3> QED BY <3>1, HandlerFields
  <2>2. /\ r.seen \subseteq AskedIn(Q)
        /\ r.ordinal <= Cardinality(AskedIn(Q)) + 1
        /\ \A p \in r.seen : Q[p].ordinal < r.ordinal
    BY DEF SoundInterview
  <2> QED BY <2>1, <2>2, AskedCount
<1>2. r.at \in {"transcribed", "captured"} => DOMAIN r.answers \subseteq AskedIn(P)
  BY DEF SoundInterview
<1>3. r.at = "captured" => r.source \in 1..Len(T) /\ T[r.source] = r.answers
  BY DEF SoundInterview
<1> QED BY <1>1, <1>2, <1>3 DEF SoundInterview

\* Sections that were there stay where they are, or are gone for good; new
\* citations are of later edits.
DraftGrows(a, b, X, Y, G, H, C, D, e, f) ==
  /\ a => b
  /\ G \in SUBSET Section /\ H \in SUBSET Section
  /\ UsedIn(X, G) \subseteq UsedIn(Y, H)
  /\ \A x \in UsedIn(X, G) \cap MadeIn(Y) : x \in MadeIn(X) /\ Y[x] = X[x]
  /\ e \in Nat /\ f \in Nat /\ e <= f
  /\ \A x \in Section : \A c \in D[x] : c \in C[x] \/ c.edit > e

LEMMA DraftMovesOn ==
  ASSUME NEW a, NEW b, NEW X, NEW Y, NEW G, NEW H, NEW C, NEW D, NEW e, NEW f, NEW r \in Handler,
         DraftGrows(a, b, X, Y, G, H, C, D, e, f),
         SoundDraft(a, X, G, C, e, r)
  PROVE  SoundDraft(b, Y, H, D, f, r)
<1>1. r.at = "placing" =>
       /\ b
       /\ r.seen \subseteq UsedIn(Y, H)
       /\ r.ordinal <= Cardinality(UsedIn(Y, H)) + 1
       /\ \A y \in r.seen \cap MadeIn(Y) : Y[y] < r.ordinal
  <2> SUFFICES ASSUME r.at = "placing"
               PROVE  /\ b
                      /\ r.seen \subseteq UsedIn(Y, H)
                      /\ r.ordinal <= Cardinality(UsedIn(Y, H)) + 1
                      /\ \A y \in r.seen \cap MadeIn(Y) : Y[y] < r.ordinal
    OBVIOUS
  <2>1. r.ordinal \in Nat
    <3>1. Cardinality(Section) \in Nat
      BY StudioAssumption, FS_CardinalityType
    <3> QED BY <3>1, HandlerFields
  <2>2. /\ a
        /\ r.seen \subseteq UsedIn(X, G)
        /\ r.ordinal <= Cardinality(UsedIn(X, G)) + 1
        /\ \A y \in r.seen \cap MadeIn(X) : X[y] < r.ordinal
    BY DEF SoundDraft
  <2>3. UsedIn(X, G) \in SUBSET Section /\ UsedIn(Y, H) \in SUBSET Section
    BY DEF UsedIn, MadeIn, DraftGrows
  <2>4. r.ordinal <= Cardinality(UsedIn(Y, H)) + 1
    BY <2>1, <2>2, <2>3, UsedCount DEF DraftGrows
  <2> QED BY <2>2, <2>4 DEF DraftGrows
<1>2. ASSUME r.at \in {"citing", "deleting"}, NEW d \in r.old
      PROVE  d.edit <= f /\ \A c \in D[r.on] : c.edit = d.edit => c \in r.old
  <2>1. r.on \in Section /\ d.edit \in 1..MaxEdits
    BY <1>2, HandlerFields DEF Citation
  <2>2. d.edit <= e /\ \A c \in C[r.on] : c.edit = d.edit => c \in r.old
    BY <1>2 DEF SoundDraft
  <2>3. d.edit <= f
    BY <2>1, <2>2 DEF DraftGrows
  <2>4. ASSUME NEW c \in D[r.on], c.edit = d.edit
        PROVE  c \in r.old
    BY <2>1, <2>2, <2>4 DEF DraftGrows
  <2> QED BY <2>3, <2>4
<1>3. r.at \in {"citing", "deleting"} => r.on \in UsedIn(Y, H)
  BY DEF SoundDraft, DraftGrows
<1> QED BY <1>1, <1>2, <1>3 DEF SoundDraft

LEMMA HandlersGo ==
  ASSUME StudioTypeOK, HandlersKnow, NEW s \in Request, NEW h \in Handler,
         request' = [request EXCEPT ![s] = h],
         SoundInterview(question', sources', h),
         SoundDraft(draft', section', gone', citation', edits', h),
         \A r \in Handler : SoundInterview(question, sources, r)
                              => SoundInterview(question', sources', r),
         \A r \in Handler : SoundDraft(draft, section, gone, citation, edits, r)
                              => SoundDraft(draft', section', gone', citation', edits', r)
  PROVE  request' \in [Request -> Handler] /\ HandlersKnow'
<1>1. request \in [Request -> Handler]
  BY DEF StudioTypeOK
<1>2. \A x \in Request : /\ SoundInterview(question', sources', request'[x])
                         /\ SoundDraft(draft', section', gone', citation', edits', request'[x])
  <2> TAKE x \in Request
  <2>1. CASE x = s
    <3>1. request'[x] = h
      BY <1>1, <2>1
    <3> QED BY <3>1
  <2>2. CASE x # s
    <3>1. request'[x] = request[x] /\ request[x] \in Handler
      BY <1>1, <2>2
    <3>2. /\ SoundInterview(question, sources, request[x])
          /\ SoundDraft(draft, section, gone, citation, edits, request[x])
      BY DEF HandlersKnow
    <3>3. /\ SoundInterview(question', sources', request[x])
          /\ SoundDraft(draft', section', gone', citation', edits', request[x])
      BY <3>1, <3>2
    <3> QED BY <3>1, <3>3
  <2> QED BY <2>1, <2>2
<1>3. HandlersKnow'
  BY <1>2 DEF HandlersKnow
<1> QED BY <1>1, <1>3

-----------------------------------------------------------------------------
(* Steps of one half.                                                      *)

\* Only the interview's tables change.
LEMMA InterviewSteps ==
  ASSUME StudioInv, NEW s \in Request, NEW h \in Handler,
         request' = [request EXCEPT ![s] = h],
         UNCHANGED draftVars, seen'.section = seen.section, seen'.edit = seen.edit,
         seen' \in [question : [Question -> SUBSET Question],
                    section : [Section -> SUBSET Section],
                    edit : [1..MaxEdits -> SUBSET (Section \X (1..MaxEdits))]],
         interview' \in [status : {"none", "drafting", "completed"},
                         source : NoSource..MaxSources],
         question' \in [Question -> [ordinal : 0..Cardinality(Question),
                                     response : Response, extracted : BOOLEAN]],
         sources' \in Seq(Transcript), Len(sources) <= Len(sources'),
         Len(sources') <= MaxSources,
         InterviewHalf',
         \A n \in 1..Len(sources) : sources'[n] = sources[n],
         AskedIn(question) \subseteq AskedIn(question'),
         \A q \in AskedIn(question) : question'[q].ordinal = question[q].ordinal,
         SoundInterview(question', sources', h),
         SoundDraft(draft, section, gone, citation, edits, h)
  PROVE  StudioInv'
<1>1. StudioTypeOK /\ HandlersKnow
  BY DEF StudioInv
<1>2. \A r \in Handler : SoundInterview(question, sources, r)
                           => SoundInterview(question', sources', r)
  <2>1. \A q \in Question : question[q].ordinal \in Nat
    BY <1>1 DEF StudioTypeOK
  <2>2. Len(sources) \in Nat /\ Len(sources') \in Nat
    BY <1>1 DEF StudioTypeOK
  <2> QED BY <2>1, <2>2, InterviewMovesOn
<1>3. /\ section' = section /\ gone' = gone /\ citation' = citation
      /\ edits' = edits /\ draft' = draft
  BY DEF draftVars
<1>4. request' \in [Request -> Handler] /\ HandlersKnow'
  BY <1>1, <1>2, <1>3, HandlersGo
<1>5. StudioTypeOK'
  BY <1>1, <1>3, <1>4 DEF StudioTypeOK
<1>6. DraftHalf'
  BY <1>3 DEF StudioInv, DraftHalf, SectionsOrdered, CitationsDated, ReplacedIsGone, Made
<1> QED BY <1>4, <1>5, <1>6 DEF StudioInv

\* Only the draft's tables change.
LEMMA DraftSteps ==
  ASSUME StudioInv, NEW s \in Request, NEW h \in Handler,
         request' = [request EXCEPT ![s] = h],
         UNCHANGED interviewVars, seen'.question = seen.question,
         seen' \in [question : [Question -> SUBSET Question],
                    section : [Section -> SUBSET Section],
                    edit : [1..MaxEdits -> SUBSET (Section \X (1..MaxEdits))]],
         draft' \in BOOLEAN, draft => draft',
         section' \in [Section -> 0..Cardinality(Section)], gone' \subseteq Section,
         citation' \in [Section -> SUBSET Citation],
         edits' \in 0..MaxEdits, edits <= edits',
         DraftHalf',
         UsedIn(section, gone) \subseteq UsedIn(section', gone'),
         \A x \in UsedIn(section, gone) \cap MadeIn(section') :
           x \in MadeIn(section) /\ section'[x] = section[x],
         \A x \in Section : \A c \in citation'[x] : c \in citation[x] \/ c.edit > edits,
         SoundInterview(question, sources, h),
         SoundDraft(draft', section', gone', citation', edits', h)
  PROVE  StudioInv'
<1>1. StudioTypeOK /\ HandlersKnow
  BY DEF StudioInv
<1>2. \A r \in Handler : SoundDraft(draft, section, gone, citation, edits, r)
                           => SoundDraft(draft', section', gone', citation', edits', r)
  <2>1. edits \in Nat /\ edits' \in Nat
    BY <1>1, StudioAssumption DEF StudioTypeOK
  <2>2. DraftGrows(draft, draft', section, section', gone, gone', citation, citation',
                   edits, edits')
    BY <1>1, <2>1 DEF DraftGrows, StudioTypeOK
  <2> QED BY <2>2, DraftMovesOn
<1>3. interview' = interview /\ question' = question /\ sources' = sources
  BY DEF interviewVars
<1>4. request' \in [Request -> Handler] /\ HandlersKnow'
  BY <1>1, <1>2, <1>3, HandlersGo
<1>5. StudioTypeOK'
  BY <1>1, <1>3, <1>4 DEF StudioTypeOK
<1>6. InterviewHalf'
  BY <1>3 DEF StudioInv, InterviewHalf, QuestionsOrdered, TranscriptsAsked, MarksTold
<1> QED BY <1>4, <1>5, <1>6 DEF StudioInv

\* A handler goes on and writes nothing.
LEMMA OnlyReads ==
  ASSUME StudioInv, NEW s \in Request, NEW h \in Handler,
         request' = [request EXCEPT ![s] = h],
         UNCHANGED <<interviewVars, draftVars, seen>>,
         SoundInterview(question, sources, h),
         SoundDraft(draft, section, gone, citation, edits, h)
  PROVE  StudioInv'
<1>1. StudioTypeOK /\ HandlersKnow
  BY DEF StudioInv
<1>2. /\ interview' = interview /\ question' = question /\ sources' = sources
      /\ section' = section /\ gone' = gone /\ citation' = citation
      /\ edits' = edits /\ draft' = draft /\ seen' = seen
  BY DEF interviewVars, draftVars
<1>3. request' \in [Request -> Handler] /\ HandlersKnow'
  BY <1>1, <1>2, HandlersGo
<1>4. StudioTypeOK'
  BY <1>1, <1>2, <1>3 DEF StudioTypeOK
<1>5. InterviewHalf'
  BY <1>2 DEF StudioInv, InterviewHalf, QuestionsOrdered, TranscriptsAsked, MarksTold
<1>6. DraftHalf'
  BY <1>2 DEF StudioInv, DraftHalf, SectionsOrdered, CitationsDated, ReplacedIsGone, Made
<1> QED BY <1>3, <1>4, <1>5, <1>6 DEF StudioInv

LEMMA StudioStarts == StudioInit => StudioInv
<1> SUFFICES ASSUME StudioInit PROVE StudioInv
  OBVIOUS
<1>1. /\ Cardinality(Question) \in Nat /\ Cardinality(Section) \in Nat
      /\ MaxSources \in Nat /\ MaxEdits \in Nat
  BY StudioAssumption, FS_CardinalityType
<1>2. StudioTypeOK
  <2>1. Unasked \in [ordinal : 0..Cardinality(Question), response : Response,
                     extracted : BOOLEAN]
    BY <1>1 DEF Unasked, Response
  <2>2. question \in [Question -> [ordinal : 0..Cardinality(Question),
                                   response : Response, extracted : BOOLEAN]]
    BY <2>1 DEF StudioInit
  <2>3. sources \in Seq(Transcript) /\ Len(sources) <= MaxSources
    BY <1>1 DEF StudioInit
  <2>4. interview \in [status : {"none", "drafting", "completed"},
                       source : NoSource..MaxSources]
    BY <1>1 DEF StudioInit, NoSource
  <2>5. seen \in [question : [Question -> SUBSET Question],
                  section : [Section -> SUBSET Section],
                  edit : [1..MaxEdits -> SUBSET (Section \X (1..MaxEdits))]]
    BY DEF StudioInit
  <2>6. request \in [Request -> Handler]
    BY AtRestFacts DEF StudioInit
  <2>7. gone \subseteq Section /\ edits \in 0..MaxEdits
    BY <1>1 DEF StudioInit
  <2>10. draft \in BOOLEAN
    BY Zenon DEF StudioInit
  <2>8. section \in [Section -> 0..Cardinality(Section)]
    BY <1>1 DEF StudioInit
  <2>9. citation \in [Section -> SUBSET Citation]
    BY DEF StudioInit
  <2> QED BY <2>2, <2>3, <2>4, <2>5, <2>6, <2>7, <2>8, <2>9, <2>10 DEF StudioTypeOK
<1>3. AskedIn(question) = {} /\ MadeIn(section) = {} /\ UsedIn(section, gone) = {}
  BY DEF StudioInit, Unasked, AskedIn, MadeIn, UsedIn
<1>4. Cardinality({}) = 0
  BY FS_EmptySet
<1>5. QuestionsOrdered
  <2>1. \A q \in Question : question[q].ordinal = 0 /\ seen.question[q] = {}
    BY DEF StudioInit, Unasked
  <2> QED BY <1>3, <1>4, <2>1 DEF QuestionsOrdered
<1>6. Len(sources) = 0
  BY DEF StudioInit
<1>7. TranscriptsAsked /\ MarksTold
  BY <1>6 DEF StudioInit, Unasked, TranscriptsAsked, MarksTold
<1>8. SectionsOrdered
  <2>1. \A x \in Section : section[x] = 0 /\ seen.section[x] = {}
    BY DEF StudioInit
  <2> QED BY <1>3, <1>4, <2>1 DEF SectionsOrdered
<1>9. CitationsDated /\ ReplacedIsGone
  BY DEF StudioInit, CitationsDated, ReplacedIsGone
<1>10. HandlersKnow
  BY AtRestFacts DEF StudioInit, HandlersKnow
<1> QED BY <1>2, <1>5, <1>7, <1>8, <1>9, <1>10 DEF StudioInv, InterviewHalf, DraftHalf

-----------------------------------------------------------------------------
(* The interview.                                                          *)

\* What the lemmas about its steps begin with.
LEMMA InterviewFacts ==
  ASSUME StudioInv
  PROVE  /\ StudioTypeOK /\ QuestionsOrdered /\ TranscriptsAsked /\ MarksTold
         /\ Asked = AskedIn(question)
         /\ \A q \in Question :
              question[q] \in [ordinal : 0..Cardinality(Question), response : Response,
                               extracted : BOOLEAN]
         /\ Cardinality(Question) \in Nat
         /\ sources \in Seq(Transcript) /\ Len(sources) \in 0..MaxSources
         /\ MaxSources \in Nat
<1>1. Cardinality(Question) \in Nat /\ MaxSources \in Nat
  BY StudioAssumption, FS_CardinalityType
<1>2. StudioTypeOK /\ QuestionsOrdered /\ TranscriptsAsked /\ MarksTold
  BY DEF StudioInv, InterviewHalf
<1>3. Len(sources) \in 0..MaxSources /\ sources \in Seq(Transcript)
  BY <1>1, <1>2 DEF StudioTypeOK
<1> QED BY <1>1, <1>2, <1>3 DEF Asked, AskedIn, StudioTypeOK

LEMMA CreateInterviewKeeps ==
  ASSUME StudioInv, NEW s \in Request, CreateInterview(s)
  PROVE  StudioInv'
<1>1. /\ interview.status = "none" /\ interview' = [interview EXCEPT !.status = "drafting"]
      /\ UNCHANGED <<question, sources, draftVars, seen, request>>
  BY DEF CreateInterview
<1>2. StudioTypeOK /\ MarksTold /\ QuestionsOrdered /\ TranscriptsAsked /\ DraftHalf
      /\ HandlersKnow
  BY DEF StudioInv, InterviewHalf
<1>3. interview' \in [status : {"none", "drafting", "completed"},
                      source : NoSource..MaxSources]
      /\ interview'.status = "drafting"
  BY <1>1, <1>2 DEF StudioTypeOK
<1>4. /\ question' = question /\ sources' = sources /\ seen' = seen /\ request' = request
      /\ section' = section /\ gone' = gone /\ citation' = citation
      /\ edits' = edits /\ draft' = draft
  BY <1>1 DEF draftVars
<1>5. StudioTypeOK'
  BY <1>2, <1>3, <1>4 DEF StudioTypeOK
<1>6. MarksTold'
  BY <1>1, <1>2, <1>3, <1>4 DEF MarksTold
<1>7. QuestionsOrdered' /\ TranscriptsAsked'
  BY <1>2, <1>4 DEF QuestionsOrdered, TranscriptsAsked
<1>8. DraftHalf'
  BY <1>2, <1>4 DEF DraftHalf, SectionsOrdered, CitationsDated, ReplacedIsGone, Made
<1>9. HandlersKnow'
  BY <1>2, <1>4 DEF HandlersKnow
<1> QED BY <1>5, <1>6, <1>7, <1>8, <1>9 DEF StudioInv, InterviewHalf

LEMMA ReadOrdinalKeeps ==
  ASSUME StudioInv, NEW s \in Request, ReadOrdinal(s)
  PROVE  StudioInv'
<1> DEFINE O == {question[q].ordinal : q \in Asked}
           n == NextOrdinal(O, Asked)
           h == [at |-> "asking", seen |-> Asked, ordinal |-> n]
<1>1. O \in SUBSET Nat /\ \A i \in O : i <= Cardinality(AskedIn(question))
  BY InterviewFacts DEF QuestionsOrdered, AskedIn
<1>2. /\ Cardinality(AskedIn(question)) \in Nat
      /\ Cardinality(AskedIn(question)) <= Cardinality(Question)
  BY AskedCount
<1>3. n \in 1..(Cardinality(AskedIn(question)) + 1) /\ \A i \in O : i < n
  BY <1>1, <1>2, NextOrdinalFacts
<1>4. \A q \in Asked : question[q].ordinal < n
  BY <1>3
<1>5. /\ request' = [request EXCEPT ![s] = h]
      /\ UNCHANGED <<interviewVars, draftVars, seen>>
  BY DEF ReadOrdinal, Goes
<1>6. Asked = AskedIn(question) /\ Asked \subseteq Question /\ Cardinality(Question) \in Nat
  BY InterviewFacts DEF AskedIn
<1> HIDE DEF n
<1>7. n \in 1..(Cardinality(Question) + 1)
  BY <1>2, <1>3, <1>6
<1>8. h \in Handler
  BY <1>6, <1>7 DEF Handler
<1>9. h.at = "asking" /\ h.seen = Asked /\ h.ordinal = n
  OBVIOUS
<1>10. n <= Cardinality(AskedIn(question)) + 1
  BY <1>2, <1>3
<1> HIDE DEF h
<1>11. SoundInterview(question, sources, h)
  BY <1>4, <1>6, <1>9, <1>10 DEF SoundInterview
<1>12. SoundDraft(draft, section, gone, citation, edits, h)
  BY <1>9 DEF SoundDraft
<1> QED BY <1>5, <1>8, <1>11, <1>12, OnlyReads

LEMMA InsertQuestionKeeps ==
  ASSUME StudioInv, NEW s \in Request, NEW q \in Question, InsertQuestion(s, q)
  PROVE  StudioInv'
<1> DEFINE o == request[s].ordinal
           A == AskedIn(question)
           B == AskedIn(question')
<1>1. /\ request[s].at = "asking" /\ q \notin A
      /\ question' = [question EXCEPT ![q].ordinal = o]
      /\ seen' = [seen EXCEPT !.question[q] = request[s].seen]
      /\ request' = [request EXCEPT ![s] = AtRest]
      /\ UNCHANGED <<interview, sources, draftVars>>
  BY InterviewFacts DEF InsertQuestion, Goes, IsAt
<1>2. /\ request[s] \in Handler
      /\ seen \in [question : [Question -> SUBSET Question],
                   section : [Section -> SUBSET Section],
                   edit : [1..MaxEdits -> SUBSET (Section \X (1..MaxEdits))]]
      /\ question \in [Question -> [ordinal : 0..Cardinality(Question),
                                    response : Response, extracted : BOOLEAN]]
  BY InterviewFacts DEF StudioTypeOK
<1>3. o \in 1..(Cardinality(Question) + 1) /\ request[s].seen \in SUBSET Question
  BY <1>1, <1>2, HandlerFields
<1>4. /\ request[s].seen \subseteq A
      /\ o <= Cardinality(A) + 1
      /\ \A p \in request[s].seen : question[p].ordinal < o
  BY <1>1 DEF StudioInv, HandlersKnow, SoundInterview
<1>5. /\ \A p \in Question : p # q => question'[p] = question[p]
      /\ question'[q].ordinal = o
      /\ question'[q].extracted = question[q].extracted
      /\ question'[q].response = question[q].response
  BY <1>1, <1>2
<1>6. B = A \cup {q}
  BY <1>3, <1>5 DEF AskedIn
<1>7. /\ Cardinality(A) \in Nat /\ Cardinality(B) = Cardinality(A) + 1
      /\ Cardinality(B) <= Cardinality(Question) /\ Cardinality(Question) \in Nat
  <2>1. IsFiniteSet(A) /\ Cardinality(A) \in Nat
    BY AskedCount
  <2>2. Cardinality(A \cup {q}) = Cardinality(A) + 1
    <3> HIDE DEF A
    <3> QED BY <1>1, <2>1, FS_AddElement
  <2>3. Cardinality(B) <= Cardinality(Question)
    BY AskedCount
  <2> QED BY <1>6, <2>1, <2>2, <2>3, InterviewFacts
<1>8. question' \in [Question -> [ordinal : 0..Cardinality(Question),
                                  response : Response, extracted : BOOLEAN]]
  <2>1. o \in 0..Cardinality(Question)
    BY <1>3, <1>4, <1>7
  <2> HIDE DEF o
  <2> QED BY <1>1, <1>2, <2>1
<1>9. /\ seen' \in [question : [Question -> SUBSET Question],
                    section : [Section -> SUBSET Section],
                    edit : [1..MaxEdits -> SUBSET (Section \X (1..MaxEdits))]]
      /\ seen'.section = seen.section /\ seen'.edit = seen.edit
      /\ seen'.question[q] = request[s].seen
      /\ \A p \in Question : p # q => seen'.question[p] = seen.question[p]
  BY <1>1, <1>2, <1>3
<1>10. QuestionsOrdered'
  <2>1. \A p \in Question : question'[p].ordinal <= Cardinality(B)
    <3> TAKE p \in Question
    <3>1. CASE p = q
      BY <1>3, <1>4, <1>5, <1>7, <3>1
    <3>2. CASE p # q
      <4>1. question[p].ordinal <= Cardinality(A) /\ question[p].ordinal \in Nat
        BY InterviewFacts DEF QuestionsOrdered
      <4> QED BY <1>5, <1>7, <3>2, <4>1
    <3> QED BY <3>1, <3>2
  <2>2. \A p \in Question : seen'.question[p] \subseteq B
    BY <1>4, <1>6, <1>9, InterviewFacts DEF QuestionsOrdered
  <2>3. ASSUME NEW p \in B, NEW z \in seen'.question[p]
        PROVE  question'[z].ordinal < question'[p].ordinal
    <3>1. CASE p = q
      <4>1. z \in A /\ question[z].ordinal < o
        BY <1>4, <1>9, <2>3, <3>1
      <4>2. z \in Question /\ z # q
        BY <1>1, <4>1 DEF AskedIn
      <4> QED BY <1>5, <3>1, <4>1, <4>2
    <3>2. CASE p # q
      <4>1. p \in A /\ p \in Question
        BY <1>6, <3>2 DEF AskedIn
      <4>2. z \in seen.question[p]
        BY <1>9, <2>3, <3>2, <4>1
      <4>3. z \in A /\ question[z].ordinal < question[p].ordinal
        BY <4>1, <4>2, InterviewFacts DEF QuestionsOrdered
      <4>4. z \in Question /\ z # q
        BY <1>1, <4>3 DEF AskedIn
      <4> QED BY <1>5, <3>2, <4>1, <4>3, <4>4
    <3> QED BY <3>1, <3>2
  <2> QED BY <2>1, <2>2, <2>3 DEF QuestionsOrdered
<1>11. TranscriptsAsked'
  BY <1>1, <1>6, InterviewFacts DEF TranscriptsAsked
<1>12. \A p \in Question : question'[p].extracted = question[p].extracted
  BY <1>5
<1>13. \A n \in 1..Len(sources) : DOMAIN sources[n] \subseteq Question
  BY InterviewFacts DEF TranscriptsAsked, AskedIn
<1>14. MarksTold'
  BY <1>1, <1>12, <1>13, InterviewFacts DEF MarksTold
<1>15. InterviewHalf'
  BY <1>10, <1>11, <1>14 DEF InterviewHalf
<1>16. /\ A \subseteq B
       /\ \A p \in A : question'[p].ordinal = question[p].ordinal
  BY <1>1, <1>5, <1>6 DEF AskedIn
<1>17. /\ interview' \in [status : {"none", "drafting", "completed"},
                          source : NoSource..MaxSources]
       /\ sources' \in Seq(Transcript) /\ Len(sources) <= Len(sources')
       /\ Len(sources') <= MaxSources
  BY <1>1, InterviewFacts DEF StudioTypeOK
<1> QED BY <1>1, <1>8, <1>9, <1>15, <1>16, <1>17, AtRestFacts, InterviewSteps

\* A handler is at a stage of its own before it writes, and then is done.
LEMMA CommitResponseKeeps ==
  ASSUME StudioInv, NEW s \in Request, CommitResponse(s)
  PROVE  StudioInv'
<1>1. /\ request[s].at = "answering"
      /\ request' = [request EXCEPT ![s] = AtRest]
      /\ UNCHANGED <<interview, sources, draftVars, seen>>
      /\ question' = question
         \/ question' = [question EXCEPT ![request[s].on].response = request[s].answer]
  BY DEF CommitResponse, Goes, IsAt
<1>2. /\ StudioTypeOK /\ request[s] \in Handler
      /\ question \in [Question -> [ordinal : 0..Cardinality(Question),
                                    response : Response, extracted : BOOLEAN]]
  BY InterviewFacts DEF StudioTypeOK
<1>3. request[s].on \in Question /\ request[s].answer \in Response
  BY <1>1, <1>2, HandlerFields
<1>4. question' \in [Question -> [ordinal : 0..Cardinality(Question),
                                  response : Response, extracted : BOOLEAN]]
  BY <1>1, <1>2, <1>3
<1>5. \A q \in Question : /\ question'[q].ordinal = question[q].ordinal
                          /\ question'[q].extracted = question[q].extracted
  BY <1>1, <1>2, <1>3
<1>6. AskedIn(question') = AskedIn(question)
  BY <1>5 DEF AskedIn
<1>7. QuestionsOrdered'
  <2>1. seen' = seen /\ \A q \in Question : seen.question[q] \in SUBSET Question
    BY <1>1, <1>2 DEF StudioTypeOK
  <2>2. \A q \in AskedIn(question) : q \in Question
    BY DEF AskedIn
  <2> QED BY <1>5, <1>6, <2>1, <2>2, InterviewFacts DEF QuestionsOrdered
<1>8. TranscriptsAsked'
  BY <1>1, <1>6, InterviewFacts DEF TranscriptsAsked
<1>9. \A n \in 1..Len(sources) : DOMAIN sources[n] \subseteq Question
  BY InterviewFacts DEF TranscriptsAsked, AskedIn
<1>10. MarksTold'
  BY <1>1, <1>5, <1>9, InterviewFacts DEF MarksTold
<1>11. InterviewHalf'
  BY <1>7, <1>8, <1>10 DEF InterviewHalf
<1>12. /\ interview' \in [status : {"none", "drafting", "completed"},
                          source : NoSource..MaxSources]
       /\ sources' = sources /\ sources \in Seq(Transcript) /\ Len(sources) \in Nat
       /\ Len(sources') <= MaxSources
  BY <1>1, InterviewFacts DEF StudioTypeOK
<1>13. Len(sources) <= Len(sources')
  BY <1>12
<1>14. /\ seen' \in [question : [Question -> SUBSET Question],
                     section : [Section -> SUBSET Section],
                     edit : [1..MaxEdits -> SUBSET (Section \X (1..MaxEdits))]]
       /\ seen'.section = seen.section /\ seen'.edit = seen.edit
  BY <1>1, <1>2 DEF StudioTypeOK
<1>15. \A q \in AskedIn(question) : question'[q].ordinal = question[q].ordinal
  BY <1>5 DEF AskedIn
<1> QED BY <1>1, <1>4, <1>6, <1>11, <1>12, <1>13, <1>14, <1>15, AtRestFacts, InterviewSteps

LEMMA ReadAnswersKeeps ==
  ASSUME StudioInv, NEW s \in Request, ReadAnswers(s)
  PROVE  StudioInv'
<1> DEFINE f == [q \in Responded |-> question[q].response]
           h == [at |-> "transcribed", answers |-> f]
<1>1. /\ request' = [request EXCEPT ![s] = h]
      /\ UNCHANGED <<interviewVars, draftVars, seen>>
  BY DEF ReadAnswers, Goes
<1>2. Responded \in SUBSET Question /\ Responded \subseteq AskedIn(question)
  BY InterviewFacts DEF Responded, AskedIn
<1>3. \A q \in Responded : question[q].response \in Answer
  BY <1>2, InterviewFacts DEF Responded, Response
<1>4. f \in [Responded -> Answer] /\ DOMAIN f = Responded
  BY <1>3
<1>5. f \in Transcript
  BY <1>2, <1>4 DEF Transcript
<1> HIDE DEF f
<1>6. h \in Handler
  BY <1>5 DEF Handler
<1>7. h.at = "transcribed" /\ h.answers = f
  OBVIOUS
<1> HIDE DEF h
<1>8. SoundInterview(question, sources, h)
  BY <1>2, <1>4, <1>7 DEF SoundInterview
<1>9. SoundDraft(draft, section, gone, citation, edits, h)
  BY <1>7 DEF SoundDraft
<1> QED BY <1>1, <1>6, <1>8, <1>9, OnlyReads

\* The transcript goes under the next number, where nothing overwrites it.
LEMMA CommitSourceKeeps ==
  ASSUME StudioInv, NEW s \in Request, CommitSource(s)
  PROVE  StudioInv'
<1> DEFINE f == request[s].answers
           n == Len(sources) + 1
           h == [at |-> "captured", answers |-> f, source |-> n]
<1>1. /\ request[s].at = "transcribed" /\ Len(sources) < MaxSources
      /\ sources' = Append(sources, f)
      /\ request' = [request EXCEPT ![s] = h]
      /\ UNCHANGED <<interview, question, draftVars, seen>>
  BY DEF CommitSource, Goes, IsAt
<1>2. StudioTypeOK /\ request[s] \in Handler /\ sources \in Seq(Transcript)
  BY InterviewFacts DEF StudioTypeOK
<1>3. f \in Transcript
  BY <1>1, <1>2, HandlerFields
<1>4. DOMAIN f \subseteq AskedIn(question)
  BY <1>1 DEF StudioInv, HandlersKnow, SoundInterview
<1>5. n \in 1..MaxSources /\ Len(sources) \in Nat
  BY <1>1, InterviewFacts
<1>6. h \in Handler
  <2> HIDE DEF f, n
  <2> QED BY <1>3, <1>5 DEF Handler
<1>7. h.at = "captured" /\ h.answers = f /\ h.source = n
  OBVIOUS
<1> HIDE DEF f
<1>8. /\ sources' \in Seq(Transcript) /\ Len(sources') = n
      /\ \A i \in 1..Len(sources) : sources'[i] = sources[i]
      /\ sources'[n] = f
  BY <1>1, <1>2, <1>3
<1> HIDE DEF h
<1>9. SoundInterview(question', sources', h)
  <2>1. n \in 1..Len(sources') /\ question' = question
    BY <1>1, <1>5, <1>8
  <2> QED BY <1>4, <1>7, <1>8, <2>1 DEF SoundInterview
<1>10. SoundDraft(draft, section, gone, citation, edits, h)
  BY <1>7 DEF SoundDraft
<1>11. QuestionsOrdered'
  BY <1>1, InterviewFacts DEF QuestionsOrdered
<1>12. TranscriptsAsked'
  <2>1. \A i \in 1..n : DOMAIN sources'[i] \subseteq AskedIn(question)
    BY <1>4, <1>5, <1>8, InterviewFacts DEF TranscriptsAsked
  <2> QED BY <1>1, <1>8, <2>1 DEF TranscriptsAsked
<1>13. MarksTold'
  <2>1. interview' = interview /\ question' = question
    BY <1>1
  <2>2. \A i \in 1..Len(sources) : i \in 1..n /\ i \in 1..Len(sources')
    BY <1>5, <1>8
  <2> QED BY <1>8, <2>1, <2>2, InterviewFacts DEF MarksTold
<1>14. InterviewHalf'
  BY <1>11, <1>12, <1>13 DEF InterviewHalf
<1>15. /\ interview' \in [status : {"none", "drafting", "completed"},
                          source : NoSource..MaxSources]
       /\ question' = question
       /\ question \in [Question -> [ordinal : 0..Cardinality(Question),
                                     response : Response, extracted : BOOLEAN]]
       /\ seen' = seen
       /\ seen \in [question : [Question -> SUBSET Question],
                    section : [Section -> SUBSET Section],
                    edit : [1..MaxEdits -> SUBSET (Section \X (1..MaxEdits))]]
  BY <1>1, <1>2 DEF StudioTypeOK
<1>16. Len(sources) <= Len(sources') /\ Len(sources') <= MaxSources
  BY <1>5, <1>8
<1> QED BY <1>1, <1>6, <1>8, <1>9, <1>10, <1>14, <1>15, <1>16, InterviewSteps

\* It names the source it has made, and marks what that source holds.
LEMMA MarkCompletedKeeps ==
  ASSUME StudioInv, NEW s \in Request, MarkCompleted(s)
  PROVE  StudioInv'
<1> DEFINE f == request[s].answers
           n == request[s].source
<1>1. /\ request[s].at = "captured"
      /\ interview' = [status |-> "completed", source |-> n]
      /\ question' = [q \in Question |->
                        [question[q] EXCEPT !.extracted = @ \/ q \in DOMAIN f]]
      /\ request' = [request EXCEPT ![s] = AtRest]
      /\ UNCHANGED <<sources, draftVars, seen>>
  BY DEF MarkCompleted, Goes, IsAt, Extracted, Completed
<1>2. /\ StudioTypeOK /\ request[s] \in Handler
      /\ question \in [Question -> [ordinal : 0..Cardinality(Question),
                                    response : Response, extracted : BOOLEAN]]
  BY InterviewFacts DEF StudioTypeOK
<1>3. n \in 1..Len(sources) /\ sources[n] = f /\ DOMAIN f \subseteq AskedIn(question)
  BY <1>1 DEF StudioInv, HandlersKnow, SoundInterview
<1>4. n \in 1..MaxSources
  BY <1>1, <1>2, HandlerFields
<1>5. interview' \in [status : {"none", "drafting", "completed"},
                      source : NoSource..MaxSources]
  BY <1>1, <1>4 DEF NoSource
<1> HIDE DEF f, n
<1>6. \A q \in Question : /\ question'[q].ordinal = question[q].ordinal
                          /\ question'[q].response = question[q].response
                          /\ question'[q].extracted = (question[q].extracted \/ q \in DOMAIN f)
  BY <1>1, <1>2
<1>7. question' \in [Question -> [ordinal : 0..Cardinality(Question),
                                  response : Response, extracted : BOOLEAN]]
  BY <1>1, <1>2
<1>8. AskedIn(question') = AskedIn(question)
  BY <1>6 DEF AskedIn
<1>9. QuestionsOrdered'
  <2>1. seen' = seen /\ \A q \in Question : seen.question[q] \in SUBSET Question
    BY <1>1, <1>2 DEF StudioTypeOK
  <2>2. \A q \in AskedIn(question) : q \in Question
    BY DEF AskedIn
  <2> QED BY <1>6, <1>8, <2>1, <2>2, InterviewFacts DEF QuestionsOrdered
<1>10. TranscriptsAsked'
  BY <1>1, <1>8, InterviewFacts DEF TranscriptsAsked
<1>11. MarksTold'
  <2>1. interview'.status = "completed" /\ interview'.source = n /\ sources' = sources
    BY <1>1
  <2>2. \A q \in DOMAIN f : question'[q].extracted
    BY <1>3, <1>6 DEF AskedIn
  <2>3. ASSUME NEW q \in Question, question'[q].extracted
        PROVE  \E i \in 1..Len(sources) : q \in DOMAIN sources[i]
    <3>1. CASE question[q].extracted
      BY <3>1, InterviewFacts DEF MarksTold
    <3>2. CASE q \in DOMAIN f
      BY <1>3, <3>2
    <3> QED BY <1>6, <2>3, <3>1, <3>2
  <2> QED BY <1>3, <2>1, <2>2, <2>3 DEF MarksTold
<1>12. InterviewHalf'
  BY <1>9, <1>10, <1>11 DEF InterviewHalf
<1>13. /\ seen' \in [question : [Question -> SUBSET Question],
                     section : [Section -> SUBSET Section],
                     edit : [1..MaxEdits -> SUBSET (Section \X (1..MaxEdits))]]
       /\ seen'.section = seen.section /\ seen'.edit = seen.edit
       /\ sources' = sources /\ sources \in Seq(Transcript)
       /\ Len(sources') <= MaxSources /\ Len(sources) \in Nat
  BY <1>1, <1>2, InterviewFacts DEF StudioTypeOK
<1>14. /\ Len(sources) <= Len(sources')
       /\ \A q \in AskedIn(question) : question'[q].ordinal = question[q].ordinal
  BY <1>6, <1>13 DEF AskedIn
<1> QED BY <1>1, <1>5, <1>7, <1>8, <1>12, <1>13, <1>14, AtRestFacts, InterviewSteps

\* Steps that look something up, or give up.
LEMMA LookupsKeep ==
  ASSUME StudioInv, NEW s \in Request
  PROVE  /\ \A purpose \in {"numbering", "reading"} : LoadOpen(s, purpose) => StudioInv'
         /\ \A q \in Question, answer \in Response :
              LoadForResponse(s, q, answer) => StudioInv'
         /\ NothingToExtract(s) => StudioInv'
         /\ Refused(s) => StudioInv'
         /\ Dies(s) => StudioInv'
<1>1. ASSUME NEW purpose \in {"numbering", "reading"}, LoadOpen(s, purpose)
      PROVE  StudioInv'
  <2> DEFINE h == [at |-> purpose]
  <2>1. h \in Handler
    BY DEF Handler
  <2>2. /\ request' = [request EXCEPT ![s] = h]
        /\ UNCHANGED <<interviewVars, draftVars, seen>>
    BY <1>1 DEF LoadOpen, Goes
  <2>3. h.at \in {"numbering", "reading"}
    OBVIOUS
  <2> HIDE DEF h
  <2>4. /\ SoundInterview(question, sources, h)
        /\ SoundDraft(draft, section, gone, citation, edits, h)
    BY <2>3 DEF SoundInterview, SoundDraft
  <2> QED BY <2>1, <2>2, <2>4, OnlyReads
<1>2. ASSUME NEW q \in Question, NEW answer \in Response, LoadForResponse(s, q, answer)
      PROVE  StudioInv'
  <2> DEFINE h == [at |-> "answering", on |-> q, was |-> question[q].response,
                   answer |-> answer]
  <2>1. question[q].response \in Response
    BY InterviewFacts
  <2>2. h \in Handler
    BY <2>1 DEF Handler
  <2>3. /\ request' = [request EXCEPT ![s] = h]
        /\ UNCHANGED <<interviewVars, draftVars, seen>>
    BY <1>2 DEF LoadForResponse, Goes
  <2>4. h.at = "answering"
    OBVIOUS
  <2> HIDE DEF h
  <2>5. /\ SoundInterview(question, sources, h)
        /\ SoundDraft(draft, section, gone, citation, edits, h)
    BY <2>4 DEF SoundInterview, SoundDraft
  <2> QED BY <2>2, <2>3, <2>5, OnlyReads
<1>3. ASSUME NothingToExtract(s) \/ Refused(s) \/ Dies(s)
      PROVE  StudioInv'
  <2>1. /\ request' = [request EXCEPT ![s] = AtRest]
        /\ UNCHANGED <<interviewVars, draftVars, seen>>
    BY <1>3 DEF NothingToExtract, Refused, Dies, Goes
  <2> QED BY <2>1, AtRestFacts, OnlyReads
<1> QED BY <1>1, <1>2, <1>3

-----------------------------------------------------------------------------
(* The draft.                                                              *)

LEMMA DraftFacts ==
  ASSUME StudioInv
  PROVE  /\ StudioTypeOK /\ SectionsOrdered /\ CitationsDated /\ ReplacedIsGone
         /\ Made = MadeIn(section)
         /\ gone \in SUBSET Section /\ UsedIn(section, gone) \in SUBSET Section
         /\ \A x \in Section : section[x] \in 0..Cardinality(Section)
         /\ edits \in 0..MaxEdits /\ edits \in Nat
         /\ MaxEdits \in Nat /\ Cardinality(Section) \in Nat
<1>1. Cardinality(Section) \in Nat /\ MaxEdits \in Nat
  BY StudioAssumption, FS_CardinalityType
<1>2. StudioTypeOK /\ SectionsOrdered /\ CitationsDated /\ ReplacedIsGone
  BY DEF StudioInv, DraftHalf
<1>3. gone \in SUBSET Section /\ UsedIn(section, gone) \in SUBSET Section
  BY <1>2 DEF StudioTypeOK, UsedIn, MadeIn
<1>4. edits \in 0..MaxEdits /\ edits \in Nat
  BY <1>1, <1>2 DEF StudioTypeOK
<1>5. \A x \in Section : section[x] \in 0..Cardinality(Section)
  BY <1>2 DEF StudioTypeOK
<1>6. Made = MadeIn(section)
  BY DEF Made, MadeIn
<1> QED BY <1>1, <1>2, <1>3, <1>4, <1>5, <1>6

\* Citations bear the number of the edit that makes them.
LEMMA CitesFacts ==
  ASSUME StudioInv, edits < MaxEdits, NEW K \in SUBSET Item
  PROVE  /\ Cites(K) \in SUBSET Citation
         /\ \A c \in Cites(K) : c.edit = edits + 1
         /\ NewEdit = edits + 1 /\ edits + 1 \in 1..MaxEdits
<1>1. NewEdit = edits + 1 /\ edits + 1 \in 1..MaxEdits
  BY DraftFacts DEF NewEdit
<1>2. ASSUME NEW c \in Cites(K)
      PROVE  c \in Citation /\ c.edit = edits + 1
  <2>1. PICK k \in K : c = [item |-> k, edit |-> edits + 1]
    BY <1>1, <1>2 DEF Cites
  <2> QED BY <1>1, <2>1 DEF Citation
<1> QED BY <1>1, <1>2

\* Citations that were made in one more edit, which replaced none.
LEMMA MoreCitations ==
  ASSUME StudioInv, edits < MaxEdits, edits' = edits + 1, seen'.edit = seen.edit,
         \A x \in Section : \A c \in citation'[x] : c \in citation[x] \/ c.edit = edits + 1,
         \A x \in Section \ Made' : citation'[x] = {}
  PROVE  CitationsDated' /\ ReplacedIsGone'
<1>1. /\ edits \in Nat /\ MaxEdits \in Nat /\ CitationsDated /\ ReplacedIsGone
      /\ seen.edit \in [1..MaxEdits -> SUBSET (Section \X (1..MaxEdits))]
      /\ citation \in [Section -> SUBSET Citation]
  BY DraftFacts DEF StudioTypeOK
<1>2. \A n \in 1..MaxEdits : \A z \in seen.edit[n] : z[2] \in Nat
  BY <1>1
<1>3. \A x \in Section : \A c \in citation[x] : c.edit \in Nat
  BY <1>1 DEF Citation
<1>4. \A x \in Section : \A c \in citation'[x] : c.edit <= edits'
  BY <1>1, <1>3 DEF CitationsDated
<1>5. \A n \in 1..MaxEdits : \A z \in seen'.edit[n] : n <= edits' /\ z[2] <= edits'
  BY <1>1, <1>2 DEF CitationsDated
<1>6. ASSUME NEW x \in Section, NEW n \in 1..edits', NEW c \in citation'[x]
      PROVE  <<x, c.edit>> \notin seen'.edit[n]
  <2>1. n \in 1..MaxEdits
    BY <1>1
  <2>2. CASE c.edit = edits + 1
    <3>1. \A z \in seen.edit[n] : z[2] <= edits /\ z[2] \in Nat
      BY <1>1, <1>2, <2>1 DEF CitationsDated
    <3>2. <<x, c.edit>>[2] = c.edit
      OBVIOUS
    <3> QED BY <1>1, <2>2, <3>1, <3>2
  <2>3. CASE c \in citation[x]
    <3>1. CASE n \in 1..edits
      BY <1>1, <2>3, <3>1 DEF ReplacedIsGone
    <3>2. CASE n \notin 1..edits
      <4>1. seen.edit[n] = {}
        BY <1>1, <2>1, <3>2 DEF CitationsDated
      <4> QED BY <4>1
    <3> QED BY <3>1, <3>2
  <2> QED BY <2>2, <2>3
<1> QED BY <1>4, <1>5, <1>6 DEF CitationsDated, ReplacedIsGone

LEMMA CreateDraftKeeps ==
  ASSUME StudioInv, NEW s \in Request, CreateDraft(s)
  PROVE  StudioInv'
<1>1. /\ draft' = TRUE
      /\ interview' = interview /\ question' = question /\ sources' = sources
      /\ section' = section /\ gone' = gone /\ citation' = citation
      /\ edits' = edits /\ seen' = seen /\ request' = request
  BY DEF CreateDraft, interviewVars
<1>2. StudioTypeOK'
  <2>1. draft' \in BOOLEAN
    BY <1>1, Zenon
  <2> QED BY <1>1, <2>1 DEF StudioInv, StudioTypeOK
<1>3. InterviewHalf'
  BY <1>1 DEF StudioInv, InterviewHalf, QuestionsOrdered, TranscriptsAsked, MarksTold
<1>4. SectionsOrdered'
  BY <1>1 DEF StudioInv, DraftHalf, SectionsOrdered
<1>5. CitationsDated' /\ ReplacedIsGone'
  BY <1>1 DEF StudioInv, DraftHalf, CitationsDated, ReplacedIsGone, Made
<1>6. HandlersKnow'
  <2>1. ASSUME NEW z \in Request
        PROVE  /\ SoundInterview(question, sources, request[z])
               /\ SoundDraft(draft', section, gone, citation, edits, request[z])
    BY <1>1 DEF StudioInv, HandlersKnow, SoundDraft
  <2> QED BY <1>1, <2>1 DEF HandlersKnow
<1> QED BY <1>2, <1>3, <1>4, <1>5, <1>6 DEF StudioInv, DraftHalf

LEMMA LoadDraftKeeps ==
  ASSUME StudioInv, NEW s \in Request, LoadDraft(s)
  PROVE  StudioInv'
<1> DEFINE O == {section[x] : x \in Made}
           U == UsedIn(section, gone)
           n == NextOrdinal(O, Made)
           h == [at |-> "placing", seen |-> Made, ordinal |-> n]
<1>1. Cardinality(U) \in Nat /\ Cardinality(U) <= Cardinality(Section)
  BY DraftFacts, UsedCount
<1>2. O \in SUBSET Nat /\ \A i \in O : i <= Cardinality(U)
  BY DraftFacts DEF SectionsOrdered, MadeIn
<1>3. n \in 1..(Cardinality(U) + 1) /\ \A i \in O : i < n
  BY <1>1, <1>2, NextOrdinalFacts
<1>4. \A x \in Made : section[x] < n
  BY <1>3
<1>5. /\ request' = [request EXCEPT ![s] = h]
      /\ UNCHANGED <<interviewVars, draftVars, seen>>
  BY DEF LoadDraft, Goes
<1>6. Made \subseteq U /\ Made \subseteq Section
  BY DraftFacts DEF UsedIn
<1> HIDE DEF n
<1>7. n \in 1..(Cardinality(Section) + 1) /\ n <= Cardinality(U) + 1
  BY <1>1, <1>3, DraftFacts
<1>8. h \in Handler
  BY <1>6, <1>7 DEF Handler
<1>9. h.at = "placing" /\ h.seen = Made /\ h.ordinal = n
  OBVIOUS
<1> HIDE DEF h
<1>10. SoundInterview(question, sources, h)
  BY <1>9 DEF SoundInterview
<1>11. SoundDraft(draft, section, gone, citation, edits, h)
  <2>1. draft
    BY DEF LoadDraft
  <2> QED BY <1>4, <1>6, <1>7, <1>9, <2>1 DEF SoundDraft
<1> QED BY <1>5, <1>8, <1>10, <1>11, OnlyReads

LEMMA LoadSectionKeeps ==
  ASSUME StudioInv, NEW s \in Request, NEW x \in Section,
         NEW purpose \in {"citing", "deleting"}, LoadSection(s, x, purpose)
  PROVE  StudioInv'
<1> DEFINE h == [at |-> purpose, on |-> x, old |-> citation[x]]
<1>1. /\ request' = [request EXCEPT ![s] = h] /\ x \in Made
      /\ UNCHANGED <<interviewVars, draftVars, seen>>
  BY DEF LoadSection, Goes
<1>2. citation[x] \in SUBSET Citation
  BY DraftFacts DEF StudioTypeOK
<1>3. h \in Handler
  BY <1>2 DEF Handler
<1>4. h.at \in {"citing", "deleting"} /\ h.on = x /\ h.old = citation[x]
  OBVIOUS
<1> HIDE DEF h
<1>5. SoundInterview(question, sources, h)
  BY <1>4 DEF SoundInterview
<1>6. x \in UsedIn(section, gone) /\ \A d \in citation[x] : d.edit <= edits
  BY <1>1, DraftFacts DEF UsedIn, CitationsDated
<1>7. SoundDraft(draft, section, gone, citation, edits, h)
  BY <1>4, <1>6 DEF SoundDraft
<1> QED BY <1>1, <1>3, <1>5, <1>7, OnlyReads

\* Before there is a draft there are no sections, so those that are made at once
\* are all there are.
LEMMA AssembleKeeps ==
  ASSUME StudioInv, NEW s \in Request, NEW K \in SUBSET Item, Assemble(s, K)
  PROVE  StudioInv'
<1>1. /\ ~draft /\ edits < MaxEdits /\ draft' = TRUE /\ edits' = NewEdit
      /\ UNCHANGED <<interviewVars, gone, request>>
  BY DEF Assemble
<1>2. UsedIn(section, gone) = {} /\ gone = {} /\ Made = {} /\ Unmade = Section
  BY <1>1, DraftFacts DEF SectionsOrdered, UsedIn, Unmade
<1>3. PICK kinds \in [Unmade -> Type \cup {"none"}] :
        LET used == {x \in Unmade : kinds[x] # "none"}
        IN /\ {kinds[x] : x \in used} = {TypeOf[k] : k \in K}
           /\ \A x, y \in used : kinds[x] = kinds[y] => x = y
           /\ \E place \in [used -> 1..Cardinality(used)] :
                /\ \A x, y \in used : place[x] = place[y] => x = y
                /\ section' = [x \in Section |-> IF x \in used THEN place[x] ELSE section[x]]
                /\ seen' = [seen EXCEPT !.section =
                     [x \in Section |-> IF x \in used
                                        THEN {y \in used : place[y] < place[x]} ELSE @[x]]]
           /\ citation' = [x \in Section |->
                IF x \in used THEN Cites({k \in K : TypeOf[k] = kinds[x]}) ELSE citation[x]]
  BY DEF Assemble
<1> DEFINE used == {x \in Unmade : kinds[x] # "none"}
<1>4. PICK place \in [used -> 1..Cardinality(used)] :
        /\ section' = [x \in Section |-> IF x \in used THEN place[x] ELSE section[x]]
        /\ seen' = [seen EXCEPT !.section =
             [x \in Section |-> IF x \in used
                                THEN {y \in used : place[y] < place[x]} ELSE @[x]]]
  BY <1>3
<1>5. citation' = [x \in Section |->
                IF x \in used THEN Cites({k \in K : TypeOf[k] = kinds[x]}) ELSE citation[x]]
  BY <1>3
<1>6. used \in SUBSET Section
  BY <1>2
<1> HIDE DEF used
<1>7. /\ Cardinality(used) \in Nat /\ Cardinality(used) <= Cardinality(Section)
      /\ Cardinality(Section) \in Nat
  BY <1>6, UsedCount, DraftFacts
<1>8. \A x \in Section : section[x] = 0
  BY <1>2, DraftFacts DEF MadeIn
<1>9. /\ \A x \in used : section'[x] = place[x] /\ place[x] \in 1..Cardinality(used)
      /\ \A x \in Section \ used : section'[x] = 0
  BY <1>4, <1>6, <1>8
<1>10. section' \in [Section -> 0..Cardinality(Section)]
  BY <1>4, <1>6, <1>7, <1>8
<1>11. /\ MadeIn(section') = used /\ gone' = {} /\ UsedIn(section', gone') = used
       /\ Made' = used
  BY <1>1, <1>2, <1>6, <1>7, <1>9 DEF MadeIn, UsedIn, Made
<1>12. seen \in [question : [Question -> SUBSET Question],
                 section : [Section -> SUBSET Section],
                 edit : [1..MaxEdits -> SUBSET (Section \X (1..MaxEdits))]]
  BY DraftFacts DEF StudioTypeOK
<1>13. /\ seen'.section = [x \in Section |-> IF x \in used
                             THEN {y \in used : place[y] < place[x]} ELSE seen.section[x]]
       /\ seen'.question = seen.question /\ seen'.edit = seen.edit
  BY <1>4, <1>12
<1>14. seen' \in [question : [Question -> SUBSET Question],
                  section : [Section -> SUBSET Section],
                  edit : [1..MaxEdits -> SUBSET (Section \X (1..MaxEdits))]]
  <2>1. [x \in Section |-> IF x \in used
             THEN {y \in used : place[y] < place[x]} ELSE seen.section[x]]
          \in [Section -> SUBSET Section]
    BY <1>6, <1>12
  <2> QED BY <1>4, <1>12, <2>1
<1>15. /\ edits' = edits + 1 /\ edits' \in 0..MaxEdits /\ edits <= edits'
       /\ \A L \in SUBSET Item : /\ Cites(L) \in SUBSET Citation
                                 /\ \A c \in Cites(L) : c.edit = edits + 1
  BY <1>1, CitesFacts, DraftFacts
<1>16. /\ \A x \in used : /\ citation'[x] \in SUBSET Citation
                          /\ \A c \in citation'[x] : c.edit = edits + 1
       /\ \A x \in Section \ used : citation'[x] = {}
  <2>1. \A x \in Section \ used : citation'[x] = citation[x] /\ citation[x] = {}
    BY <1>2, <1>5, DraftFacts DEF ReplacedIsGone
  <2>2. ASSUME NEW x \in used
        PROVE  /\ citation'[x] \in SUBSET Citation
               /\ \A c \in citation'[x] : c.edit = edits + 1
    <3>1. {k \in K : TypeOf[k] = kinds[x]} \in SUBSET Item
      OBVIOUS
    <3>2. citation'[x] = Cites({k \in K : TypeOf[k] = kinds[x]})
      BY <1>5, <1>6, <2>2
    <3> QED BY <1>15, <3>1, <3>2
  <2> QED BY <2>1, <2>2
<1>17. citation' \in [Section -> SUBSET Citation]
  <2>1. \A x \in Section : citation'[x] \in SUBSET Citation
    BY <1>16
  <2>2. citation' = [x \in Section |-> citation'[x]]
    BY <1>5
  <2> QED BY <2>1, <2>2
<1>18. \A x \in Section : \A c \in citation'[x] : c \in citation[x] \/ c.edit = edits + 1
  BY <1>16
<1>19. CitationsDated' /\ ReplacedIsGone'
  BY <1>1, <1>11, <1>13, <1>15, <1>16, <1>18, MoreCitations
<1>20. SectionsOrdered'
  <2>1. \A x \in Section : section'[x] <= Cardinality(UsedIn(section', gone'))
    BY <1>7, <1>9, <1>11
  <2>2. \A x \in Section : seen'.section[x] \subseteq UsedIn(section', gone')
    BY <1>2, <1>11, <1>13, DraftFacts DEF SectionsOrdered
  <2>3. \A x \in MadeIn(section') : \A y \in seen'.section[x] \cap MadeIn(section') :
          section'[y] < section'[x]
    <3> TAKE x \in MadeIn(section')
    <3> TAKE y \in seen'.section[x] \cap MadeIn(section')
    <3>1. x \in used /\ y \in used /\ place[y] < place[x]
      BY <1>6, <1>11, <1>13
    <3> QED BY <1>9, <3>1
  <2> QED BY <1>1, <1>11, <2>1, <2>2, <2>3 DEF SectionsOrdered
<1>21. DraftHalf'
  BY <1>19, <1>20 DEF DraftHalf
<1>22. /\ UsedIn(section, gone) \subseteq UsedIn(section', gone')
       /\ \A x \in UsedIn(section, gone) \cap MadeIn(section') :
            x \in MadeIn(section) /\ section'[x] = section[x]
       /\ \A x \in Section : \A c \in citation'[x] : c \in citation[x] \/ c.edit > edits
       /\ gone' \subseteq Section
  BY <1>2, <1>11, <1>15, <1>18, DraftFacts
<1>23. request[s] \in Handler /\ request' = [request EXCEPT ![s] = request[s]]
  BY <1>1, DraftFacts DEF StudioTypeOK
<1>24. DraftGrows(draft, draft', section, section', gone, gone', citation, citation',
                  edits, edits')
  <2>1. /\ (draft => draft') /\ gone \in SUBSET Section /\ gone' \in SUBSET Section
        /\ edits \in Nat /\ edits' \in Nat /\ edits <= edits'
    BY <1>1, <1>15, <1>22, DraftFacts
  <2> QED BY <1>22, <2>1 DEF DraftGrows
<1>25. SoundInterview(question, sources, request[s])
       /\ SoundDraft(draft, section, gone, citation, edits, request[s])
  BY DEF StudioInv, HandlersKnow
<1>26. SoundDraft(draft', section', gone', citation', edits', request[s])
  BY <1>23, <1>24, <1>25, DraftMovesOn
<1>27. draft' \in BOOLEAN /\ (draft => draft')
  BY <1>1, Zenon
<1>28. UNCHANGED interviewVars /\ seen'.question = seen.question
  BY <1>1, <1>13
<1> QED BY <1>10, <1>14, <1>15, <1>17, <1>21, <1>22, <1>23, <1>25, <1>26, <1>27, <1>28,
           DraftSteps

LEMMA InsertSectionKeeps ==
  ASSUME StudioInv, NEW s \in Request, NEW x \in Section, NEW K \in SUBSET Item,
         InsertSection(s, x, K)
  PROVE  StudioInv'
<1> DEFINE o == request[s].ordinal
           U == UsedIn(section, gone)
           W == UsedIn(section', gone')
<1>1. /\ request[s].at = "placing" /\ x \in Unmade /\ edits < MaxEdits
      /\ section' = [section EXCEPT ![x] = o]
      /\ citation' = [citation EXCEPT ![x] = Cites(K)]
      /\ edits' = NewEdit
      /\ seen' = [seen EXCEPT !.section[x] = request[s].seen]
      /\ request' = [request EXCEPT ![s] = AtRest]
      /\ interviewVars' = interviewVars /\ draft' = draft /\ gone' = gone
  BY DEF InsertSection, Goes, IsAt
<1>2. /\ request[s] \in Handler
      /\ seen \in [question : [Question -> SUBSET Question],
                   section : [Section -> SUBSET Section],
                   edit : [1..MaxEdits -> SUBSET (Section \X (1..MaxEdits))]]
      /\ section \in [Section -> 0..Cardinality(Section)]
      /\ citation \in [Section -> SUBSET Citation]
      /\ draft \in BOOLEAN
  BY DraftFacts DEF StudioTypeOK
<1>3. o \in 1..(Cardinality(Section) + 1) /\ request[s].seen \in SUBSET Section
  BY <1>1, <1>2, HandlerFields
<1>4. /\ request[s].seen \subseteq U
      /\ o <= Cardinality(U) + 1
      /\ \A y \in request[s].seen \cap MadeIn(section) : section[y] < o
  BY <1>1 DEF StudioInv, HandlersKnow, SoundDraft
<1>5. x \notin U /\ x \notin gone /\ x \notin MadeIn(section)
  BY <1>1, DraftFacts DEF Unmade, UsedIn
<1>6. section'[x] = o /\ \A y \in Section : y # x => section'[y] = section[y]
  BY <1>1, <1>2
<1>7. MadeIn(section') = MadeIn(section) \cup {x} /\ W = U \cup {x}
  <2>1. o > 0
    BY <1>3, DraftFacts
  <2>2. MadeIn(section') = MadeIn(section) \cup {x}
    BY <1>6, <2>1 DEF MadeIn
  <2> QED BY <1>1, <2>2 DEF UsedIn
<1>8. /\ Cardinality(U) \in Nat /\ Cardinality(W) = Cardinality(U) + 1
      /\ Cardinality(W) <= Cardinality(Section) /\ Cardinality(Section) \in Nat
  <2>1. U \in SUBSET Section /\ W \in SUBSET Section /\ U \subseteq W
    BY <1>7, DraftFacts
  <2>2. /\ IsFiniteSet(U) /\ Cardinality(U) \in Nat
        /\ Cardinality(W) <= Cardinality(Section)
    BY <2>1, UsedCount
  <2>3. Cardinality(U \cup {x}) = Cardinality(U) + 1
    <3> HIDE DEF U
    <3> QED BY <1>5, <2>2, FS_AddElement
  <2> QED BY <1>7, <2>2, <2>3, DraftFacts
<1>9. section' \in [Section -> 0..Cardinality(Section)]
  <2>1. o \in 0..Cardinality(Section)
    BY <1>3, <1>4, <1>8
  <2> HIDE DEF o
  <2> QED BY <1>1, <1>2, <2>1
<1>10. /\ seen' \in [question : [Question -> SUBSET Question],
                     section : [Section -> SUBSET Section],
                     edit : [1..MaxEdits -> SUBSET (Section \X (1..MaxEdits))]]
       /\ seen'.question = seen.question /\ seen'.edit = seen.edit
       /\ seen'.section[x] = request[s].seen
       /\ \A y \in Section : y # x => seen'.section[y] = seen.section[y]
  BY <1>1, <1>2, <1>3
<1>11. /\ edits' = edits + 1 /\ edits' \in 0..MaxEdits /\ edits <= edits'
       /\ Cites(K) \in SUBSET Citation /\ \A c \in Cites(K) : c.edit = edits + 1
  <2>1. /\ Cites(K) \in SUBSET Citation /\ \A c \in Cites(K) : c.edit = edits + 1
        /\ NewEdit = edits + 1 /\ edits + 1 \in 1..MaxEdits
    BY <1>1, CitesFacts
  <2>2. edits' = edits + 1
    BY <1>1, <2>1
  <2> QED BY <2>1, <2>2, DraftFacts
<1>12. /\ citation' \in [Section -> SUBSET Citation]
       /\ \A y \in Section : \A c \in citation'[y] : c \in citation[y] \/ c.edit = edits + 1
       /\ \A y \in Section : y # x => citation'[y] = citation[y]
  BY <1>1, <1>2, <1>11
<1>13. \A y \in Section \ Made' : citation'[y] = {}
  <2>1. Made' = MadeIn(section) \cup {x}
    BY <1>7 DEF Made, MadeIn
  <2> QED BY <1>12, <2>1, DraftFacts DEF ReplacedIsGone
<1>14. CitationsDated' /\ ReplacedIsGone'
  BY <1>1, <1>10, <1>11, <1>12, <1>13, MoreCitations
<1>15. SectionsOrdered'
  <2>1. \A y \in Section : section'[y] <= Cardinality(W)
    <3> TAKE y \in Section
    <3>1. CASE y = x
      BY <1>3, <1>4, <1>6, <1>8, <3>1
    <3>2. CASE y # x
      <4>1. section[y] <= Cardinality(U) /\ section[y] \in Nat
        BY DraftFacts DEF SectionsOrdered
      <4> QED BY <1>6, <1>8, <3>2, <4>1
    <3> QED BY <3>1, <3>2
  <2>2. \A y \in Section : seen'.section[y] \subseteq W
    BY <1>4, <1>7, <1>10, DraftFacts DEF SectionsOrdered
  <2>3. ASSUME NEW z \in MadeIn(section'),
               NEW y \in seen'.section[z] \cap MadeIn(section')
        PROVE  section'[y] < section'[z]
    <3>1. CASE z = x
      <4>1. y \in request[s].seen /\ y \in U /\ y # x
        BY <1>4, <1>5, <1>10, <3>1
      <4>2. y \in MadeIn(section) /\ y \in Section
        BY <1>7, <4>1 DEF MadeIn
      <4> QED BY <1>4, <1>6, <3>1, <4>1, <4>2
    <3>2. CASE z # x
      <4>1. z \in MadeIn(section) /\ z \in Section
        BY <1>7, <3>2 DEF MadeIn
      <4>2. y \in seen.section[z] /\ y \in U /\ y # x
        BY <1>5, <1>10, <3>2, <4>1, DraftFacts DEF SectionsOrdered
      <4>3. y \in MadeIn(section) /\ y \in Section
        BY <1>7, <4>2 DEF MadeIn
      <4>4. section[y] < section[z]
        BY <4>1, <4>2, <4>3, DraftFacts DEF SectionsOrdered
      <4> QED BY <1>6, <3>2, <4>1, <4>2, <4>3, <4>4
    <3> QED BY <3>1, <3>2
  <2>4. draft'
    BY <1>1 DEF StudioInv, HandlersKnow, SoundDraft
  <2>5. MadeIn(section') \cap gone' = {}
    BY <1>1, <1>5, <1>7, DraftFacts DEF SectionsOrdered
  <2> QED BY <2>1, <2>2, <2>3, <2>4, <2>5 DEF SectionsOrdered
<1>16. DraftHalf'
  BY <1>14, <1>15 DEF DraftHalf
<1>17. \A y \in U \cap MadeIn(section') : y \in MadeIn(section) /\ section'[y] = section[y]
  BY <1>5, <1>6, <1>7, DraftFacts
<1>18. \A y \in Section : \A c \in citation'[y] : c \in citation[y] \/ c.edit > edits
  BY <1>11, <1>12, DraftFacts
<1>19. U \subseteq W /\ gone' \subseteq Section /\ draft' \in BOOLEAN /\ (draft => draft')
  BY <1>1, <1>2, <1>7, DraftFacts
<1> HIDE DEF U, W, o
<1>20. /\ UsedIn(section, gone) \subseteq UsedIn(section', gone')
       /\ \A y \in UsedIn(section, gone) \cap MadeIn(section') :
            y \in MadeIn(section) /\ section'[y] = section[y]
  BY <1>17, <1>19 DEF U, W
<1> QED BY <1>1, <1>9, <1>10, <1>11, <1>12, <1>16, <1>18, <1>19, <1>20, AtRestFacts, DraftSteps

\* What the update has read is gone, and all of an edit with it.
LEMMA CommitCitationsKeeps ==
  ASSUME StudioInv, NEW s \in Request, NEW K \in SUBSET Item, CommitCitations(s, K)
  PROVE  StudioInv'
<1> DEFINE x == request[s].on
           old == request[s].old
<1>1. /\ request[s].at = "citing" /\ x \in Made /\ edits < MaxEdits
      /\ citation' = [citation EXCEPT ![x] = (@ \ old) \cup Cites(K)]
      /\ edits' = NewEdit
      /\ seen' = [seen EXCEPT !.edit[NewEdit] = {<<x, c.edit>> : c \in old}]
      /\ request' = [request EXCEPT ![s] = AtRest]
      /\ interviewVars' = interviewVars /\ draft' = draft
      /\ section' = section /\ gone' = gone
  BY DEF CommitCitations, Goes, IsAt, Removed
<1>2. /\ request[s] \in Handler
      /\ seen \in [question : [Question -> SUBSET Question],
                   section : [Section -> SUBSET Section],
                   edit : [1..MaxEdits -> SUBSET (Section \X (1..MaxEdits))]]
      /\ section \in [Section -> 0..Cardinality(Section)]
      /\ citation \in [Section -> SUBSET Citation]
      /\ draft \in BOOLEAN
  BY DraftFacts DEF StudioTypeOK
<1>3. x \in Section /\ old \in SUBSET Citation
  BY <1>1, <1>2, HandlerFields
<1>4. \A d \in old : d.edit <= edits /\ \A c \in citation[x] : c.edit = d.edit => c \in old
  BY <1>1 DEF StudioInv, HandlersKnow, SoundDraft
<1> HIDE DEF x, old
<1>5. /\ Cites(K) \in SUBSET Citation /\ \A c \in Cites(K) : c.edit = edits + 1
      /\ NewEdit = edits + 1 /\ edits + 1 \in 1..MaxEdits
  BY <1>1, CitesFacts
<1>6. /\ edits' = edits + 1 /\ edits' \in 0..MaxEdits /\ edits <= edits'
      /\ edits \in Nat /\ MaxEdits \in Nat
  BY <1>1, <1>5, DraftFacts
<1>7. /\ citation' \in [Section -> SUBSET Citation]
      /\ \A y \in Section : \A c \in citation'[y] : c \in citation[y] \/ c.edit = edits + 1
      /\ \A y \in Section : y # x => citation'[y] = citation[y]
      /\ \A c \in citation'[x] : c \in citation[x] \ old \/ c.edit = edits + 1
  BY <1>1, <1>2, <1>3, <1>5
<1> DEFINE pairs == {<<x, c.edit>> : c \in old}
<1>8. \A d \in old : d.edit \in 1..MaxEdits
  BY <1>3 DEF Citation
<1>9. pairs \in SUBSET (Section \X (1..MaxEdits))
  BY <1>3, <1>8
<1>10. /\ \A z \in pairs : z[1] = x /\ z[2] <= edits
       /\ \A z \in pairs : \E d \in old : z = <<x, d.edit>>
  BY <1>4
<1> HIDE DEF pairs
<1>11. /\ seen' \in [question : [Question -> SUBSET Question],
                     section : [Section -> SUBSET Section],
                     edit : [1..MaxEdits -> SUBSET (Section \X (1..MaxEdits))]]
       /\ seen'.question = seen.question /\ seen'.section = seen.section
       /\ seen'.edit[edits + 1] = pairs
       /\ \A n \in 1..MaxEdits : n # edits + 1 => seen'.edit[n] = seen.edit[n]
  <2>1. seen' = [seen EXCEPT !.edit[edits + 1] = pairs]
    BY <1>1, <1>5 DEF pairs
  <2> QED BY <1>2, <1>5, <1>9, <2>1
<1>12. \A n \in 1..MaxEdits : \A z \in seen.edit[n] :
         z[2] \in Nat /\ n <= edits /\ z[2] <= edits
  BY <1>2, <1>6, DraftFacts DEF CitationsDated
<1>13. CitationsDated'
  <2>1. \A y \in Section : \A c \in citation'[y] : c.edit <= edits'
    <3> TAKE y \in Section
    <3> TAKE c \in citation'[y]
    <3>1. CASE c.edit = edits + 1
      BY <1>6, <3>1
    <3>2. CASE c \in citation[y]
      <4>1. c.edit \in Nat
        BY <1>2, <3>2 DEF Citation
      <4>2. c.edit <= edits
        BY <3>2, DraftFacts DEF CitationsDated
      <4> QED BY <1>6, <4>1, <4>2
    <3> QED BY <1>7, <3>1, <3>2
  <2>2. ASSUME NEW n \in 1..MaxEdits, NEW z \in seen'.edit[n]
        PROVE  n <= edits' /\ z[2] <= edits'
    <3>1. CASE n = edits + 1
      <4>1. z \in pairs
        BY <1>11, <2>2, <3>1
      <4>2. PICK d \in old : z = <<x, d.edit>>
        BY <1>10, <4>1
      <4>3. d.edit <= edits /\ d.edit \in Nat /\ z[2] = d.edit
        BY <1>4, <1>8, <4>2
      <4> QED BY <1>6, <3>1, <4>3
    <3>2. CASE n # edits + 1
      BY <1>6, <1>11, <1>12, <2>2, <3>2
    <3> QED BY <3>1, <3>2
  <2> QED BY <2>1, <2>2 DEF CitationsDated
<1>14. ReplacedIsGone'
  <2>1. ASSUME NEW y \in Section, NEW n \in 1..edits', NEW c \in citation'[y]
        PROVE  <<y, c.edit>> \notin seen'.edit[n]
    <3>1. n \in 1..MaxEdits
      BY <1>6
    <3> SUFFICES ASSUME <<y, c.edit>> \in seen'.edit[n] PROVE FALSE
      OBVIOUS
    <3>2. CASE n = edits + 1
      <4>1. PICK d \in old : <<y, c.edit>> = <<x, d.edit>>
        BY <1>10, <1>11, <3>2
      <4>2. y = x /\ c.edit = d.edit /\ d.edit <= edits /\ d.edit \in Nat
        BY <1>4, <1>8, <4>1
      <4>3. c.edit # edits + 1
        BY <1>6, <4>2
      <4>4. c \in citation[x] /\ c \notin old
        BY <1>7, <2>1, <4>2, <4>3
      <4> QED BY <1>4, <4>2, <4>4
    <3>3. CASE n # edits + 1
      <4>1. <<y, c.edit>> \in seen.edit[n] /\ n \in 1..edits
        BY <1>6, <1>11, <3>1, <3>3
      <4>2. <<y, c.edit>>[2] = c.edit
        OBVIOUS
      <4>3. c.edit \in Nat /\ c.edit <= edits
        BY <1>12, <3>1, <4>1, <4>2
      <4>4. c \in citation[y]
        BY <1>6, <1>7, <2>1, <4>3
      <4> QED BY <4>1, <4>4, DraftFacts DEF ReplacedIsGone
    <3> QED BY <3>2, <3>3
  <2>2. ASSUME NEW y \in Section \ Made'
        PROVE  citation'[y] = {}
    <3>1. Made' = Made
      BY <1>1 DEF Made
    <3>2. y # x
      BY <1>1, <2>2, <3>1
    <3> QED BY <1>7, <2>2, <3>1, <3>2, DraftFacts DEF ReplacedIsGone
  <2> QED BY <2>1, <2>2 DEF ReplacedIsGone
<1>15. SectionsOrdered'
  BY <1>1, <1>11, DraftFacts DEF SectionsOrdered
<1>16. DraftHalf'
  BY <1>13, <1>14, <1>15 DEF DraftHalf
<1>17. \A y \in Section : \A c \in citation'[y] : c \in citation[y] \/ c.edit > edits
  BY <1>6, <1>7
<1>18. /\ UsedIn(section, gone) \subseteq UsedIn(section', gone')
       /\ \A y \in UsedIn(section, gone) \cap MadeIn(section') :
            y \in MadeIn(section) /\ section'[y] = section[y]
       /\ gone' \subseteq Section /\ section' \in [Section -> 0..Cardinality(Section)]
  BY <1>1, <1>2, DraftFacts
<1>19. draft' \in BOOLEAN /\ (draft => draft')
  BY <1>1, <1>2, Zenon
<1> QED BY <1>1, <1>6, <1>7, <1>11, <1>16, <1>17, <1>18, <1>19, AtRestFacts, DraftSteps

\* A section that goes leaves nothing behind, and its place is not used again.
LEMMA CommitDeleteKeeps ==
  ASSUME StudioInv, NEW s \in Request, CommitDelete(s)
  PROVE  StudioInv'
<1> DEFINE x == request[s].on
           U == UsedIn(section, gone)
           W == UsedIn(section', gone')
<1>1. /\ request[s].at = "deleting"
      /\ section' = [section EXCEPT ![x] = 0] /\ gone' = gone \cup {x}
      /\ citation' = [citation EXCEPT ![x] = {}]
      /\ request' = [request EXCEPT ![s] = AtRest]
      /\ interviewVars' = interviewVars /\ draft' = draft
      /\ edits' = edits /\ seen' = seen
  BY DEF CommitDelete, Goes, IsAt
<1>2. /\ request[s] \in Handler
      /\ seen \in [question : [Question -> SUBSET Question],
                   section : [Section -> SUBSET Section],
                   edit : [1..MaxEdits -> SUBSET (Section \X (1..MaxEdits))]]
      /\ section \in [Section -> 0..Cardinality(Section)]
      /\ citation \in [Section -> SUBSET Citation]
      /\ draft \in BOOLEAN
  BY DraftFacts DEF StudioTypeOK
<1>3. x \in Section
  BY <1>1, <1>2, HandlerFields
<1>4. x \in U
  BY <1>1 DEF StudioInv, HandlersKnow, SoundDraft
<1> HIDE DEF x
<1>5. section'[x] = 0 /\ \A y \in Section : y # x => section'[y] = section[y]
  BY <1>1, <1>2, <1>3
<1>6. MadeIn(section') = MadeIn(section) \ {x} /\ W = U
  <2>1. MadeIn(section') = MadeIn(section) \ {x}
    BY <1>5, DraftFacts DEF MadeIn
  <2> QED BY <1>1, <1>4, <2>1 DEF UsedIn
<1>7. section' \in [Section -> 0..Cardinality(Section)] /\ gone' \subseteq Section
  <2>1. 0 \in 0..Cardinality(Section)
    BY DraftFacts
  <2> QED BY <1>1, <1>2, <1>3, <2>1, DraftFacts
<1>8. /\ citation' \in [Section -> SUBSET Citation]
      /\ citation'[x] = {} /\ \A y \in Section : y # x => citation'[y] = citation[y]
  BY <1>1, <1>2, <1>3
<1>9. \A y \in Section : citation'[y] \subseteq citation[y]
  BY <1>8
<1>10. SectionsOrdered'
  <2>1. \A y \in Section : section'[y] <= Cardinality(W)
    <3>1. Cardinality(U) \in Nat
      BY UsedCount, DraftFacts
    <3> QED BY <1>5, <1>6, <3>1, DraftFacts DEF SectionsOrdered
  <2>2. \A y \in Section : seen'.section[y] \subseteq W
    BY <1>1, <1>6, DraftFacts DEF SectionsOrdered
  <2>3. \A z \in MadeIn(section') : \A y \in seen'.section[z] \cap MadeIn(section') :
          section'[y] < section'[z]
    <3> TAKE z \in MadeIn(section')
    <3> TAKE y \in seen'.section[z] \cap MadeIn(section')
    <3>1. /\ z \in MadeIn(section) /\ y \in MadeIn(section) /\ y \in seen.section[z]
          /\ z # x /\ y # x /\ z \in Section /\ y \in Section
      BY <1>1, <1>6 DEF MadeIn
    <3> QED BY <1>5, <3>1, DraftFacts DEF SectionsOrdered
  <2>4. draft'
    BY <1>1, <1>4, DraftFacts DEF SectionsOrdered
  <2>5. MadeIn(section') \cap gone' = {}
    BY <1>1, <1>6, DraftFacts DEF SectionsOrdered
  <2> QED BY <2>1, <2>2, <2>3, <2>4, <2>5 DEF SectionsOrdered
<1>11. CitationsDated'
  BY <1>1, <1>9, DraftFacts DEF CitationsDated
<1>12. ReplacedIsGone'
  <2>1. \A y \in Section, n \in 1..edits' : \A c \in citation'[y] :
          <<y, c.edit>> \notin seen'.edit[n]
    BY <1>1, <1>9, DraftFacts DEF ReplacedIsGone
  <2>2. ASSUME NEW y \in Section \ Made'
        PROVE  citation'[y] = {}
    <3>1. y = x \/ y \notin Made
      BY <1>5, <2>2 DEF Made
    <3> QED BY <1>8, <1>9, <2>2, <3>1, DraftFacts DEF ReplacedIsGone
  <2> QED BY <2>1, <2>2 DEF ReplacedIsGone
<1>13. DraftHalf'
  BY <1>10, <1>11, <1>12 DEF DraftHalf
<1>14. \A y \in Section : \A c \in citation'[y] : c \in citation[y] \/ c.edit > edits
  BY <1>9
<1>15. \A y \in U \cap MadeIn(section') : y \in MadeIn(section) /\ section'[y] = section[y]
  BY <1>5, <1>6 DEF MadeIn
<1>16. /\ U \subseteq W /\ edits' \in 0..MaxEdits /\ edits <= edits'
       /\ seen'.question = seen.question
  BY <1>1, <1>6, DraftFacts
<1>17. draft' \in BOOLEAN /\ (draft => draft')
  BY <1>1, <1>2, Zenon
<1> HIDE DEF U, W
<1>18. /\ UsedIn(section, gone) \subseteq UsedIn(section', gone')
       /\ \A y \in UsedIn(section, gone) \cap MadeIn(section') :
            y \in MadeIn(section) /\ section'[y] = section[y]
  BY <1>15, <1>16 DEF U, W
<1> QED BY <1>1, <1>2, <1>7, <1>8, <1>13, <1>14, <1>16, <1>17, <1>18, AtRestFacts, DraftSteps

-----------------------------------------------------------------------------
LEMMA StudioKeeps == StudioInv /\ [StudioNext]_studioVars => StudioInv'
<1> SUFFICES ASSUME StudioInv, [StudioNext]_studioVars PROVE StudioInv'
  OBVIOUS
<1>1. CASE UNCHANGED studioVars
  <2>1. /\ interview' = interview /\ question' = question /\ sources' = sources
        /\ section' = section /\ gone' = gone /\ citation' = citation
        /\ edits' = edits /\ draft' = draft /\ seen' = seen /\ request' = request
    BY <1>1 DEF studioVars, interviewVars, draftVars
  <2>2. StudioTypeOK' /\ HandlersKnow'
    BY <2>1 DEF StudioInv, StudioTypeOK, HandlersKnow
  <2>3. InterviewHalf'
    BY <2>1 DEF StudioInv, InterviewHalf, QuestionsOrdered, TranscriptsAsked, MarksTold
  <2>4. DraftHalf'
    BY <2>1 DEF StudioInv, DraftHalf, SectionsOrdered, CitationsDated, ReplacedIsGone, Made
  <2> QED BY <2>2, <2>3, <2>4 DEF StudioInv
<1>2. CASE StudioNext
  <2>1. PICK s \in Request : Interviews(s) \/ Drafts(s) \/ Dies(s)
    BY <1>2 DEF StudioNext
  <2>2. CASE Interviews(s)
    BY <2>2, CreateInterviewKeeps, ReadOrdinalKeeps, InsertQuestionKeeps,
       CommitResponseKeeps, ReadAnswersKeeps, CommitSourceKeeps, MarkCompletedKeeps,
       LookupsKeep DEF Interviews
  <2>3. CASE Drafts(s)
    BY <2>3, CreateDraftKeeps, LoadDraftKeeps, LoadSectionKeeps, AssembleKeeps,
       InsertSectionKeeps, CommitCitationsKeeps, CommitDeleteKeeps, LookupsKeep DEF Drafts
  <2>4. CASE Dies(s)
    BY <2>4, LookupsKeep
  <2> QED BY <2>1, <2>2, <2>3, <2>4
<1> QED BY <1>1, <1>2

LEMMA StudioInvariance == StudioSpec => []StudioInv
<1>1. StudioInit => StudioInv
  BY StudioStarts
<1>2. StudioInv /\ [StudioNext]_studioVars => StudioInv'
  BY StudioKeeps
<1> QED BY <1>1, <1>2, PTL DEF StudioSpec

-----------------------------------------------------------------------------
\* The rows of interviews and drafts keep their types, and no ordinal is higher
\* than there have been rows to number, whatever requests overlap
\* (studio_api.py:207-226, 478-526).
THEOREM StudioTypeCorrect == StudioSpec => []StudioTypeOK
<1>1. StudioInv => StudioTypeOK
  BY DEF StudioInv
<1> QED BY <1>1, StudioInvariance, PTL

\* What an interview says of itself is true for any number of completions that
\* overlap or die between their two commits (studio_api.py:251-337).
THEOREM InterviewsTellTruth == StudioSpec => []InterviewTold
<1>1. StudioInv => InterviewTold
  <2> SUFFICES ASSUME StudioInv PROVE InterviewTold
    OBVIOUS
  <2>1. MarksTold /\ TranscriptsAsked /\ Asked = AskedIn(question)
    BY InterviewFacts
  <2>2. ASSUME interview.status = "completed"
        PROVE  Counts.extracted_count >= Cardinality(DOMAIN sources[interview.source])
    <3> DEFINE D == DOMAIN sources[interview.source]
               E == {q \in Asked : question[q].extracted}
    <3>1. interview.source \in 1..Len(sources) /\ \A q \in D : question[q].extracted
      BY <2>1, <2>2 DEF MarksTold
    <3>2. D \subseteq Asked
      BY <2>1, <3>1 DEF TranscriptsAsked
    <3>3. D \subseteq E /\ E \subseteq Question
      BY <3>1, <3>2 DEF Asked
    <3>4. IsFiniteSet(E) /\ Cardinality(E) \in Nat
      BY <3>3, StudioAssumption, FS_Subset, FS_CardinalityType
    <3>5. Counts.extracted_count = Cardinality(E)
      BY DEF Counts
    <3> HIDE DEF D, E
    <3>6. Cardinality(D) <= Cardinality(E) /\ Cardinality(D) \in Nat
      BY <3>3, <3>4, FS_Subset, FS_CardinalityType
    <3>7. Cardinality(E) >= Cardinality(D)
      BY <3>4, <3>6
    <3> QED BY <3>5, <3>7 DEF D
  <2> QED BY <2>1, <2>2 DEF InterviewTold, MarksTold
<1> QED BY <1>1, StudioInvariance, PTL

\* A row comes after every row its maker had seen, and the citations that an
\* update or a deletion has read are gone (studio_api.py:485-603).
THEOREM OverlapsOnly == StudioSpec => []SeenRespected
<1>1. StudioInv => SeenRespected
  <2> SUFFICES ASSUME StudioInv PROVE SeenRespected
    OBVIOUS
  <2>1. /\ QuestionsOrdered /\ SectionsOrdered /\ ReplacedIsGone
        /\ Asked = AskedIn(question) /\ Made = MadeIn(section)
    BY InterviewFacts, DraftFacts
  <2>2. OrderKept
    BY <2>1 DEF OrderKept, QuestionsOrdered, SectionsOrdered, ListedBefore
  <2> QED BY <2>1, <2>2 DEF SeenRespected
<1> QED BY <1>1, StudioInvariance, PTL

-----------------------------------------------------------------------------
\* A completed interview and what its questions are marked.
Same ==
  /\ UNCHANGED <<interview, sources>>
  /\ \A q \in Question : question'[q].extracted = question[q].extracted

\* A request starts none of the steps of a completion.
NoneBegins == \A s \in Request : request'[s].at \in Completing => request[s].at \in Completing

LEMMA ConcludedSteps ==
  ASSUME StudioTypeOK, Concluded, StudioNext
  PROVE  Same /\ NoneBegins
<1>1. interview.status = "completed" /\ \A s \in Request : request[s].at \notin Completing
  BY DEF Concluded
<1>2. request \in [Request -> Handler]
  BY DEF StudioTypeOK
<1>3. ASSUME NEW s \in Request, NEW r, Goes(s, r), r.at \notin Completing
      PROVE  NoneBegins
  BY <1>2, <1>3 DEF Goes, NoneBegins
<1>4. ASSUME UNCHANGED request PROVE NoneBegins
  BY <1>4 DEF NoneBegins
<1>5. AtRest.at \notin Completing
  BY DEF AtRest, Completing
<1>6. ASSUME UNCHANGED interviewVars PROVE Same
  BY <1>6 DEF Same, interviewVars
<1>7. PICK s \in Request : Interviews(s) \/ Drafts(s) \/ Dies(s)
  BY DEF StudioNext
<1>8. CASE Interviews(s)
  <2>1. CASE CreateInterview(s)
    BY <1>1, <2>1 DEF CreateInterview
  <2>2. CASE \E purpose \in {"numbering", "reading"} : LoadOpen(s, purpose)
    BY <1>1, <2>2 DEF LoadOpen
  <2>3. CASE ReadOrdinal(s)
    <3>1. UNCHANGED interviewVars
      BY <2>3 DEF ReadOrdinal
    <3>2. PICK r : Goes(s, r) /\ r.at = "asking"
      BY <2>3 DEF ReadOrdinal
    <3> QED BY <1>3, <1>6, <3>1, <3>2 DEF Completing
  <2>4. CASE \E q \in Question : InsertQuestion(s, q)
    <3>1. PICK q \in Question : InsertQuestion(s, q)
      BY <2>4
    <3>2. Same
      BY <3>1 DEF InsertQuestion, Same, StudioTypeOK
    <3> QED BY <1>3, <1>5, <3>1, <3>2 DEF InsertQuestion
  <2>5. CASE \E q \in Question, answer \in Response : LoadForResponse(s, q, answer)
    <3>1. PICK q \in Question, answer \in Response : LoadForResponse(s, q, answer)
      BY <2>5
    <3>2. PICK r : Goes(s, r) /\ r.at = "answering"
      BY <3>1 DEF LoadForResponse
    <3>3. UNCHANGED interviewVars
      BY <3>1 DEF LoadForResponse
    <3> QED BY <1>3, <1>6, <3>2, <3>3 DEF Completing
  <2>6. CASE CommitResponse(s)
    <3>1. Same
      BY <2>6 DEF CommitResponse, Same, StudioTypeOK
    <3> QED BY <1>3, <1>5, <2>6, <3>1 DEF CommitResponse
  <2>7. CASE ReadAnswers(s) \/ NothingToExtract(s) \/ CommitSource(s) \/ MarkCompleted(s)
    BY <1>1, <2>7 DEF ReadAnswers, NothingToExtract, CommitSource, MarkCompleted, IsAt, Completing
  <2> QED BY <1>8, <2>1, <2>2, <2>3, <2>4, <2>5, <2>6, <2>7 DEF Interviews
<1>9. CASE Drafts(s)
  <2>1. UNCHANGED interviewVars
    BY <1>9 DEF Drafts, CreateDraft, LoadDraft, Assemble, CommitCitations, InsertSection,
                LoadSection, CommitDelete, Refused
  <2>2. \/ UNCHANGED request
        \/ \E r : Goes(s, r) /\ r.at \notin Completing
    <3>1. CASE CreateDraft(s) \/ \E K \in SUBSET Item : Assemble(s, K)
      BY <3>1 DEF CreateDraft, Assemble
    <3>2. CASE LoadDraft(s)
      <4>1. PICK r : Goes(s, r) /\ r.at = "placing"
        BY <3>2 DEF LoadDraft
      <4> QED BY <4>1 DEF Completing
    <3>3. CASE \E x \in Section, purpose \in {"citing", "deleting"} : LoadSection(s, x, purpose)
      <4>1. PICK r : Goes(s, r) /\ r.at \in {"citing", "deleting"}
        BY <3>3 DEF LoadSection
      <4> QED BY <4>1 DEF Completing
    <3>4. CASE \/ \E K \in SUBSET Item : \/ CommitCitations(s, K)
                                         \/ \E x \in Section : InsertSection(s, x, K)
               \/ CommitDelete(s) \/ Refused(s)
      BY <1>5, <3>4 DEF CommitCitations, InsertSection, CommitDelete, Refused
    <3> QED BY <1>9, <3>1, <3>2, <3>3, <3>4 DEF Drafts
  <2> QED BY <1>3, <1>4, <1>6, <2>1, <2>2
<1>10. CASE Dies(s)
  BY <1>3, <1>5, <1>6, <1>10 DEF Dies
<1> QED BY <1>7, <1>8, <1>9, <1>10

\* A completed interview that no request is completing is never captured again
\* and goes on naming the source it names: the test of its status, made when a
\* request loads it, is enough (studio_api.py:251-337).
THEOREM CompletedStays == StudioSpec => CompletedIsFinal
<1>1. StudioInv /\ [StudioNext]_studioVars =>
        [Concluded => /\ Concluded'
                      /\ UNCHANGED <<interview, sources>>
                      /\ \A q \in Question :
                           question'[q].extracted = question[q].extracted]_studioVars
  <2> SUFFICES ASSUME StudioInv, StudioNext, Concluded
               PROVE  /\ Concluded'
                      /\ UNCHANGED <<interview, sources>>
                      /\ \A q \in Question :
                           question'[q].extracted = question[q].extracted
    OBVIOUS
  <2>1. Same /\ NoneBegins
    BY ConcludedSteps DEF StudioInv
  <2>2. Concluded'
    BY <2>1 DEF Same, NoneBegins, Concluded
  <2> QED BY <2>1, <2>2 DEF Same
<1> QED BY <1>1, StudioInvariance, PTL DEF StudioSpec, CompletedIsFinal
=============================================================================
