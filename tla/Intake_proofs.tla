---------------------------- MODULE Intake_proofs ----------------------------
(***************************************************************************)
(* Triage for every event, every reply and every policy an administrator   *)
(* can set.  The invariants speak of a decision and of the policy it was   *)
(* made under, so all the induction has to carry is that the decision in   *)
(* flight is the one triage makes (Faithful) and that a row is not merged  *)
(* into nothing (RowsStay); the rest are facts about the rules, proved in  *)
(* the order in which they amend a decision.                               *)
(***************************************************************************)
EXTENDS Intake, Integers, TLAPS

Faithful ==
  event # Idle => event.decision = Decide(event.event, event.under)

\* A row that a request has loaded is still there: rows are never deleted.
RowsStay ==
  \A w \in Writer :
    writer[w] # Idle /\ writer[w].seen # NoRow => policy[writer[w].channel] # NoRow

IInv == TypeOK /\ Faithful /\ RowsStay

-----------------------------------------------------------------------------
(* The rules of triage.                                                    *)

\* Where a decision starts: the reply's own action, or none.
LEMMA OpinionFacts ==
  ASSUME NEW e \in Event
  PROVE  /\ Opinion(e) \in Decision
         /\ e.reply = NoReply => /\ Opinion(e).action = IF Addressed(e) THEN "investigate" ELSE "pass"
                                 /\ Opinion(e).rules = {"fallback"}
         /\ e.reply # NoReply => /\ Opinion(e).action = e.reply.action
                                 /\ Opinion(e).rules = {"grammar"}
BY DEF Opinion, Event, Reply, NoReply, Decision, Percent, Unstated, Action, Rule, Addressed

\* An amended decision is the old one with another action and one more rule.
LEMMA AmendedFacts ==
  ASSUME NEW d \in Decision, NEW a \in Action, NEW r \in Rule
  PROVE  /\ Amended(d, a, r) \in Decision
         /\ Amended(d, a, r).action = a
         /\ Amended(d, a, r).confidence = d.confidence
         /\ Amended(d, a, r).rules = d.rules \cup {r}
BY DEF Amended, Decision

\* The floor: an addressed message is looked into, another one is passed on.
LEMMA FlooredFacts ==
  ASSUME NEW e \in Event, NEW p \in Policy, NEW d \in Decision
  PROVE  LET n == Floored(e, p, d)
         IN /\ n \in Decision
            /\ n.confidence = d.confidence
            /\ d.confidence < p.floor =>
                 /\ n.action = IF Addressed(e) THEN "investigate" ELSE "pass"
                 /\ n.rules = d.rules \cup {"floor"}
            /\ ~(d.confidence < p.floor) => n = d
BY AmendedFacts DEF Floored, Action, Rule

\* Being named and asked outranks a pass.
LEMMA AffirmedFacts ==
  ASSUME NEW e \in Event, NEW d \in Decision
  PROVE  LET n == Affirmed(e, d)
             outranked == d.action = "pass" /\ Addressed(e) /\ e.asked
         IN /\ n \in Decision
            /\ n.confidence = d.confidence
            /\ outranked => n.action = "investigate" /\ n.rules = d.rules \cup {"affirmative"}
            /\ ~outranked => n = d
BY AmendedFacts DEF Affirmed, Action, Rule

\* An answer without the evidence for it becomes an investigation.
LEMMA BackedFacts ==
  ASSUME NEW e \in Event, NEW p \in Policy, NEW d \in Decision
  PROVE  LET n == Backed(e, p, d)
             short == d.action = "answer" /\ e.evidence < p.threshold
         IN /\ n \in Decision
            /\ n.confidence = d.confidence
            /\ short => n.action = "investigate" /\ n.rules = d.rules \cup {"evidence"}
            /\ ~short => n = d
BY AmendedFacts DEF Backed, Action, Rule

\* Where investigating is not allowed, it becomes a pass.
LEMMA PermittedFacts ==
  ASSUME NEW p \in Policy, NEW d \in Decision
  PROVE  LET n == Permitted(p, d)
             barred == d.action = "investigate" /\ ~p.allow
         IN /\ n \in Decision
            /\ n.confidence = d.confidence
            /\ barred => n.action = "pass" /\ n.rules = d.rules \cup {"disabled"}
            /\ ~barred => n = d
BY AmendedFacts DEF Permitted, Action, Rule

\* The four rules one after the other, before the channel's mode is asked.
LEMMA ConsideredFacts ==
  ASSUME NEW e \in Event, NEW p \in Policy
  PROVE  LET d == Considered(e, p)
             o == Opinion(e)
         IN /\ d \in Decision
            /\ d.confidence = o.confidence
            /\ d.action = "answer" =>
                 /\ e.reply.action = "answer"
                 /\ ~(o.confidence < p.floor)
                 /\ ~(e.evidence < p.threshold)
            /\ d.action = "pass" /\ Addressed(e) /\ p.allow =>
                 /\ ~e.asked
                 /\ e.reply.action = "pass"
                 /\ ~(o.confidence < p.floor)
            /\ d.action = "investigate" => p.allow
            /\ "floor" \in d.rules <=> o.confidence < p.floor
            /\ "evidence" \in d.rules => e.evidence < p.threshold
            /\ "disabled" \in d.rules => ~p.allow /\ d.action = "pass"
            /\ e.reply.action = "answer" /\ d.action # "answer" =>
                 d.rules \cap {"floor", "evidence", "disabled"} # {}
            /\ e.reply.action = "investigate" /\ d.action = "pass" =>
                 d.rules \cap {"floor", "evidence", "disabled"} # {}
            /\ ~Addressed(e) /\ e.reply.action \notin {"answer", "investigate"} =>
                 d.action = "pass"
            /\ ~Addressed(e) /\ e.reply.action = "investigate" => d.action # "answer"
            /\ ~Addressed(e) =>
                 LET backed == e.reply.action = "answer" /\ ~(e.evidence < p.threshold)
                 IN /\ d.action = "answer" <=> backed /\ ~(o.confidence < p.floor)
                    /\ d.action # "pass" <=>
                         /\ e.reply.action \in {"answer", "investigate"}
                         /\ ~(o.confidence < p.floor)
                         /\ p.allow \/ backed
<1> DEFINE o == Opinion(e)
           f == Floored(e, p, o)
           a == Affirmed(e, f)
           b == Backed(e, p, a)
           d == Permitted(p, b)
<1>0. d = Considered(e, p)
  BY DEF Considered
<1>1. /\ o \in Decision
      /\ e.reply = NoReply => /\ o.action = IF Addressed(e) THEN "investigate" ELSE "pass"
                              /\ o.rules = {"fallback"}
      /\ e.reply # NoReply => o.action = e.reply.action /\ o.rules = {"grammar"}
  BY OpinionFacts
<1> HIDE DEF o
<1>2. /\ f \in Decision
      /\ f.confidence = o.confidence
      /\ o.confidence < p.floor =>
           /\ f.action = IF Addressed(e) THEN "investigate" ELSE "pass"
           /\ f.rules = o.rules \cup {"floor"}
      /\ ~(o.confidence < p.floor) => f = o
  BY <1>1, FlooredFacts
<1> HIDE DEF f
<1>3. /\ a \in Decision
      /\ a.confidence = f.confidence
      /\ f.action = "pass" /\ Addressed(e) /\ e.asked =>
           a.action = "investigate" /\ a.rules = f.rules \cup {"affirmative"}
      /\ ~(f.action = "pass" /\ Addressed(e) /\ e.asked) => a = f
  BY <1>2, AffirmedFacts
<1> HIDE DEF a
<1>4. /\ b \in Decision
      /\ b.confidence = a.confidence
      /\ a.action = "answer" /\ e.evidence < p.threshold =>
           b.action = "investigate" /\ b.rules = a.rules \cup {"evidence"}
      /\ ~(a.action = "answer" /\ e.evidence < p.threshold) => b = a
  BY <1>3, BackedFacts
<1> HIDE DEF b
<1>5. /\ d \in Decision
      /\ d.confidence = b.confidence
      /\ b.action = "investigate" /\ ~p.allow =>
           d.action = "pass" /\ d.rules = b.rules \cup {"disabled"}
      /\ ~(b.action = "investigate" /\ ~p.allow) => d = b
  BY <1>4, PermittedFacts
<1> HIDE DEF d
<1>6. e.reply = NoReply => e.reply.action = "none"
  BY DEF NoReply
<1>7. d.action = "answer" => e.reply.action = "answer" /\ ~(o.confidence < p.floor)
                             /\ ~(e.evidence < p.threshold)
  BY <1>1, <1>2, <1>3, <1>4, <1>5
<1>8. d.action = "pass" /\ Addressed(e) /\ p.allow =>
        ~e.asked /\ e.reply.action = "pass" /\ ~(o.confidence < p.floor)
  BY <1>1, <1>2, <1>3, <1>4, <1>5
<1>9. d.action = "investigate" => p.allow
  BY <1>5
<1>10. /\ "floor" \in d.rules <=> o.confidence < p.floor
       /\ "evidence" \in d.rules => e.evidence < p.threshold
       /\ "disabled" \in d.rules => ~p.allow /\ d.action = "pass"
  BY <1>1, <1>2, <1>3, <1>4, <1>5
<1>11. e.reply.action = "answer" /\ d.action # "answer" =>
         "floor" \in d.rules \/ "evidence" \in d.rules \/ "disabled" \in d.rules
  BY <1>1, <1>2, <1>3, <1>4, <1>5, <1>6
<1>12. e.reply.action = "investigate" /\ d.action = "pass" =>
         "floor" \in d.rules \/ "evidence" \in d.rules \/ "disabled" \in d.rules
  BY <1>1, <1>2, <1>3, <1>4, <1>5, <1>6
<1>13. ~Addressed(e) /\ e.reply.action \notin {"answer", "investigate"} => d.action = "pass"
  BY <1>1, <1>2, <1>3, <1>4, <1>5, <1>6 DEF Decision, Action, Event, Reply
<1>14. ~Addressed(e) /\ e.reply.action = "investigate" => d.action # "answer"
  BY <1>7
<1>15. d.confidence = o.confidence
  BY <1>2, <1>3, <1>4, <1>5
<1>16. ~Addressed(e) =>
         LET backed == e.reply.action = "answer" /\ ~(e.evidence < p.threshold)
         IN /\ d.action = "answer" <=> backed /\ ~(o.confidence < p.floor)
            /\ d.action # "pass" <=>
                 /\ e.reply.action \in {"answer", "investigate"}
                 /\ ~(o.confidence < p.floor)
                 /\ p.allow \/ backed
  BY <1>1, <1>2, <1>3, <1>4, <1>5, <1>6 DEF Decision, Action, Event, Reply
<1> QED BY <1>0, <1>5, <1>7, <1>8, <1>9, <1>10, <1>11, <1>12, <1>13, <1>14, <1>15, <1>16 DEF o

-----------------------------------------------------------------------------
(* The decision.                                                           *)

LEMMA DecideType ==
  ASSUME NEW e \in Event, NEW p \in Policy
  PROVE  Decide(e, p) \in Decision
BY ConsideredFacts DEF Decide, Decision, Action, Percent, Rule

LEMMA DecideFacts ==
  ASSUME NEW e \in Event, NEW p \in Policy
  PROVE  LET d == Decide(e, p)
         IN /\ ~Reacts(p, e) => d.action = "pass" /\ d.rules = {"policy"}
            /\ d.action = "answer" =>
                 /\ e.reply.action = "answer"
                 /\ d.confidence >= p.floor
                 /\ e.evidence >= p.threshold
            /\ Addressed(e) /\ Reacts(p, e) /\ p.allow /\ d.action = "pass" =>
                 /\ ~e.asked
                 /\ e.reply.action = "pass"
                 /\ d.confidence >= p.floor
            /\ "disabled" \in d.rules => ~p.allow /\ d.action = "pass"
            /\ "evidence" \in d.rules => e.evidence < p.threshold
            /\ "floor" \in d.rules => d.confidence < p.floor
<1> DEFINE d == Considered(e, p)
<1>1. p.floor \in Int /\ p.threshold \in Int /\ e.evidence \in Int
  BY DEF Policy, Event, Percent
<1>2. Opinion(e).confidence \in Int
  BY OpinionFacts DEF Decision, Percent
<1>3. CASE Reacts(p, e)
  <2>1. Decide(e, p) = d
    BY <1>3 DEF Decide
  <2>2. /\ d.confidence = Opinion(e).confidence
        /\ d.action = "answer" =>
             /\ e.reply.action = "answer"
             /\ ~(Opinion(e).confidence < p.floor)
             /\ ~(e.evidence < p.threshold)
        /\ d.action = "pass" /\ Addressed(e) /\ p.allow =>
             /\ ~e.asked
             /\ e.reply.action = "pass"
             /\ ~(Opinion(e).confidence < p.floor)
        /\ "floor" \in d.rules => Opinion(e).confidence < p.floor
        /\ "evidence" \in d.rules => e.evidence < p.threshold
        /\ "disabled" \in d.rules => ~p.allow /\ d.action = "pass"
    BY ConsideredFacts
  <2> HIDE DEF d
  <2> QED BY <1>1, <1>2, <1>3, <2>1, <2>2
<1>4. CASE ~Reacts(p, e)
  BY <1>4 DEF Decide
<1> QED BY <1>3, <1>4

\* When less is done than the reply chose, a rule that lowers an action is named.
LEMMA DecideExplains ==
  ASSUME NEW e \in Event, NEW p \in Policy,
         Rank(Decide(e, p).action) < Rank(e.reply.action)
  PROVE  Decide(e, p).rules \cap {"policy", "floor", "evidence", "disabled"} # {}
<1> DEFINE d == Considered(e, p)
<1>1. CASE ~Reacts(p, e)
  BY <1>1 DEF Decide
<1>2. CASE Reacts(p, e)
  <2>1. Decide(e, p) = d
    BY <1>2 DEF Decide
  <2>2. /\ d \in Decision
        /\ e.reply.action = "answer" /\ d.action # "answer" =>
             d.rules \cap {"floor", "evidence", "disabled"} # {}
        /\ e.reply.action = "investigate" /\ d.action = "pass" =>
             d.rules \cap {"floor", "evidence", "disabled"} # {}
    BY ConsideredFacts
  <2> HIDE DEF d
  <2>3. Rank(d.action) < Rank(e.reply.action)
    BY <2>1
  <2>4. \/ e.reply.action = "answer" /\ d.action # "answer"
        \/ e.reply.action = "investigate" /\ d.action = "pass"
    BY <2>2, <2>3 DEF Rank, Decision, Action
  <2>5. d.rules \cap {"floor", "evidence", "disabled"} # {}
    BY <2>2, <2>4
  <2> QED BY <2>1, <2>5
<1> QED BY <1>1, <1>2

\* An event nobody addressed to the Brain gets no more than its reply chose.
LEMMA DecidePassive ==
  ASSUME NEW e \in Event, NEW p \in Policy, ~Addressed(e)
  PROVE  Rank(Decide(e, p).action) <= Rank(e.reply.action)
<1> DEFINE d == Considered(e, p)
<1>1. /\ d \in Decision
      /\ d.action = "answer" => e.reply.action = "answer"
      /\ d.action # "pass" => e.reply.action \in {"answer", "investigate"}
  BY ConsideredFacts
<1> HIDE DEF d
<1>2. Decide(e, p).action = d.action \/ Decide(e, p).action = "pass"
  BY DEF Decide, d
<1> QED BY <1>1, <1>2 DEF Rank, Decision, Action

\* Nor does it get more under a stricter policy.
LEMMA DecideMonotone ==
  ASSUME NEW e \in Event, NEW p \in Policy, NEW q \in Policy,
         ~Addressed(e), Stricter(q, p)
  PROVE  Rank(Decide(e, q).action) <= Rank(Decide(e, p).action)
<1> DEFINE o == Opinion(e)
           dp == Considered(e, p)
           dq == Considered(e, q)
           backed(r) == e.reply.action = "answer" /\ ~(e.evidence < r.threshold)
<1>1. /\ e.evidence \in Int /\ o.confidence \in Int
      /\ p.floor \in Int /\ q.floor \in Int /\ p.threshold \in Int /\ q.threshold \in Int
  BY OpinionFacts DEF Event, Policy, Decision, Percent
<1>2. /\ dp \in Decision
      /\ dp.action = "answer" <=> backed(p) /\ ~(o.confidence < p.floor)
      /\ dp.action # "pass" <=> /\ e.reply.action \in {"answer", "investigate"}
                                /\ ~(o.confidence < p.floor)
                                /\ p.allow \/ backed(p)
  BY ConsideredFacts
<1>3. /\ dq \in Decision
      /\ dq.action = "answer" <=> backed(q) /\ ~(o.confidence < q.floor)
      /\ dq.action # "pass" <=> /\ e.reply.action \in {"answer", "investigate"}
                                /\ ~(o.confidence < q.floor)
                                /\ q.allow \/ backed(q)
  BY ConsideredFacts
<1>4. /\ backed(q) => backed(p)
      /\ ~(o.confidence < q.floor) => ~(o.confidence < p.floor)
      /\ q.allow => p.allow
      /\ Reacts(q, e) => Reacts(p, e)
  BY <1>1 DEF Stricter, Reacts
<1>5. /\ Reacts(p, e) => Decide(e, p).action = dp.action
      /\ Reacts(q, e) => Decide(e, q).action = dq.action
      /\ ~Reacts(q, e) => Decide(e, q).action = "pass"
  BY DEF Decide
<1> HIDE DEF o, dp, dq, backed
<1>6. CASE ~Reacts(q, e)
  BY <1>5, <1>6, DecideType DEF Rank, Decision, Action
<1>7. CASE Reacts(q, e)
  <2>1. dq.action = "answer" => dp.action = "answer"
    BY <1>2, <1>3, <1>4
  <2>2. dq.action # "pass" => dp.action # "pass"
    BY <1>2, <1>3, <1>4
  <2>3. Rank(dq.action) <= Rank(dp.action)
    BY <1>2, <1>3, <2>1, <2>2 DEF Rank, Decision, Action
  <2> QED BY <1>4, <1>5, <1>7, <2>3
<1> QED BY <1>6, <1>7

-----------------------------------------------------------------------------
(* The invariant.                                                          *)

LEMMA PolicyForType ==
  ASSUME TypeOK, NEW c \in Channel
  PROVE  PolicyFor(c) \in Policy
BY DEF TypeOK, PolicyFor, Policy, DefaultPolicy, Percent, Mode

LEMMA PayloadType ==
  ASSUME NEW put \in Puts
  PROVE  Payload(put) \in Policy
<1>1. Setting(put, "mode") \in Mode
  BY IntakeAssumption DEF Setting, DefaultPolicy, Mode
<1>2. Setting(put, "floor") \in Percent
  BY IntakeAssumption DEF Setting, DefaultPolicy, Percent
<1>3. Setting(put, "threshold") \in Percent
  BY IntakeAssumption DEF Setting, DefaultPolicy, Percent
<1>4. Setting(put, "allow") \in BOOLEAN
  BY IntakeAssumption DEF Setting, DefaultPolicy
<1> QED BY <1>1, <1>2, <1>3, <1>4 DEF Payload, Policy

LEMMA RowDiffers == NoRow \notin Policy
<1>1. \A p \in Policy : p.mode # "unset"
  BY DEF Policy, Mode
<1> QED BY <1>1 DEF NoRow

LEMMA InitIInv == Init => IInv
BY IntakeAssumption DEF Init, IInv, TypeOK, Faithful, RowsStay

LEMMA StepIInv == IInv /\ [Next]_vars => IInv'
<1> SUFFICES ASSUME IInv, [Next]_vars PROVE IInv'
  OBVIOUS
<1> USE IntakeAssumption DEF IInv
<1>1. ASSUME NEW w \in Writer, NEW c \in Channel, NEW put \in Puts, LoadPolicy(w, c, put)
      PROVE  IInv'
  <2>1. Payload(put) \in Policy
    BY PayloadType
  <2>2. DOMAIN put \in SUBSET Field
    OBVIOUS
  <2>3. policy[c] \in Policy \cup {NoRow}
    BY DEF TypeOK
  <2>4. puts' \in 0..MaxPuts
    BY <1>1 DEF LoadPolicy, TypeOK
  <2>5. [at |-> "loaded", channel |-> c, payload |-> Payload(put),
         seen |-> policy[c]]
        \in [at : {"loaded"}, channel : Channel, payload : Policy,
             seen : Policy \cup {NoRow}]
    BY <2>1, <2>2, <2>3
  <2> QED BY <1>1, <2>4, <2>5 DEF LoadPolicy, TypeOK, Faithful, RowsStay
<1>2. ASSUME NEW w \in Writer, SetPolicy(w) PROVE IInv'
  <2> DEFINE q == writer[w]
  <2>1. /\ q.channel \in Channel /\ q.payload \in Policy
        /\ q.seen \in Policy \cup {NoRow} /\ policy[q.channel] \in Policy \cup {NoRow}
    BY <1>2 DEF SetPolicy, TypeOK
  <2>2. ASSUME q.seen # NoRow
        PROVE  Written(q.seen, q.payload, policy[q.channel]) \in Policy
    <3>1. q.seen \in Policy /\ policy[q.channel] \in Policy
      BY <1>2, <2>1, <2>2 DEF SetPolicy, RowsStay
    <3> HIDE DEF q
    <3> QED BY <2>1, <3>1 DEF Written, Policy
  <2> DEFINE new == IF q.seen = NoRow THEN q.payload
                    ELSE Written(q.seen, q.payload, policy[q.channel])
  <2>3. new \in Policy
    BY <2>1, <2>2
  <2>4. /\ policy' = [policy EXCEPT ![q.channel] = new]
        /\ writer' = [writer EXCEPT ![w] = Idle]
        /\ UNCHANGED <<event, newest, puts>>
    BY <1>2 DEF SetPolicy
  <2> HIDE DEF q, new
  <2>5. TypeOK'
    BY <2>1, <2>3, <2>4 DEF TypeOK
  <2>6. RowsStay'
    BY <2>1, <2>3, <2>4, RowDiffers DEF TypeOK, RowsStay
  <2>7. Faithful'
    BY <2>4 DEF Faithful
  <2> QED BY <2>5, <2>6, <2>7
<1>3. ASSUME NEW w \in Writer, SettingClashes(w) PROVE IInv'
  BY <1>3 DEF SettingClashes, TypeOK, Faithful, RowsStay
<1>4. ASSUME NEW c \in Channel, NEW m \in Message, NEW reply \in Replies,
             NEW evidence \in Evidence, ReceiveEvent(c, m, reply, evidence)
      PROVE  IInv'
  <2> DEFINE e == [kind |-> Classify(m, c \in DM), asked |-> m.asked, reply |-> reply,
                   evidence |-> evidence]
  <2>1. Classify(m, c \in DM) \in EventKind
    BY DEF Classify, EventKind
  <2>2. e \in Event
    BY <2>1 DEF Event, Message
  <2>3. PolicyFor(c) \in Policy
    BY PolicyForType
  <2>4. Decide(e, PolicyFor(c)) \in Decision
    BY <2>2, <2>3, DecideType
  <2>5. event' = [at |-> "decided", channel |-> c, event |-> e, under |-> PolicyFor(c),
                  decision |-> Decide(e, PolicyFor(c))]
    BY <1>4 DEF ReceiveEvent
  <2> HIDE DEF e
  <2>6. event' \in [at : {"decided"}, channel : Channel, event : Event, under : Policy,
                    decision : Decision]
    BY <2>2, <2>3, <2>4, <2>5
  <2>7. Faithful'
    BY <2>5 DEF Faithful
  <2> QED BY <1>4, <2>6, <2>7 DEF ReceiveEvent, TypeOK, RowsStay
<1>5. ASSUME CommitEvent PROVE IInv'
  <2>1. event.event.kind \in EventKind /\ event.decision.action \in Action
    BY <1>5 DEF CommitEvent, TypeOK, Event, Decision
  <2> QED BY <1>5, <2>1 DEF CommitEvent, TypeOK, Faithful, RowsStay
<1>6. CASE UNCHANGED vars
  BY <1>6 DEF vars, TypeOK, Faithful, RowsStay
<1> QED BY <1>1, <1>2, <1>3, <1>4, <1>5, <1>6 DEF Next

LEMMA Inductive == Spec => []IInv
BY InitIInv, StepIInv, PTL DEF Spec

\* The decision in flight is that of an event of the right type, under a policy
\* of the right type.
LEMMA InFlight ==
  ASSUME IInv, event # Idle
  PROVE  /\ event.channel \in Channel /\ event.event \in Event /\ event.under \in Policy
         /\ event.decision = Decide(event.event, event.under)
BY DEF IInv, TypeOK, Faithful

-----------------------------------------------------------------------------
(* The theorems.                                                           *)

\* Policy rows, requests, decisions and turns keep their types, whatever fields
\* an administrator's request leaves out and however requests overlap.
THEOREM IntakeTypeCorrect == Spec => []TypeOK
<1>1. IInv => TypeOK
  BY DEF IInv
<1> QED BY <1>1, Inductive, PTL

\* A channel that does not react to an event never acts on it, and nobody gets
\* the Brain to do more, unaddressed, than the reply chose - for every policy and
\* every reply.
THEOREM Silence == Spec => []SilenceIsKept
<1>1. IInv => QuietNeverActs
  BY InFlight, DecideFacts DEF QuietNeverActs
<1>2. IInv => PassiveGetsNoMore
  BY InFlight, DecidePassive DEF PassiveGetsNoMore
<1>3. IInv => SilenceIsKept
  BY <1>1, <1>2 DEF SilenceIsKept
<1> QED BY <1>3, Inductive, PTL

\* An answer was the reply's own, sure enough and backed by enough evidence; a
\* message that names the Brain and asks is not passed on where the channel
\* listens and may investigate; and a decision that does less than the reply
\* chose names a rule that lowers actions, which did have its cause.
THEOREM Honoured == Spec => []ReplyIsHonoured
<1>1. IInv => AnswerIsEarned
  BY InFlight, DecideFacts DEF AnswerIsEarned
<1>2. IInv => NamedIsHeard
  BY InFlight, DecideFacts DEF NamedIsHeard
<1>3. ASSUME IInv, event # Idle
      PROVE  DowngradeExplained
  <2>1. Rank(event.decision.action) < Rank(event.event.reply.action) =>
          event.decision.rules \cap {"policy", "floor", "evidence", "disabled"} # {}
    BY <1>3, InFlight, DecideExplains
  <2>2. /\ "disabled" \in event.decision.rules =>
             ~event.under.allow /\ event.decision.action = "pass"
        /\ "evidence" \in event.decision.rules =>
             event.event.evidence < event.under.threshold
        /\ "floor" \in event.decision.rules =>
             event.decision.confidence < event.under.floor
    BY <1>3, InFlight, DecideFacts
  <2> QED BY <2>1, <2>2 DEF DowngradeExplained
<1>4. IInv => DowngradeExplained
  BY <1>3 DEF DowngradeExplained
<1>5. IInv => ReplyIsHonoured
  BY <1>1, <1>2, <1>4 DEF ReplyIsHonoured
<1> QED BY <1>5, Inductive, PTL

\* For any two policies: turning a channel down never makes the Brain do more
\* about a message that was not addressed to it.
THEOREM Quieter == Spec => []StricterIsQuieter
<1>1. IInv => StricterIsQuieter
  <2> SUFFICES ASSUME IInv, event # Idle, ~Addressed(event.event),
                      Stricter(PolicyFor(event.channel), event.under)
               PROVE  Rank(Decide(event.event, PolicyFor(event.channel)).action)
                        <= Rank(event.decision.action)
    BY DEF StricterIsQuieter
  <2>1. /\ event.channel \in Channel /\ event.event \in Event /\ event.under \in Policy
        /\ event.decision = Decide(event.event, event.under)
    BY InFlight
  <2>2. PolicyFor(event.channel) \in Policy
    BY <2>1, PolicyForType DEF IInv
  <2> QED BY <2>1, <2>2, DecideMonotone
<1> QED BY <1>1, Inductive, PTL
=============================================================================
