-------------------------------- MODULE Triage --------------------------------
(***************************************************************************)
(* What a message is and what the Brain does about it (api/brain/          *)
(* triage.py): the label of an event, then the decision, which starts from *)
(* the model's parsed reply and is amended by one rule after the other.    *)
(* Every rule that amends it leaves its name.                              *)
(*                                                                         *)
(* Confidences are hundredths.  A text is reduced to what the regular      *)
(* expressions find in it: whether it names the Brain, whether it asks for *)
(* something, and the fields of the reply the grammar proves.              *)
(***************************************************************************)
EXTENDS TurnRules

Percent  == 0..100
Unstated == 101                 \* a reply without a readable confidence

Mode      == {"off", "mentions", "contextual", "proactive"}
ModeKinds == [off        |-> {},
              mentions   |-> AddressKinds,
              contextual |-> AddressKinds \cup {"passive_message"},
              proactive  |-> EventKind \ {"ignored"}]

Policy == [mode : Mode, floor : Percent, threshold : Percent, allow : BOOLEAN]
DefaultPolicy == [mode |-> "mentions", floor |-> 60, threshold |-> 75, allow |-> TRUE]

NoReply == [action |-> "none", confidence |-> Unstated]
Reply   == [action : Action, confidence : Percent \cup {Unstated}]
Event   == [kind : EventKind, asked : BOOLEAN, reply : Reply \cup {NoReply},
            evidence : Percent]

Rule     == {"policy", "fallback", "grammar", "floor", "affirmative", "evidence", "disabled"}
Decision == [action : Action, confidence : Percent, rules : SUBSET Rule]

Message == {m \in [bot : BOOLEAN, blank : BOOLEAN, addressed : BOOLEAN, asked : BOOLEAN] :
              m.blank => ~m.asked}

Classify(m, isDM) ==
  IF m.bot \/ m.blank THEN "ignored"
  ELSE IF isDM THEN "direct_message"
  ELSE IF m.addressed THEN "mention"
  ELSE IF m.asked THEN "passive_message"
  ELSE "context_only"

-----------------------------------------------------------------------------
Addressed(e) == e.kind \in AddressKinds

\* What the reply proves, or what is done without one.
Opinion(e) ==
  IF e.reply = NoReply
  THEN [action     |-> IF Addressed(e) THEN "investigate" ELSE "pass",
        confidence |-> IF Addressed(e) THEN 40 ELSE 0,
        rules      |-> {"fallback"}]
  ELSE [action     |-> e.reply.action,
        confidence |-> IF e.reply.confidence # Unstated THEN e.reply.confidence
                       ELSE IF Addressed(e) THEN 70 ELSE 50,
        rules      |-> {"grammar"}]

Amended(d, action, rule) == [d EXCEPT !.action = action, !.rules = @ \cup {rule}]

FlooredAlike(e, p, d) ==                  \* slip: the floor forgets who is asking
  IF d.confidence < p.floor THEN Amended(d, "investigate", "floor") ELSE d
Floored(e, p, d) ==
  IF d.confidence < p.floor
  THEN Amended(d, IF Addressed(e) THEN "investigate" ELSE "pass", "floor")
  ELSE d

AffirmedMentions(e, d) ==                 \* slip: direct messages are not counted in
  IF d.action = "pass" /\ e.kind = "mention" /\ e.asked
  THEN Amended(d, "investigate", "affirmative")
  ELSE d
Affirmed(e, d) ==
  IF d.action = "pass" /\ Addressed(e) /\ e.asked
  THEN Amended(d, "investigate", "affirmative")
  ELSE d

BackedByFloor(e, p, d) ==                 \* slip: the wrong threshold
  IF d.action = "answer" /\ e.evidence < p.floor
  THEN Amended(d, "investigate", "evidence")
  ELSE d
Backed(e, p, d) ==
  IF d.action = "answer" /\ e.evidence < p.threshold
  THEN Amended(d, "investigate", "evidence")
  ELSE d

PermittedUnnoted(p, d) ==                 \* slip: the rule leaves no name
  IF d.action = "investigate" /\ ~p.allow THEN [d EXCEPT !.action = "pass"] ELSE d
PermittedElseAnswer(p, d) ==              \* slip: no investigation, so answer at once
  IF d.action = "investigate" /\ ~p.allow THEN Amended(d, "answer", "disabled") ELSE d
Permitted(p, d) ==
  IF d.action = "investigate" /\ ~p.allow THEN Amended(d, "pass", "disabled") ELSE d

Considered(e, p) ==
  Permitted(p, Backed(e, p, Affirmed(e, Floored(e, p, Opinion(e)))))

Reacts(p, e) == e.kind \in ModeKinds[p.mode]

DecideUngated(e, p) == Considered(e, p)   \* slip: the reply is believed first
Decide(e, p) ==
  IF Reacts(p, e) THEN Considered(e, p)
  ELSE [action |-> "pass", confidence |-> 100, rules |-> {"policy"}]

-----------------------------------------------------------------------------
(* Words the properties are stated in.                                     *)

\* How much is done.
Rank(action) == CASE action = "answer" -> 2 [] action = "investigate" -> 1 [] OTHER -> 0

\* Policy q lets no more happen than policy p, setting by setting.
Stricter(q, p) ==
  /\ ModeKinds[q.mode] \subseteq ModeKinds[p.mode]
  /\ q.floor >= p.floor
  /\ q.threshold >= p.threshold
  /\ q.allow => p.allow
=============================================================================
