-------------------------------- MODULE Intake --------------------------------
(***************************************************************************)
(* Events and the policies they are decided under (api/brain/turns.py,     *)
(* main.py).  An administrator's PUT is completed with the defaults of the *)
(* request schema, loads the channel's row and commits it later; an event  *)
(* reads the policy, is decided at once and commits its turn later.  Each  *)
(* has a database session of its own.  The turn that an event opens, and   *)
(* what it displaces, is Turns!HandleEvent: here the newest one stands for *)
(* them.                                                                   *)
(***************************************************************************)
EXTENDS Triage

CONSTANTS Channel,
          DM,         \* the channels that are direct messages
          Writer,     \* bound: policy requests in flight
          Puts,       \* the bodies of policy requests: some fields, with values
          Replies,    \* model replies that are tried
          Evidence,   \* strengths of evidence that are tried
          MaxPuts     \* bound: policy requests

Field == {"mode", "floor", "threshold", "allow"}

ASSUME IntakeAssumption ==
  /\ DM \subseteq Channel
  /\ \A put \in Puts : /\ DOMAIN put \subseteq Field
                       /\ "mode" \in DOMAIN put => put.mode \in Mode
                       /\ "floor" \in DOMAIN put => put.floor \in Percent
                       /\ "threshold" \in DOMAIN put => put.threshold \in Percent
                       /\ "allow" \in DOMAIN put => put.allow \in BOOLEAN
  /\ Replies \subseteq Reply \cup {NoReply}
  /\ Evidence \subseteq Percent
  /\ MaxPuts \in Nat

VARIABLES policy,    \* proactivity_settings, by channel
          writer,    \* per policy request: what it loaded and what it sets
          event,     \* the event in flight
          newest,    \* the turn committed last
          puts

vars == <<policy, writer, event, newest, puts>>

NoRow  == [mode |-> "unset"]
Idle   == [at |-> "idle"]
NoTurn == [kind |-> "none", action |-> "pass"]

TypeOK ==
  /\ policy \in [Channel -> Policy \cup {NoRow}]
  /\ writer \in [Writer -> {Idle} \cup
       [at : {"loaded"}, channel : Channel, payload : Policy,
        seen : Policy \cup {NoRow}]]
  /\ event \in {Idle} \cup
       [at : {"decided"}, channel : Channel, event : Event, under : Policy,
        decision : Decision]
  /\ newest \in {NoTurn} \cup [kind : EventKind, action : Action]
  /\ puts \in 0..MaxPuts

Init ==
  /\ policy = [c \in Channel |-> NoRow]
  /\ writer = [w \in Writer |-> Idle]
  /\ event = Idle
  /\ newest = NoTurn
  /\ puts = 0

-----------------------------------------------------------------------------
\* Every field of the schema has a default, so set_policy is given them all.
PayloadBare(put) == put                   \* slip: the missing fields stay missing
Setting(put, f) == IF f \in DOMAIN put THEN put[f] ELSE DefaultPolicy[f]
Payload(put) == [mode      |-> Setting(put, "mode"),      floor |-> Setting(put, "floor"),
                 threshold |-> Setting(put, "threshold"), allow |-> Setting(put, "allow")]

PolicyFor(c) == IF policy[c] = NoRow THEN DefaultPolicy ELSE policy[c]

LoadPolicy(w, c, put) ==
  /\ puts < MaxPuts /\ puts' = puts + 1
  /\ writer[w] = Idle
  /\ writer' = [writer EXCEPT ![w] =
       [at |-> "loaded", channel |-> c, payload |-> Payload(put),
        seen |-> policy[c]]]
  /\ UNCHANGED <<policy, event, newest>>

\* A column set to the value it was loaded with is not written.
Written(seen, payload, row) ==
  LET column(f) == IF payload[f] # seen[f] THEN payload[f] ELSE row[f]
  IN [mode |-> column("mode"), floor |-> column("floor"),
      threshold |-> column("threshold"), allow |-> column("allow")]

SetPolicy(w) ==
  LET q == writer[w]
  IN /\ q # Idle
     /\ \/ q.seen # NoRow
        \/ policy[q.channel] = NoRow
     /\ policy' = [policy EXCEPT ![q.channel] =
          IF q.seen = NoRow THEN q.payload ELSE Written(q.seen, q.payload, @)]
     /\ writer' = [writer EXCEPT ![w] = Idle]
     /\ UNCHANGED <<event, newest, puts>>

\* (workspace, channel) is unique: the later of two first settings fails.
SettingClashes(w) ==
  LET q == writer[w]
  IN /\ q # Idle
     /\ q.seen = NoRow /\ policy[q.channel] # NoRow
     /\ writer' = [writer EXCEPT ![w] = Idle]
     /\ UNCHANGED <<policy, event, newest, puts>>

ReceiveEvent(c, m, reply, evidence) ==
  LET e == [kind |-> Classify(m, c \in DM), asked |-> m.asked, reply |-> reply,
            evidence |-> evidence]
      p == PolicyFor(c)
  IN /\ event = Idle
     /\ event' = [at |-> "decided", channel |-> c, event |-> e, under |-> p,
                  decision |-> Decide(e, p)]
     /\ UNCHANGED <<policy, writer, newest, puts>>

CommitEvent ==
  /\ event # Idle
  /\ newest' = [kind |-> event.event.kind, action |-> event.decision.action]
  /\ event' = Idle
  /\ UNCHANGED <<policy, writer, puts>>

Next ==
  \/ \E w \in Writer, c \in Channel, put \in Puts : LoadPolicy(w, c, put)
  \/ \E w \in Writer : SetPolicy(w)
  \/ \E w \in Writer : SettingClashes(w)
  \/ \E c \in Channel, m \in Message, reply \in Replies, evidence \in Evidence :
       ReceiveEvent(c, m, reply, evidence)
  \/ CommitEvent

Spec == Init /\ [][Next]_vars

-----------------------------------------------------------------------------
(* The decision of the event in flight, under the policy it was read with. *)

\* "Policy gates first (a quiet channel never acts)", whatever the reply says,
\* and another bot's message is never acted on.
QuietNeverActs ==
  event # Idle /\ ~Reacts(event.under, event.event) => event.decision.action = "pass"

\* "ANSWER needs evidence": an answer was the reply's own, sure enough for the
\* channel and backed by enough evidence.  No rule ever raises one to it.
AnswerIsEarned ==
  event # Idle /\ event.decision.action = "answer" =>
    /\ event.event.reply.action = "answer"
    /\ event.decision.confidence >= event.under.floor
    /\ event.event.evidence >= event.under.threshold

\* "Being named and asked is a request": where the channel listens and may
\* investigate, such a message is never passed on, and one that only names the
\* Brain is passed on only when a sure reply says so.
NamedIsHeard ==
  event # Idle /\ Addressed(event.event) /\ Reacts(event.under, event.event)
    /\ event.under.allow /\ event.decision.action = "pass" =>
    /\ ~event.event.asked
    /\ event.event.reply.action = "pass"
    /\ event.decision.confidence >= event.under.floor

\* "Every downgrade records the rule that caused it": when less is done than the
\* reply chose, one of the rules that can lower an action is named, and a rule
\* that is named did have its cause.
DowngradeExplained ==
  event # Idle =>
    LET d == event.decision
        e == event.event
    IN /\ Rank(d.action) < Rank(e.reply.action) =>
            d.rules \cap {"policy", "floor", "evidence", "disabled"} # {}
       /\ "disabled" \in d.rules => ~event.under.allow /\ d.action = "pass"
       /\ "evidence" \in d.rules => e.evidence < event.under.threshold
       /\ "floor" \in d.rules => d.confidence < event.under.floor

\* "An unreadable reply stays silent" and a message nobody addressed to the Brain
\* gets no more than its reply asked for.
PassiveGetsNoMore ==
  event # Idle /\ ~Addressed(event.event) =>
    Rank(event.decision.action) <= Rank(event.event.reply.action)

\* Turning a channel down turns it down: had an event nobody addressed to the
\* Brain been decided under the channel's present policy, and is that one
\* stricter, no more would have been done.
StricterIsQuieter ==
  event # Idle /\ ~Addressed(event.event)
    /\ Stricter(PolicyFor(event.channel), event.under) =>
    Rank(Decide(event.event, PolicyFor(event.channel)).action)
      <= Rank(event.decision.action)

\* What is done is the reply's own: answered only when earned, passed on only
\* when nobody asked, and never less without the rule that lowered it.
ReplyIsHonoured == AnswerIsEarned /\ NamedIsHeard /\ DowngradeExplained

\* Nothing is done where the channel is quiet, and nobody who did not address
\* the Brain gets more than its reply asked for.
SilenceIsKept == QuietNeverActs /\ PassiveGetsNoMore
=============================================================================
