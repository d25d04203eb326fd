------------------------------- MODULE Sources -------------------------------
(***************************************************************************)
(* Captured sources, their versions and the proposals drawn from them      *)
(* (api/brain/services.py, main.py).  A capture commits a source with its  *)
(* first version and then offers it to the retrieval engine; people add    *)
(* versions; on demand, what the engine has inferred is synced into the    *)
(* review queue.  Every request is a database session of its own and reads *)
(* what is committed at that moment; unique keys on the number and on the  *)
(* hash of a version are all that stops two of them.                       *)
(*                                                                         *)
(* A content is known by the statements its spans quote and by those an    *)
(* engine may infer from it.  Two memories of one text are one fact: the   *)
(* sync finds the first when it looks for the second.                      *)
(***************************************************************************)
EXTENDS Naturals, FiniteSetsExt

CONSTANTS Source, Content, Statement,
          Quotes,       \* the statements a content's spans propose
          Infers,       \* the statements the engine may derive from it
          NoDocument,   \* the engine has no document of the source
          Request,      \* bound: requests in flight
          MaxVersions   \* bound: versions of one source

ASSUME SourcesAssumption ==
  /\ Quotes \in [Content -> SUBSET Statement]
  /\ Infers \in [Content -> SUBSET Statement]
  /\ NoDocument \notin Content
  /\ IsFiniteSet(Request)
  /\ MaxVersions \in Nat \ {0}

VARIABLES versions,   \* the source_versions of a source
          document,   \* the content of its document in the engine
          queue,      \* how many proposals there are of each sort
          request     \* per request: where its handler is and what it has read

vars == <<versions, document, queue, request>>

Version  == [number : 1..MaxVersions, content : Content]
\* A proposal with its evidence, the version it points at.
Proposal == [source : Source, statement : Statement, derived : BOOLEAN,
             version : 1..MaxVersions]
Idle     == [at |-> "idle"]
IsAt(s, stage)  == request[s].at = stage
Goes(s, to)     == request' = [request EXCEPT ![s] = to]
Captured(x)     == versions[x] # {}
Newest(x)       == Max({v.number : v \in versions[x]})

Handler ==
  {Idle}
  \cup [at : {"offering"}, on : Source, content : Content]
  \cup [at : {"fresh"}, on : Source, content : Content]
  \cup [at : {"numbered"}, on : Source, content : Content, number : 2..MaxVersions]
  \cup [at : {"asking"}, on : Source, document : Content]
  \cup [at : {"syncing"}, on : Source, facts : SUBSET Statement,
        left : SUBSET Statement, made : SUBSET Proposal]
  \cup [at : {"pinning"}, on : Source, facts : SUBSET Statement,
        left : SUBSET Statement, made : SUBSET Proposal, fact : Statement]

TypeOK ==
  /\ versions \in [Source -> SUBSET Version]
  /\ document \in [Source -> Content \cup {NoDocument}]
  /\ queue \in [Proposal -> Nat]
  /\ request \in [Request -> Handler]

Init ==
  /\ versions = [x \in Source |-> {}]
  /\ document = [x \in Source |-> NoDocument]
  /\ queue = [p \in Proposal |-> 0]
  /\ request = [s \in Request |-> Idle]

-----------------------------------------------------------------------------
(* Versions.  A version is committed with the proposals of its spans.      *)

QuotedOfNewest(x, c, n) ==       \* slip: the evidence is looked up, not handed on
  {[source |-> x, statement |-> t, derived |-> FALSE,
    version |-> IF Captured(x) THEN Newest(x) ELSE n] : t \in Quotes[c]}
Quoted(x, c, n) ==
  {[source |-> x, statement |-> t, derived |-> FALSE, version |-> n] : t \in Quotes[c]}

Enqueue(new) == queue' = [p \in Proposal |-> queue[p] + IF p \in new THEN 1 ELSE 0]

AddVersion(x, c, n) ==
  /\ versions' = [versions EXCEPT ![x] = @ \cup {[number |-> n, content |-> c]}]
  /\ Enqueue(Quoted(x, c, n))

Capture(s, x, c) ==
  /\ IsAt(s, "idle") /\ ~Captured(x)
  /\ AddVersion(x, c, 1)
  /\ Goes(s, [at |-> "offering", on |-> x, content |-> c])
  /\ UNCHANGED document

\* After the commit.  The engine's id for the document is stored in a second one.
OfferAccepted(s) ==
  /\ IsAt(s, "offering")
  /\ document' = [document EXCEPT ![request[s].on] = request[s].content]
  /\ Goes(s, Idle)
  /\ UNCHANGED <<versions, queue>>

\* A content that a version of the source has already is refused.
CheckContent(s, x, c) ==
  /\ IsAt(s, "idle") /\ Captured(x)
  /\ \A v \in versions[x] : v.content # c
  /\ Goes(s, [at |-> "fresh", on |-> x, content |-> c])
  /\ UNCHANGED <<versions, document, queue>>

NextNumberUnmoved(x) == Newest(x)          \* slip: not one more
NextNumber(x) == Newest(x) + 1

ReadNumber(s) ==
  LET x == request[s].on
  IN /\ IsAt(s, "fresh")
     /\ Newest(x) < MaxVersions
     /\ Goes(s, [at |-> "numbered", on |-> x, content |-> request[s].content,
                 number |-> NextNumber(x)])
     /\ UNCHANGED <<versions, document, queue>>

\* (source_id, version) and (source_id, content_hash) are unique.
KeysFreeByHash(x, c, n) == \A v \in versions[x] : v.content # c
                                           \* slip: only the hash is unique
KeysFree(x, c, n) == \A v \in versions[x] : v.number # n /\ v.content # c

CommitVersion(s) ==
  LET r == request[s]
  IN /\ IsAt(s, "numbered") /\ KeysFree(r.on, r.content, r.number)
     /\ AddVersion(r.on, r.content, r.number)
     /\ Goes(s, Idle)
     /\ UNCHANGED document

VersionClashes(s) ==
  LET r == request[s]
  IN /\ IsAt(s, "numbered") /\ ~KeysFree(r.on, r.content, r.number)
     /\ Goes(s, Idle)
     /\ UNCHANGED <<versions, document, queue>>

-----------------------------------------------------------------------------
(* The sync of derived facts, which it proposes one by one and commits      *)
(* together.                                                                *)

LoadSource(s, x) ==
  /\ IsAt(s, "idle") /\ document[x] # NoDocument
  /\ Goes(s, [at |-> "asking", on |-> x, document |-> document[x]])
  /\ UNCHANGED <<versions, document, queue>>

\* An engine that cannot be reached, or has nothing yet, leaves nothing to do.
FactsOfContainer(c) == UNION {Infers[document[x]] : x \in {y \in Source : document[y] # NoDocument}}
                                           \* slip: the queue of the workspace
FactsOf(c) == Infers[c]

AskEngine(s, facts) ==
  /\ IsAt(s, "asking")
  /\ facts \subseteq FactsOf(request[s].document)
  /\ Goes(s, IF facts = {} THEN Idle
             ELSE [at |-> "syncing", on |-> request[s].on,
                   facts |-> facts, left |-> facts, made |-> {}])
  /\ UNCHANGED <<versions, document, queue>>

AlreadyNever(x, t) == FALSE                \* slip: no test
AlreadyAnywhere(x, t) ==                   \* slip: of any source
  \E p \in Proposal : p.statement = t /\ queue[p] > 0
Already(x, t) ==
  \E p \in Proposal : p.source = x /\ p.statement = t /\ queue[p] > 0

SkipFact(s, t) ==
  /\ IsAt(s, "syncing") /\ t \in request[s].left
  /\ Already(request[s].on, t)
  /\ Goes(s, [request[s] EXCEPT !.left = @ \ {t}])
  /\ UNCHANGED <<versions, document, queue>>

ProposeFact(s, t) ==
  LET r == request[s]
  IN /\ IsAt(s, "syncing") /\ t \in r.left
     /\ ~Already(r.on, t)
     /\ Goes(s, [at |-> "pinning", on |-> r.on, facts |-> r.facts,
                 left |-> r.left \ {t}, made |-> r.made, fact |-> t])
     /\ UNCHANGED <<versions, document, queue>>

\* The evidence of a derived fact is the newest version there is by then.
PinFact(s) ==
  LET r == request[s]
      p == [source |-> r.on, statement |-> r.fact, derived |-> TRUE, version |-> Newest(r.on)]
  IN /\ IsAt(s, "pinning")
     /\ Goes(s, [at |-> "syncing", on |-> r.on, facts |-> r.facts,
                 left |-> r.left, made |-> r.made \cup {p}])
     /\ UNCHANGED <<versions, document, queue>>

CommitSync(s) ==
  /\ IsAt(s, "syncing") /\ request[s].left = {}
  /\ Enqueue(request[s].made)
  /\ Goes(s, Idle)
  /\ UNCHANGED <<versions, document>>

\* The handler dies, or the engine does not take the document: what was
\* committed stays, the rest is lost.
Dies(s) ==
  /\ ~IsAt(s, "idle")
  /\ Goes(s, Idle)
  /\ UNCHANGED <<versions, document, queue>>

-----------------------------------------------------------------------------
Next ==
  \/ \E s \in Request, x \in Source, c \in Content : Capture(s, x, c)
  \/ \E s \in Request : OfferAccepted(s)
  \/ \E s \in Request, x \in Source, c \in Content : CheckContent(s, x, c)
  \/ \E s \in Request : ReadNumber(s)
  \/ \E s \in Request : CommitVersion(s)
  \/ \E s \in Request : VersionClashes(s)
  \/ \E s \in Request, x \in Source : LoadSource(s, x)
  \/ \E s \in Request, facts \in SUBSET Statement : AskEngine(s, facts)
  \/ \E s \in Request, t \in Statement : SkipFact(s, t)
  \/ \E s \in Request, t \in Statement : ProposeFact(s, t)
  \/ \E s \in Request : PinFact(s)
  \/ \E s \in Request : CommitSync(s)
  \/ \E s \in Request : Dies(s)

Spec == Init /\ [][Next]_vars

-----------------------------------------------------------------------------
\* "Every source change creates a new version and hash": the versions of a
\* source are numbered from 1 without a gap, each number and each content once,
\* however many people add versions at the same time.
VersionsGapless ==
  \A x \in Source :
    /\ \E n \in 0..MaxVersions : {v.number : v \in versions[x]} = 1..n
    /\ \A v, w \in versions[x] : v.number = w.number \/ v.content = w.content => v = w

\* "each carries evidence, a source version at minimum": the evidence of a
\* proposal in the queue is a committed version of its own source, and the
\* version a proposal quotes has the quotation.
EvidenceHolds ==
  \A p \in Proposal :
    queue[p] > 0 =>
      \E v \in versions[p.source] :
        v.number = p.version /\ (p.derived \/ p.statement \in Quotes[v.content])

\* A derived proposal is a fact of the source it is filed under, never of
\* another one: the engine drew it from a version of this source.
OwnFacts ==
  \A p \in Proposal :
    queue[p] > 0 /\ p.derived =>
      \E v \in versions[p.source] : p.statement \in Infers[v.content]

\* What a reviewer is shown as evidence is there, under a number that stands for
\* one content, and of this source.
EvidenceStands == VersionsGapless /\ EvidenceHolds /\ OwnFacts

\* A sync passes over a fact only if the reviewer finds it in the queue of this
\* source anyway.
NothingSkipped ==
  \A s \in Request :
    IsAt(s, "syncing") =>
      \A t \in request[s].facts \ request[s].left :
        \E p \in Proposal :
          /\ p.source = request[s].on /\ p.statement = t
          /\ queue[p] > 0 \/ p \in request[s].made

\* The derived proposals of a fact in the queue, each with its place among its like.
Copies(x, t) ==
  UNION {{p} \X (1..queue[p]) :
           p \in {q \in Proposal : q.source = x /\ q.statement = t /\ q.derived}}

\* "re-syncing must not duplicate the queue": only syncs that overlap do, so
\* there is never more than one copy of a fact for each request in flight.
CopiesBounded ==
  \A x \in Source, t \in Statement : Cardinality(Copies(x, t)) <= Cardinality(Request)
=============================================================================
