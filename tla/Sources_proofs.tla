---------------------------- MODULE Sources_proofs ----------------------------
(***************************************************************************)
(* Sources for any number of sources, contents and requests.  Versions and *)
(* proposals only ever become more, so what a handler has read stays true; *)
(* Sound says what that is at each stage.  It is stated of given versions  *)
(* V and proposals Q, to be used of a state and of the next alike.         *)
(***************************************************************************)
EXTENDS Sources, TLAPS, FiniteSetTheorems

HasContent(V, x, c) == \E v \in V[x] : v.content = c
Inferred(V, x, t)   == \E v \in V[x] : t \in Infers[v.content]

Backed(V, p) ==
  /\ \E v \in V[p.source] :
       v.number = p.version /\ (p.derived \/ p.statement \in Quotes[v.content])
  /\ p.derived => Inferred(V, p.source, p.statement)

Handled(Q, r, t) ==
  \E p \in Proposal :
    /\ p.source = r.on /\ p.statement = t
    /\ Q[p] > 0 \/ p \in r.made

\* What a handler at r relies on.
Sound(V, Q, r) ==
  /\ r.at = "offering" => HasContent(V, r.on, r.content)
  /\ r.at = "asking" => HasContent(V, r.on, r.document)
  /\ r.at \in {"fresh", "syncing", "pinning"} => V[r.on] # {}
  /\ r.at = "numbered" => \E v \in V[r.on] : r.number <= v.number + 1
  /\ r.at \in {"syncing", "pinning"} =>
       /\ r.left \subseteq r.facts
       /\ \A t \in r.facts : Inferred(V, r.on, t)
       /\ \A p \in r.made : p.source = r.on /\ p.derived /\ Backed(V, p)
  /\ r.at = "syncing" => \A t \in r.facts \ r.left : Handled(Q, r, t)
  /\ r.at = "pinning" =>
       /\ r.fact \in r.facts
       /\ \A t \in r.facts \ r.left : t = r.fact \/ Handled(Q, r, t)

Gapless(S) ==
  /\ \E n \in 0..MaxVersions : {v.number : v \in S} = 1..n
  /\ \A v, w \in S : v.number = w.number \/ v.content = w.content => v = w

DocumentsOwn ==
  \A x \in Source : document[x] # NoDocument => HasContent(versions, x, document[x])

QueueBacked == \A p \in Proposal : queue[p] > 0 => Backed(versions, p)

HandlersSound == \A s \in Request : Sound(versions, queue, request[s])

IInv ==
  /\ TypeOK
  /\ VersionsGapless
  /\ DocumentsOwn
  /\ QueueBacked
  /\ HandlersSound

-----------------------------------------------------------------------------
(* Sets of versions.                                                       *)

LEMMA MaxOfRange ==
  ASSUME NEW n \in Nat \ {0}
  PROVE  Max(1..n) = n
<1>1. n \in 1..n /\ \A y \in 1..n : n >= y
  OBVIOUS
<1>2. \A x \in 1..n : (\A y \in 1..n : x >= y) => x = n
  OBVIOUS
<1> QED BY <1>1, <1>2 DEF Max

\* The newest number is one of a version, and none is beyond it.
LEMMA NewestFacts ==
  ASSUME TypeOK, VersionsGapless, NEW x \in Source, Captured(x)
  PROVE  /\ Newest(x) \in 1..MaxVersions
         /\ {v.number : v \in versions[x]} = 1..Newest(x)
         /\ \E v \in versions[x] : v.number = Newest(x)
<1>1. PICK n \in 0..MaxVersions : {v.number : v \in versions[x]} = 1..n
  BY DEF VersionsGapless
<1>2. n # 0
  BY <1>1 DEF Captured
<1>3. Newest(x) = n
  <2>1. Newest(x) = Max(1..n)
    BY <1>1, Zenon DEF Newest
  <2>2. n \in Nat \ {0}
    BY <1>2, SourcesAssumption
  <2> QED BY <2>1, <2>2, MaxOfRange
<1>4. n \in {v.number : v \in versions[x]}
  BY <1>1, <1>2, SourcesAssumption
<1> QED BY <1>1, <1>2, <1>3, <1>4, SourcesAssumption

\* One more version with the next number and a new content leaves no gap.
LEMMA OneMore ==
  ASSUME NEW S \in SUBSET Version, Gapless(S), NEW n \in 1..MaxVersions, NEW c \in Content,
         \A v \in S : v.number # n /\ v.content # c,
         n = 1 \/ \E v \in S : n <= v.number + 1
  PROVE  Gapless(S \cup {[number |-> n, content |-> c]})
<1> DEFINE new == [number |-> n, content |-> c]
           T   == S \cup {new}
<1>1. PICK m \in 0..MaxVersions : {v.number : v \in S} = 1..m
  BY DEF Gapless
<1>2. n \notin 1..m
  BY <1>1
<1>3. \A v \in S : v.number \in 1..m
  BY <1>1
<1>4. n = m + 1
  BY <1>2, <1>3, SourcesAssumption
<1>5. {v.number : v \in T} = {v.number : v \in S} \cup {n}
  <2>1. new.number = n
    OBVIOUS
  <2>2. \A i : i \in {v.number : v \in T} <=> (\E v \in S : i = v.number) \/ i = new.number
    OBVIOUS
  <2>3. \A i : i \in {v.number : v \in S} <=> \E v \in S : i = v.number
    OBVIOUS
  <2> HIDE DEF new, T
  <2> QED BY <2>1, <2>2, <2>3
<1>6. {v.number : v \in T} = 1..n
  BY <1>1, <1>4, <1>5, SourcesAssumption
<1>7. n \in 0..MaxVersions
  BY SourcesAssumption
<1>8. \A v, w \in T : v.number = w.number \/ v.content = w.content => v = w
  BY DEF Gapless
<1> QED BY <1>6, <1>7, <1>8 DEF Gapless

LEMMA GaplessIs == VersionsGapless <=> \A x \in Source : Gapless(versions[x])
BY DEF VersionsGapless, Gapless

-----------------------------------------------------------------------------
(* What is read stays true.                                                *)

LEMMA BackedGrows ==
  ASSUME NEW V, NEW W, NEW p \in Proposal, \A x \in Source : V[x] \subseteq W[x], Backed(V, p)
  PROVE  Backed(W, p)
BY DEF Backed, Inferred, Proposal

LEMMA SoundGrows ==
  ASSUME NEW V, NEW W, NEW Q, NEW R, NEW r \in Handler,
         \A x \in Source : V[x] \subseteq W[x],
         \A p \in Proposal : Q[p] > 0 => R[p] > 0,
         Sound(V, Q, r)
  PROVE  Sound(W, R, r)
<1>1. r.at = "offering" => HasContent(W, r.on, r.content)
  BY DEF Sound, HasContent, Handler, Idle
<1>2. r.at = "asking" => HasContent(W, r.on, r.document)
  BY DEF Sound, HasContent, Handler, Idle
<1>3. r.at \in {"fresh", "syncing", "pinning"} => W[r.on] # {}
  BY DEF Sound, Handler, Idle
<1>4. r.at = "numbered" => \E v \in W[r.on] : r.number <= v.number + 1
  BY DEF Sound, Handler, Idle
<1>5. ASSUME r.at \in {"syncing", "pinning"}
      PROVE  /\ r.left \subseteq r.facts
             /\ \A t \in r.facts : Inferred(W, r.on, t)
             /\ \A p \in r.made : p.source = r.on /\ p.derived /\ Backed(W, p)
  <2>1. r.on \in Source /\ r.made \subseteq Proposal
    BY <1>5 DEF Handler, Idle
  <2>2. \A t \in r.facts : Inferred(W, r.on, t)
    BY <1>5, <2>1 DEF Sound, Inferred
  <2>3. \A p \in r.made : p.source = r.on /\ p.derived /\ Backed(W, p)
    BY <1>5, <2>1, BackedGrows DEF Sound
  <2> QED BY <1>5, <2>2, <2>3 DEF Sound
<1>6. \A t : Handled(Q, r, t) => Handled(R, r, t)
  BY DEF Handled
<1> QED BY <1>1, <1>2, <1>3, <1>4, <1>5, <1>6 DEF Sound

LEMMA IdleFacts == Idle \in Handler /\ \A V, Q : Sound(V, Q, Idle)
BY DEF Idle, Handler, Sound

\* The fields that a request has at each stage.
LEMMA RequestFacts ==
  ASSUME TypeOK, NEW s \in Request
  PROVE  /\ ~IsAt(s, "idle") => request[s].on \in Source
         /\ IsAt(s, "offering") => request[s].content \in Content
         /\ IsAt(s, "fresh") => request[s].content \in Content
         /\ IsAt(s, "numbered") => /\ request[s].content \in Content
                                   /\ request[s].number \in 2..MaxVersions
         /\ IsAt(s, "asking") => request[s].document \in Content
         /\ request[s].at \in {"syncing", "pinning"} =>
              /\ request[s].facts \in SUBSET Statement
              /\ request[s].left \in SUBSET Statement
              /\ request[s].made \in SUBSET Proposal
         /\ IsAt(s, "syncing") =>
              request[s] \in [at : {"syncing"}, on : Source, facts : SUBSET Statement,
                              left : SUBSET Statement, made : SUBSET Proposal]
         /\ IsAt(s, "pinning") => request[s].fact \in Statement
BY DEF TypeOK, Handler, IsAt, Idle

-----------------------------------------------------------------------------
LEMMA InitIInv == Init => IInv
<1> SUFFICES ASSUME Init PROVE IInv
  OBVIOUS
<1>1. TypeOK
  BY DEF Init, TypeOK, Handler
<1>2. VersionsGapless
  <2>1. \A x \in Source : {v.number : v \in versions[x]} = 1..0 /\ versions[x] = {}
    BY DEF Init
  <2>2. 0 \in 0..MaxVersions
    BY SourcesAssumption
  <2> QED BY <2>1, <2>2 DEF VersionsGapless
<1>3. DocumentsOwn /\ QueueBacked
  BY DEF Init, DocumentsOwn, QueueBacked
<1>4. HandlersSound
  BY IdleFacts DEF Init, HandlersSound
<1> QED BY <1>1, <1>2, <1>3, <1>4 DEF IInv

-----------------------------------------------------------------------------
(* The steps.                                                              *)

\* One handler goes to h while versions and proposals may become more.
LEMMA Advances ==
  ASSUME IInv, NEW s \in Request, NEW h \in Handler,
         request' = [request EXCEPT ![s] = h],
         versions' \in [Source -> SUBSET Version],
         document' \in [Source -> Content \cup {NoDocument}],
         queue' \in [Proposal -> Nat],
         \A x \in Source : versions[x] \subseteq versions'[x],
         \A p \in Proposal : queue[p] > 0 => queue'[p] > 0,
         Sound(versions', queue', h),
         VersionsGapless', DocumentsOwn', QueueBacked'
  PROVE  IInv'
<1>1. request' \in [Request -> Handler]
  BY DEF IInv, TypeOK
<1>2. TypeOK'
  BY <1>1 DEF TypeOK
<1>3. \A x \in Request : Sound(versions', queue', request'[x])
  <2> TAKE x \in Request
  <2>1. request \in [Request -> Handler] /\ request[x] \in Handler
    BY DEF IInv, TypeOK
  <2>2. CASE x = s
    <3>1. request'[x] = h
      BY <2>1, <2>2
    <3> QED BY <3>1
  <2>3. CASE x # s
    <3>1. request'[x] = request[x]
      BY <2>1, <2>3
    <3>2. Sound(versions, queue, request[x])
      BY DEF IInv, HandlersSound
    <3>3. Sound(versions', queue', request[x])
      BY <2>1, <3>2, SoundGrows
    <3> QED BY <3>1, <3>3
  <2> QED BY <2>2, <2>3
<1>4. HandlersSound'
  BY <1>3 DEF HandlersSound
<1> QED BY <1>2, <1>4 DEF IInv

\* Nothing but the handler changes.
LEMMA Moves ==
  ASSUME IInv, NEW s \in Request, NEW h \in Handler,
         request' = [request EXCEPT ![s] = h],
         Sound(versions, queue, h),
         UNCHANGED <<versions, document, queue>>
  PROVE  IInv'
<1>1. /\ versions' \in [Source -> SUBSET Version]
      /\ document' \in [Source -> Content \cup {NoDocument}]
      /\ queue' \in [Proposal -> Nat]
  BY DEF IInv, TypeOK
<1>2. /\ \A x \in Source : versions[x] \subseteq versions'[x]
      /\ \A p \in Proposal : queue[p] > 0 => queue'[p] > 0
      /\ Sound(versions', queue', h)
  OBVIOUS
<1>3. VersionsGapless'
  BY DEF IInv, VersionsGapless
<1>4. DocumentsOwn'
  BY DEF IInv, DocumentsOwn
<1>5. QueueBacked'
  BY DEF IInv, QueueBacked
<1> QED BY <1>1, <1>2, <1>3, <1>4, <1>5, Advances

\* What is enqueued comes on top of what there is.
LEMMA EnqueueFacts ==
  ASSUME TypeOK, NEW new \in SUBSET Proposal, Enqueue(new)
  PROVE  /\ queue' \in [Proposal -> Nat]
         /\ \A p \in Proposal : queue[p] > 0 => queue'[p] > 0
         /\ \A p \in new : queue'[p] > 0
         /\ \A p \in Proposal : queue'[p] > 0 => queue[p] > 0 \/ p \in new
BY DEF TypeOK, Enqueue

LEMMA QuotedFacts ==
  ASSUME NEW x \in Source, NEW c \in Content, NEW n \in 1..MaxVersions
  PROVE  /\ Quoted(x, c, n) \in SUBSET Proposal
         /\ \A p \in Quoted(x, c, n) :
              p.source = x /\ ~p.derived /\ p.version = n /\ p.statement \in Quotes[c]
<1>1. Quotes[c] \in SUBSET Statement
  BY SourcesAssumption
<1>2. ASSUME NEW p \in Quoted(x, c, n)
      PROVE  /\ p \in Proposal
             /\ p.source = x /\ ~p.derived /\ p.version = n /\ p.statement \in Quotes[c]
  <2>1. PICK t \in Quotes[c] :
          p = [source |-> x, statement |-> t, derived |-> FALSE, version |-> n]
    BY <1>2 DEF Quoted
  <2>2. p.source = x /\ p.derived = FALSE /\ p.version = n /\ p.statement = t
    BY <2>1
  <2>3. t \in Statement
    BY <1>1
  <2>4. p \in Proposal
    BY <2>1, <2>3 DEF Proposal
  <2> QED BY <2>2, <2>4
<1> QED BY <1>2

\* A version with the next number and a new content, and its proposals.
LEMMA Adds ==
  ASSUME IInv, NEW s \in Request, NEW h \in Handler,
         NEW x \in Source, NEW c \in Content, NEW n \in 1..MaxVersions,
         AddVersion(x, c, n), UNCHANGED document,
         KeysFree(x, c, n),
         n = 1 \/ \E v \in versions[x] : n <= v.number + 1,
         request' = [request EXCEPT ![s] = h],
         h = Idle \/ h = [at |-> "offering", on |-> x, content |-> c]
  PROVE  IInv'
<1> DEFINE new == [number |-> n, content |-> c]
<1>1. TypeOK /\ new \in Version
  BY DEF IInv, Version
<1>2. /\ versions' \in [Source -> SUBSET Version]
      /\ versions'[x] = versions[x] \cup {new}
      /\ \A y \in Source : y # x => versions'[y] = versions[y]
      /\ \A y \in Source : versions[y] \subseteq versions'[y]
  BY <1>1 DEF TypeOK, AddVersion
<1>3. document' \in [Source -> Content \cup {NoDocument}]
  BY <1>1 DEF TypeOK
<1>4. Enqueue(Quoted(x, c, n)) /\ Quoted(x, c, n) \in SUBSET Proposal
  BY QuotedFacts DEF AddVersion
<1>5. /\ queue' \in [Proposal -> Nat]
      /\ \A p \in Proposal : queue[p] > 0 => queue'[p] > 0
      /\ \A p \in Proposal : queue'[p] > 0 => queue[p] > 0 \/ p \in Quoted(x, c, n)
  BY <1>1, <1>4, EnqueueFacts
<1>6. Gapless(versions'[x])
  <2>1. Gapless(versions[x]) /\ versions[x] \in SUBSET Version
    BY <1>1, GaplessIs DEF IInv, TypeOK
  <2>2. \A v \in versions[x] : v.number # n /\ v.content # c
    BY DEF KeysFree
  <2> QED BY <1>2, <2>1, <2>2, OneMore
<1>7. VersionsGapless'
  <2>1. \A y \in Source : Gapless(versions'[y])
    BY <1>2, <1>6, GaplessIs DEF IInv
  <2> QED BY <2>1 DEF VersionsGapless, Gapless
<1>8. DocumentsOwn'
  BY <1>2 DEF IInv, DocumentsOwn, HasContent
<1>9. QueueBacked'
  <2>1. ASSUME NEW p \in Proposal, queue'[p] > 0
        PROVE  Backed(versions', p)
    <3>1. CASE queue[p] > 0
      BY <1>2, <3>1, BackedGrows DEF IInv, QueueBacked
    <3>2. CASE p \in Quoted(x, c, n)
      <4>1. p.source = x /\ ~p.derived /\ p.version = n /\ p.statement \in Quotes[c]
        BY <3>2, QuotedFacts
      <4>2. new \in versions'[x] /\ new.number = n /\ new.content = c
        BY <1>2
      <4> QED BY <4>1, <4>2 DEF Backed
    <3> QED BY <1>5, <2>1, <3>1, <3>2
  <2> QED BY <2>1 DEF QueueBacked
<1>10. Sound(versions', queue', h)
  <2>1. CASE h = Idle
    BY <2>1, IdleFacts
  <2>2. CASE h = [at |-> "offering", on |-> x, content |-> c]
    <3>1. HasContent(versions', x, c)
      <4>1. new \in versions'[x] /\ new.content = c
        BY <1>2
      <4> QED BY <4>1 DEF HasContent
    <3>2. h.at = "offering" /\ h.on = x /\ h.content = c
      BY <2>2
    <3> QED BY <3>1, <3>2 DEF Sound
  <2> QED BY <2>1, <2>2
<1> QED BY <1>2, <1>3, <1>5, <1>7, <1>8, <1>9, <1>10, Advances

-----------------------------------------------------------------------------
(* The actions, one lemma each where the handler has something to rely on. *)

LEMMA CaptureKeeps ==
  ASSUME IInv, NEW s \in Request, NEW x \in Source, NEW c \in Content, Capture(s, x, c)
  PROVE  IInv'
<1> DEFINE h == [at |-> "offering", on |-> x, content |-> c]
<1>1. h \in Handler
  BY DEF Handler
<1>2. KeysFree(x, c, 1)
  BY DEF Capture, Captured, KeysFree
<1>3. /\ AddVersion(x, c, 1) /\ UNCHANGED document
      /\ request' = [request EXCEPT ![s] = h]
  BY DEF Capture, Goes
<1>4. 1 \in 1..MaxVersions
  BY SourcesAssumption
<1> QED BY <1>1, <1>2, <1>3, <1>4, Adds

LEMMA OfferKeeps ==
  ASSUME IInv, NEW s \in Request, OfferAccepted(s)
  PROVE  IInv'
<1>1. TypeOK
  BY DEF IInv
<1>2. /\ request[s].on \in Source /\ request[s].content \in Content
      /\ HasContent(versions, request[s].on, request[s].content)
  BY <1>1, RequestFacts DEF OfferAccepted, IsAt, IInv, HandlersSound, Sound
<1>3. /\ document' = [document EXCEPT ![request[s].on] = request[s].content]
      /\ UNCHANGED <<versions, queue>>
      /\ request' = [request EXCEPT ![s] = Idle]
  BY DEF OfferAccepted, Goes
<1>4. document' \in [Source -> Content \cup {NoDocument}]
  BY <1>1, <1>2, <1>3 DEF TypeOK
<1>5. DocumentsOwn'
  BY <1>1, <1>2, <1>3 DEF IInv, TypeOK, DocumentsOwn, HasContent
<1>6. VersionsGapless' /\ QueueBacked'
  BY <1>3 DEF IInv, VersionsGapless, QueueBacked
<1>7. /\ versions' \in [Source -> SUBSET Version]
      /\ queue' \in [Proposal -> Nat]
      /\ \A x \in Source : versions[x] \subseteq versions'[x]
      /\ \A p \in Proposal : queue[p] > 0 => queue'[p] > 0
  BY <1>1, <1>3 DEF TypeOK
<1>8. Idle \in Handler /\ Sound(versions', queue', Idle)
  BY IdleFacts
<1> QED BY <1>3, <1>4, <1>5, <1>6, <1>7, <1>8, Advances

LEMMA ReadNumberKeeps ==
  ASSUME IInv, NEW s \in Request, ReadNumber(s)
  PROVE  IInv'
<1> DEFINE x == request[s].on
           h == [at |-> "numbered", on |-> x, content |-> request[s].content,
                 number |-> NextNumber(x)]
<1>1. TypeOK /\ VersionsGapless /\ IsAt(s, "fresh")
  BY DEF IInv, ReadNumber
<1>2. x \in Source /\ request[s].content \in Content
  BY <1>1, RequestFacts DEF IsAt
<1>3. Captured(x)
  BY <1>1 DEF IsAt, IInv, HandlersSound, Sound, Captured
<1>4. Newest(x) \in 1..MaxVersions /\ \E v \in versions[x] : v.number = Newest(x)
  BY <1>1, <1>2, <1>3, NewestFacts
<1>5. Newest(x) < MaxVersions
  BY DEF ReadNumber
<1>6. NextNumber(x) \in 2..MaxVersions
  BY <1>4, <1>5, SourcesAssumption DEF NextNumber
<1>7. h \in Handler
  BY <1>2, <1>6 DEF Handler
<1>8. \E v \in versions[x] : NextNumber(x) <= v.number + 1
  BY <1>4, SourcesAssumption DEF NextNumber
<1>9. Sound(versions, queue, h)
  BY <1>8 DEF Sound
<1>10. UNCHANGED <<versions, document, queue>> /\ request' = [request EXCEPT ![s] = h]
  BY DEF ReadNumber, Goes
<1> QED BY <1>7, <1>9, <1>10, Moves

LEMMA CommitVersionKeeps ==
  ASSUME IInv, NEW s \in Request, CommitVersion(s)
  PROVE  IInv'
<1>1. TypeOK /\ IsAt(s, "numbered")
  BY DEF IInv, CommitVersion
<1>2. /\ request[s].on \in Source /\ request[s].content \in Content
      /\ request[s].number \in 1..MaxVersions
  BY <1>1, RequestFacts DEF IsAt
<1>3. \E v \in versions[request[s].on] : request[s].number <= v.number + 1
  BY <1>1 DEF IsAt, IInv, HandlersSound, Sound
<1>4. /\ KeysFree(request[s].on, request[s].content, request[s].number)
      /\ AddVersion(request[s].on, request[s].content, request[s].number)
      /\ UNCHANGED document
      /\ request' = [request EXCEPT ![s] = Idle]
  BY DEF CommitVersion, Goes
<1> QED BY <1>2, <1>3, <1>4, IdleFacts, Adds

\* A sync begins with facts of a content that the source has a version of.
LEMMA AskEngineKeeps ==
  ASSUME IInv, NEW s \in Request, NEW facts \in SUBSET Statement, AskEngine(s, facts)
  PROVE  IInv'
<1> DEFINE x == request[s].on
           h == [at |-> "syncing", on |-> x, facts |-> facts, left |-> facts, made |-> {}]
<1>1. TypeOK /\ IsAt(s, "asking")
  BY DEF IInv, AskEngine
<1>2. x \in Source /\ HasContent(versions, x, request[s].document)
  BY <1>1, RequestFacts DEF IsAt, IInv, HandlersSound, Sound
<1>3. facts \subseteq Infers[request[s].document]
  BY DEF AskEngine, FactsOf
<1>4. UNCHANGED <<versions, document, queue>>
  BY DEF AskEngine
<1>5. CASE facts = {}
  <2>1. request' = [request EXCEPT ![s] = Idle]
    BY <1>5 DEF AskEngine, Goes
  <2> QED BY <1>4, <2>1, IdleFacts, Moves
<1>6. CASE facts # {}
  <2>1. request' = [request EXCEPT ![s] = h]
    BY <1>6 DEF AskEngine, Goes
  <2>2. h \in Handler
    BY <1>2 DEF Handler
  <2>3. \A t \in facts : Inferred(versions, x, t)
    BY <1>2, <1>3 DEF HasContent, Inferred
  <2>4. versions[x] # {}
    BY <1>2 DEF HasContent
  <2>5. /\ h.at = "syncing" /\ h.on = x /\ h.facts = facts
        /\ h.left = facts /\ h.made = {}
    OBVIOUS
  <2>6. Sound(versions, queue, h)
    <3> HIDE DEF h
    <3> QED BY <2>3, <2>4, <2>5 DEF Sound
  <2> QED BY <1>4, <2>1, <2>2, <2>6, Moves
<1> QED BY <1>5, <1>6

LEMMA SkipFactKeeps ==
  ASSUME IInv, NEW s \in Request, NEW t \in Statement, SkipFact(s, t)
  PROVE  IInv'
<1> DEFINE r == request[s]
           h == [r EXCEPT !.left = @ \ {t}]
<1>1. TypeOK /\ IsAt(s, "syncing")
  BY DEF IInv, SkipFact
<1>2. r \in [at : {"syncing"}, on : Source, facts : SUBSET Statement,
              left : SUBSET Statement, made : SUBSET Proposal]
  BY <1>1, RequestFacts
<1>3. Sound(versions, queue, r)
  BY DEF IInv, HandlersSound
<1>4. Already(r.on, t)
  BY DEF SkipFact
<1>5. /\ h.at = "syncing" /\ h.on = r.on /\ h.facts = r.facts
      /\ h.left = r.left \ {t} /\ h.made = r.made /\ r.at = "syncing"
  BY <1>2
<1>6. h \in [at : {"syncing"}, on : Source, facts : SUBSET Statement,
              left : SUBSET Statement, made : SUBSET Proposal]
  BY <1>2
<1>7. h \in Handler
  BY <1>6 DEF Handler
<1>8. \A u \in h.facts \ h.left : Handled(queue, h, u)
  <2> TAKE u \in h.facts \ h.left
  <2>1. CASE u = t
    BY <1>4, <1>5, <2>1 DEF Already, Handled
  <2>2. CASE u # t
    <3>1. Handled(queue, r, u)
      BY <1>3, <1>5, <2>2 DEF Sound
    <3> QED BY <1>5, <3>1 DEF Handled
  <2> QED BY <2>1, <2>2
<1>9. Sound(versions, queue, h)
  <2> HIDE DEF h, r
  <2> QED BY <1>3, <1>5, <1>8 DEF Sound
<1>10. UNCHANGED <<versions, document, queue>> /\ request' = [request EXCEPT ![s] = h]
  BY DEF SkipFact, Goes
<1> QED BY <1>7, <1>9, <1>10, Moves

LEMMA ProposeFactKeeps ==
  ASSUME IInv, NEW s \in Request, NEW t \in Statement, ProposeFact(s, t)
  PROVE  IInv'
<1> DEFINE r == request[s]
           h == [at |-> "pinning", on |-> r.on, facts |-> r.facts,
                 left |-> r.left \ {t}, made |-> r.made, fact |-> t]
<1>1. TypeOK /\ IsAt(s, "syncing") /\ t \in r.left
  BY DEF IInv, ProposeFact
<1>2. r \in [at : {"syncing"}, on : Source, facts : SUBSET Statement,
              left : SUBSET Statement, made : SUBSET Proposal]
  BY <1>1, RequestFacts
<1>3. Sound(versions, queue, r)
  BY DEF IInv, HandlersSound
<1>4. h \in Handler
  BY <1>2 DEF Handler
<1>5. /\ h.at = "pinning" /\ h.on = r.on /\ h.facts = r.facts /\ h.fact = t
      /\ h.left = r.left \ {t} /\ h.made = r.made /\ r.at = "syncing"
  BY <1>2
<1>6. \A u \in h.facts \ h.left : u = h.fact \/ Handled(queue, h, u)
  <2> TAKE u \in h.facts \ h.left
  <2>1. u # t => Handled(queue, r, u)
    BY <1>3, <1>5 DEF Sound
  <2> QED BY <1>5, <2>1 DEF Handled
<1>7. Sound(versions, queue, h)
  <2> HIDE DEF h, r
  <2> QED BY <1>1, <1>3, <1>5, <1>6 DEF Sound
<1>8. UNCHANGED <<versions, document, queue>> /\ request' = [request EXCEPT ![s] = h]
  BY DEF ProposeFact, Goes
<1> QED BY <1>4, <1>7, <1>8, Moves

\* The evidence is a committed version, and the fact one of the source's own.
LEMMA PinFactKeeps ==
  ASSUME IInv, NEW s \in Request, PinFact(s)
  PROVE  IInv'
<1> DEFINE r == request[s]
           p == [source |-> r.on, statement |-> r.fact, derived |-> TRUE,
                 version |-> Newest(r.on)]
           h == [at |-> "syncing", on |-> r.on, facts |-> r.facts,
                 left |-> r.left, made |-> r.made \cup {p}]
<1>1. TypeOK /\ VersionsGapless /\ IsAt(s, "pinning") /\ r.at = "pinning"
  BY DEF IInv, PinFact, IsAt
<1>2. /\ r.on \in Source /\ r.fact \in Statement
      /\ r.facts \in SUBSET Statement /\ r.left \in SUBSET Statement
      /\ r.made \in SUBSET Proposal
  BY <1>1, RequestFacts DEF IsAt
<1>3. Sound(versions, queue, r)
  BY DEF IInv, HandlersSound
<1>4. Captured(r.on)
  BY <1>1, <1>3 DEF Sound, Captured
<1>5. Newest(r.on) \in 1..MaxVersions /\ \E v \in versions[r.on] : v.number = Newest(r.on)
  BY <1>1, <1>2, <1>4, NewestFacts
<1>6. p \in Proposal
  BY <1>2, <1>5 DEF Proposal
<1>7. /\ p.source = r.on /\ p.statement = r.fact /\ p.derived = TRUE
      /\ p.version = Newest(r.on)
  OBVIOUS
<1>8. Backed(versions, p)
  <2>1. Inferred(versions, r.on, r.fact)
    BY <1>1, <1>3 DEF Sound
  <2> HIDE DEF p
  <2> QED BY <1>5, <1>7, <2>1 DEF Backed
<1>9. h \in Handler
  <2> HIDE DEF p
  <2> QED BY <1>2, <1>6 DEF Handler
<1>10. /\ h.at = "syncing" /\ h.on = r.on /\ h.facts = r.facts
       /\ h.left = r.left /\ h.made = r.made \cup {p}
  OBVIOUS
<1>11. \A u \in h.facts \ h.left : Handled(queue, h, u)
  <2> TAKE u \in h.facts \ h.left
  <2>1. u = r.fact \/ Handled(queue, r, u)
    BY <1>1, <1>3, <1>10 DEF Sound
  <2>2. p \in h.made
    BY <1>10
  <2> HIDE DEF p, h
  <2> QED BY <1>6, <1>7, <1>10, <2>1, <2>2 DEF Handled
<1>12. Sound(versions, queue, h)
  <2> HIDE DEF p, h, r
  <2>1. \A q \in h.made : q.source = h.on /\ q.derived /\ Backed(versions, q)
    BY <1>1, <1>3, <1>7, <1>8, <1>10 DEF Sound
  <2> QED BY <1>1, <1>3, <1>10, <1>11, <2>1 DEF Sound
<1>13. UNCHANGED <<versions, document, queue>> /\ request' = [request EXCEPT ![s] = h]
  BY DEF PinFact, Goes
<1> QED BY <1>9, <1>12, <1>13, Moves

LEMMA CommitSyncKeeps ==
  ASSUME IInv, NEW s \in Request, CommitSync(s)
  PROVE  IInv'
<1>1. TypeOK /\ request[s].at = "syncing"
  BY DEF IInv, CommitSync, IsAt
<1>2. request[s].made \in SUBSET Proposal
  BY <1>1, RequestFacts
<1>3. \A p \in request[s].made : Backed(versions, p)
  BY <1>1 DEF IInv, HandlersSound, Sound
<1>4. /\ Enqueue(request[s].made) /\ UNCHANGED <<versions, document>>
      /\ request' = [request EXCEPT ![s] = Idle]
  BY DEF CommitSync, Goes
<1>5. /\ queue' \in [Proposal -> Nat]
      /\ \A p \in Proposal : queue[p] > 0 => queue'[p] > 0
      /\ \A p \in Proposal : queue'[p] > 0 => queue[p] > 0 \/ p \in request[s].made
  BY <1>1, <1>2, <1>4, EnqueueFacts
<1>6. QueueBacked'
  BY <1>3, <1>4, <1>5 DEF IInv, QueueBacked
<1>7. VersionsGapless' /\ DocumentsOwn'
  BY <1>4 DEF IInv, VersionsGapless, DocumentsOwn
<1>8. /\ versions' \in [Source -> SUBSET Version]
      /\ document' \in [Source -> Content \cup {NoDocument}]
      /\ \A x \in Source : versions[x] \subseteq versions'[x]
  BY <1>1, <1>4 DEF TypeOK
<1>9. Idle \in Handler /\ Sound(versions', queue', Idle)
  BY IdleFacts
<1> QED BY <1>4, <1>5, <1>6, <1>7, <1>8, <1>9, Advances

\* The steps that only look something up or give up.
LEMMA OthersKeep ==
  ASSUME IInv, NEW s \in Request
  PROVE  /\ \A x \in Source, c \in Content : CheckContent(s, x, c) => IInv'
         /\ \A x \in Source : LoadSource(s, x) => IInv'
         /\ VersionClashes(s) => IInv'
         /\ Dies(s) => IInv'
<1>1. ASSUME NEW x \in Source, NEW c \in Content, CheckContent(s, x, c)
      PROVE  IInv'
  <2> DEFINE h == [at |-> "fresh", on |-> x, content |-> c]
  <2>1. h \in Handler
    BY DEF Handler
  <2>2. versions[x] # {}
    BY <1>1 DEF CheckContent, Captured
  <2>3. Sound(versions, queue, h)
    BY <2>2 DEF Sound
  <2>4. UNCHANGED <<versions, document, queue>> /\ request' = [request EXCEPT ![s] = h]
    BY <1>1 DEF CheckContent, Goes
  <2> QED BY <2>1, <2>3, <2>4, Moves
<1>2. ASSUME NEW x \in Source, LoadSource(s, x)
      PROVE  IInv'
  <2> DEFINE h == [at |-> "asking", on |-> x, document |-> document[x]]
  <2>1. document[x] \in Content /\ HasContent(versions, x, document[x])
    BY <1>2 DEF LoadSource, IInv, TypeOK, DocumentsOwn
  <2>2. h \in Handler
    BY <2>1 DEF Handler
  <2>3. Sound(versions, queue, h)
    BY <2>1 DEF Sound
  <2>4. UNCHANGED <<versions, document, queue>> /\ request' = [request EXCEPT ![s] = h]
    BY <1>2 DEF LoadSource, Goes
  <2> QED BY <2>2, <2>3, <2>4, Moves
<1>3. ASSUME VersionClashes(s)
      PROVE  IInv'
  <2>1. UNCHANGED <<versions, document, queue>> /\ request' = [request EXCEPT ![s] = Idle]
    BY <1>3 DEF VersionClashes, Goes
  <2> QED BY <2>1, IdleFacts, Moves
<1>4. ASSUME Dies(s)
      PROVE  IInv'
  <2>1. UNCHANGED <<versions, document, queue>> /\ request' = [request EXCEPT ![s] = Idle]
    BY <1>4 DEF Dies, Goes
  <2> QED BY <2>1, IdleFacts, Moves
<1> QED BY <1>1, <1>2, <1>3, <1>4

LEMMA NextKeeps == IInv /\ [Next]_vars => IInv'
<1> SUFFICES ASSUME IInv, [Next]_vars PROVE IInv'
  OBVIOUS
<1>1. CASE UNCHANGED vars
  <2>1. UNCHANGED <<versions, document, queue, request>>
    BY <1>1 DEF vars
  <2> QED BY <2>1 DEF IInv, TypeOK, VersionsGapless, DocumentsOwn, QueueBacked, HandlersSound
<1>2. CASE \E s \in Request, x \in Source, c \in Content : Capture(s, x, c)
  BY <1>2, CaptureKeeps
<1>3. CASE \E s \in Request : OfferAccepted(s)
  BY <1>3, OfferKeeps
<1>4. CASE \E s \in Request : ReadNumber(s)
  BY <1>4, ReadNumberKeeps
<1>5. CASE \E s \in Request : CommitVersion(s)
  BY <1>5, CommitVersionKeeps
<1>6. CASE \E s \in Request, facts \in SUBSET Statement : AskEngine(s, facts)
  BY <1>6, AskEngineKeeps
<1>7. CASE \E s \in Request, t \in Statement : SkipFact(s, t)
  BY <1>7, SkipFactKeeps
<1>8. CASE \E s \in Request, t \in Statement : ProposeFact(s, t)
  BY <1>8, ProposeFactKeeps
<1>9. CASE \E s \in Request : PinFact(s)
  BY <1>9, PinFactKeeps
<1>10. CASE \E s \in Request : CommitSync(s)
  BY <1>10, CommitSyncKeeps
<1>11. CASE \E s \in Request, x \in Source, c \in Content : CheckContent(s, x, c)
  BY <1>11, OthersKeep
<1>12. CASE \E s \in Request, x \in Source : LoadSource(s, x)
  BY <1>12, OthersKeep
<1>13. CASE \E s \in Request : VersionClashes(s) \/ Dies(s)
  BY <1>13, OthersKeep
<1> QED BY <1>1, <1>2, <1>3, <1>4, <1>5, <1>6, <1>7, <1>8, <1>9, <1>10, <1>11, <1>12,
           <1>13 DEF Next

LEMMA Invariance == Spec => []IInv
<1>1. Init => IInv
  BY InitIInv
<1>2. IInv /\ [Next]_vars => IInv'
  BY NextKeeps
<1> QED BY <1>1, <1>2, PTL DEF Spec

-----------------------------------------------------------------------------
(* How often a fact is drawn.  A sync proposes a fact only while the queue  *)
(* has no copy of it, so the requests that hold one and the copies that     *)
(* were committed are together no more than there are requests.             *)

\* The request at r holds a proposal of t for x that is not committed.
Draws(r, x, t) ==
  /\ r.at \in {"syncing", "pinning"} /\ r.on = x
  /\ \/ r.at = "pinning" /\ r.fact = t
     \/ \E p \in r.made : p.statement = t

Drawing(x, t) == {s \in Request : Draws(request[s], x, t)}

\* One request proposes a fact once.
OncePerFact(r) ==
  /\ r.at \in {"syncing", "pinning"} =>
       /\ \A p, q \in r.made : p.statement = q.statement => p = q
       /\ \A p \in r.made : p.statement \notin r.left
  /\ r.at = "pinning" =>
       /\ r.fact \notin r.left
       /\ \A p \in r.made : p.statement # r.fact

DrawnOnce == \A s \in Request : OncePerFact(request[s])

Room(x, t) ==
  /\ IsFiniteSet(Copies(x, t))
  /\ Cardinality(Copies(x, t)) + Cardinality(Drawing(x, t)) <= Cardinality(Request)

DrawInv == DrawnOnce /\ \A x \in Source, t \in Statement : Room(x, t)


LEMMA DrawingFinite ==
  ASSUME NEW x, NEW t
  PROVE  /\ IsFiniteSet(Drawing(x, t))
         /\ Cardinality(Drawing(x, t)) \in Nat
         /\ Cardinality(Request) \in Nat
         /\ Cardinality(Drawing(x, t)) <= Cardinality(Request)
<1>1. Drawing(x, t) \subseteq Request
  BY DEF Drawing
<1> QED BY <1>1, SourcesAssumption, FS_Subset, FS_CardinalityType

\* Who is not drawing any more leaves room, as long as no copy is added.
LEMMA RoomStays ==
  ASSUME NEW x \in Source, NEW t \in Statement, Room(x, t),
         \A p \in Proposal :
           p.derived /\ p.source = x /\ p.statement = t => queue'[p] = queue[p],
         \A s \in Request : Draws(request'[s], x, t) => Draws(request[s], x, t)
  PROVE  Room(x, t)'
<1>1. Copies(x, t)' = Copies(x, t)
  BY DEF Copies
<1>2. Drawing(x, t)' \subseteq Drawing(x, t)
  BY DEF Drawing
<1>3. /\ IsFiniteSet(Drawing(x, t)')
      /\ Cardinality(Drawing(x, t)') <= Cardinality(Drawing(x, t))
  BY <1>2, DrawingFinite, FS_Subset
<1>4. /\ Cardinality(Drawing(x, t)') \in Nat /\ Cardinality(Drawing(x, t)) \in Nat
      /\ Cardinality(Copies(x, t)) \in Nat /\ Cardinality(Request) \in Nat
  BY <1>3, DrawingFinite, FS_CardinalityType DEF Room
<1> QED BY <1>1, <1>3, <1>4 DEF Room

\* A fact the queue has no copy of has room for every request.
LEMMA RoomForAll ==
  ASSUME TypeOK', NEW x \in Source, NEW t \in Statement,
         \A p \in Proposal : p.source = x /\ p.statement = t => queue'[p] = 0
  PROVE  Room(x, t)'
<1>1. \A p \in {q \in Proposal : q.source = x /\ q.statement = t /\ q.derived} :
        {p} \X (1..queue'[p]) = {}
  <2> TAKE p \in {q \in Proposal : q.source = x /\ q.statement = t /\ q.derived}
  <2>1. 1..queue'[p] = {}
    OBVIOUS
  <2> QED BY <2>1
<1>2. Copies(x, t)' = {}
  BY <1>1 DEF Copies
<1>3. IsFiniteSet({}) /\ Cardinality({}) = 0
  BY FS_EmptySet
<1>4. Drawing(x, t)' \subseteq Request
  BY DEF Drawing
<1>5. /\ Cardinality(Drawing(x, t)') \in Nat
      /\ Cardinality(Drawing(x, t)') <= Cardinality(Request)
  BY <1>4, SourcesAssumption, FS_Subset, FS_CardinalityType
<1> QED BY <1>2, <1>3, <1>5 DEF Room

\* The proposal of a request turns into one more copy, and the request is done.
LEMMA RoomTurns ==
  ASSUME TypeOK, NEW x \in Source, NEW t \in Statement, Room(x, t),
         NEW s \in Request, Draws(request[s], x, t),
         \A z \in Request : Draws(request'[z], x, t) => z # s /\ Draws(request[z], x, t),
         NEW p \in Proposal, p.source = x, p.statement = t, p.derived,
         queue'[p] = queue[p] + 1,
         \A q \in Proposal : q # p /\ q.source = x /\ q.statement = t => queue'[q] = queue[q]
  PROVE  Room(x, t)'
<1> DEFINE Of == {q \in Proposal : q.source = x /\ q.statement = t /\ q.derived}
           last == <<p, queue[p] + 1>>
<1>1. Copies(x, t)' = Copies(x, t) \cup {last} /\ last \notin Copies(x, t)
  <2>1. queue[p] \in Nat
    BY DEF TypeOK
  <2>2. {p} \X (1..queue'[p]) = ({p} \X (1..queue[p])) \cup {last}
    <3>1. 1..queue'[p] = (1..queue[p]) \cup {queue[p] + 1}
      BY <2>1
    <3> QED BY <3>1
  <2>3. p \in Of /\ \A q \in Of : q # p => queue'[q] = queue[q]
    OBVIOUS
  <2>4. Copies(x, t) = UNION {{q} \X (1..queue[q]) : q \in Of}
    BY DEF Copies
  <2>5. Copies(x, t)' = UNION {{q} \X (1..queue'[q]) : q \in Of}
    BY DEF Copies
  <2>6. ASSUME NEW c \in Copies(x, t)'
        PROVE  c \in Copies(x, t) \cup {last}
    <3> HIDE DEF Of, last
    <3>1. PICK q \in Of : c \in {q} \X (1..queue'[q])
      BY <2>5, <2>6
    <3>2. CASE q = p
      BY <2>2, <2>3, <2>4, <3>1, <3>2
    <3>3. CASE q # p
      BY <2>3, <2>4, <3>1, <3>3
    <3> QED BY <3>2, <3>3
  <2>7. ASSUME NEW c \in Copies(x, t) \cup {last}
        PROVE  c \in Copies(x, t)'
    <3> HIDE DEF Of, last
    <3>1. CASE c = last
      BY <2>2, <2>3, <2>5, <3>1
    <3>2. CASE c \in Copies(x, t)
      <4>1. PICK q \in Of : c \in {q} \X (1..queue[q])
        BY <2>4, <3>2
      <4>2. CASE q = p
        BY <2>2, <2>3, <2>5, <4>1, <4>2
      <4>3. CASE q # p
        BY <2>3, <2>5, <4>1, <4>3
      <4> QED BY <4>2, <4>3
    <3> QED BY <2>7, <3>1, <3>2
  <2>8. last \notin Copies(x, t)
    <3> SUFFICES ASSUME last \in Copies(x, t) PROVE FALSE
      OBVIOUS
    <3>1. PICK q \in Of : last \in {q} \X (1..queue[q])
      BY <2>4
    <3>2. q = p /\ queue[p] + 1 \in 1..queue[q]
      BY <3>1
    <3> QED BY <2>1, <3>2
  <2> HIDE DEF Of, last
  <2> QED BY <2>6, <2>7, <2>8
<1>2. /\ IsFiniteSet(Copies(x, t)')
      /\ Cardinality(Copies(x, t)') = Cardinality(Copies(x, t)) + 1
  <2> HIDE DEF last
  <2> DEFINE S == Copies(x, t)
  <2>1. IsFiniteSet(S)
    BY DEF Room
  <2> HIDE DEF S
  <2>2. /\ IsFiniteSet(S \cup {last})
        /\ last \notin S => Cardinality(S \cup {last}) = Cardinality(S) + 1
    BY <2>1, FS_AddElement
  <2> QED BY <1>1, <2>2 DEF S
<1>3. s \in Drawing(x, t) /\ Drawing(x, t)' \subseteq Drawing(x, t) \ {s}
  BY DEF Drawing
<1>4. /\ IsFiniteSet(Drawing(x, t) \ {s})
      /\ Cardinality(Drawing(x, t) \ {s}) = Cardinality(Drawing(x, t)) - 1
  BY <1>3, DrawingFinite, FS_RemoveElement
<1>5. /\ IsFiniteSet(Drawing(x, t)')
      /\ Cardinality(Drawing(x, t)') <= Cardinality(Drawing(x, t)) - 1
  BY <1>3, <1>4, FS_Subset
<1>6. /\ Cardinality(Drawing(x, t)') \in Nat /\ Cardinality(Drawing(x, t)) \in Nat
      /\ Cardinality(Copies(x, t)) \in Nat /\ Cardinality(Request) \in Nat
  BY <1>5, DrawingFinite, FS_CardinalityType DEF Room
<1> QED BY <1>2, <1>5, <1>6 DEF Room

-----------------------------------------------------------------------------
\* A handler goes to h, which draws nothing that its request did not draw.
LEMMA DrawsLess ==
  ASSUME IInv, DrawInv, NEW s \in Request, NEW h,
         request' = [request EXCEPT ![s] = h],
         OncePerFact(h),
         \A x \in Source, t \in Statement : Draws(h, x, t) => Draws(request[s], x, t),
         \A p \in Proposal : p.derived => queue'[p] = queue[p]
  PROVE  DrawInv'
<1>1. \A z \in Request : request'[z] = IF z = s THEN h ELSE request[z]
  BY DEF IInv, TypeOK
<1>2. DrawnOnce'
  BY <1>1 DEF DrawInv, DrawnOnce
<1>3. \A x \in Source, t \in Statement : Room(x, t)'
  <2> TAKE x \in Source, t \in Statement
  <2>1. Room(x, t)
    BY DEF DrawInv
  <2>2. \A z \in Request : Draws(request'[z], x, t) => Draws(request[z], x, t)
    BY <1>1
  <2> QED BY <2>1, <2>2, RoomStays
<1> QED BY <1>2, <1>3 DEF DrawInv

\* A handler that is at no stage of a sync draws nothing.
LEMMA NotSyncing ==
  ASSUME NEW h, h.at \notin {"syncing", "pinning"}
  PROVE  OncePerFact(h) /\ \A x, t : ~Draws(h, x, t)
BY DEF OncePerFact, Draws

LEMMA InitDrawInv == Init => DrawInv
<1> SUFFICES ASSUME Init PROVE DrawInv
  OBVIOUS
<1>1. \A s \in Request : request[s] = Idle
  BY DEF Init
<1>2. Idle.at \notin {"syncing", "pinning"}
  BY DEF Idle
<1>3. DrawnOnce
  BY <1>1, <1>2, NotSyncing DEF DrawnOnce
<1>4. ASSUME NEW x \in Source, NEW t \in Statement
      PROVE  Room(x, t)
  <2>1. \A p \in {q \in Proposal : q.source = x /\ q.statement = t /\ q.derived} :
          {p} \X (1..queue[p]) = {}
    <3> TAKE p \in {q \in Proposal : q.source = x /\ q.statement = t /\ q.derived}
    <3>1. 1..queue[p] = {}
      BY DEF Init
    <3> QED BY <3>1
  <2>2. Copies(x, t) = {}
    BY <2>1 DEF Copies
  <2> QED BY <2>2, DrawingFinite, FS_EmptySet DEF Room
<1> QED BY <1>3, <1>4 DEF DrawInv

\* Versions are added with proposals that are quoted, none of them derived.
LEMMA AddsNoCopy ==
  ASSUME TypeOK, NEW x \in Source, NEW c \in Content, NEW n \in 1..MaxVersions,
         AddVersion(x, c, n)
  PROVE  \A p \in Proposal : p.derived => queue'[p] = queue[p]
<1>1. \A p \in Quoted(x, c, n) : ~p.derived
  BY QuotedFacts
<1>2. \A p \in Proposal : queue[p] \in Nat
  BY DEF TypeOK
<1> QED BY <1>1, <1>2 DEF AddVersion, Enqueue

\* Every step but those of a sync leaves the request with nothing in hand.
LEMMA DrawKeptOutside ==
  ASSUME IInv, DrawInv, NEW s \in Request
  PROVE  /\ \A x \in Source, c \in Content : Capture(s, x, c) => DrawInv'
         /\ OfferAccepted(s) => DrawInv'
         /\ \A x \in Source, c \in Content : CheckContent(s, x, c) => DrawInv'
         /\ ReadNumber(s) => DrawInv'
         /\ CommitVersion(s) => DrawInv'
         /\ VersionClashes(s) => DrawInv'
         /\ \A x \in Source : LoadSource(s, x) => DrawInv'
         /\ Dies(s) => DrawInv'
<1>1. ASSUME NEW h, h.at \notin {"syncing", "pinning"},
             request' = [request EXCEPT ![s] = h],
             \A p \in Proposal : p.derived => queue'[p] = queue[p]
      PROVE  DrawInv'
  BY <1>1, NotSyncing, DrawsLess
<1>2. Idle.at \notin {"syncing", "pinning"}
  BY DEF Idle
<1>3. TypeOK
  BY DEF IInv
<1>4. ASSUME NEW x \in Source, NEW c \in Content, Capture(s, x, c)
      PROVE  DrawInv'
  <2> DEFINE h == [at |-> "offering", on |-> x, content |-> c]
  <2>1. AddVersion(x, c, 1) /\ request' = [request EXCEPT ![s] = h]
    BY <1>4 DEF Capture, Goes
  <2>2. 1 \in 1..MaxVersions
    BY SourcesAssumption
  <2>3. \A p \in Proposal : p.derived => queue'[p] = queue[p]
    BY <1>3, <2>1, <2>2, AddsNoCopy
  <2>4. h.at \notin {"syncing", "pinning"}
    OBVIOUS
  <2> HIDE DEF h
  <2> QED BY <1>1, <2>1, <2>3, <2>4
<1>5. ASSUME OfferAccepted(s)
      PROVE  DrawInv'
  BY <1>1, <1>2, <1>5 DEF OfferAccepted, Goes
<1>6. ASSUME NEW x \in Source, NEW c \in Content, CheckContent(s, x, c)
      PROVE  DrawInv'
  <2> DEFINE h == [at |-> "fresh", on |-> x, content |-> c]
  <2>1. request' = [request EXCEPT ![s] = h] /\ queue' = queue
    BY <1>6 DEF CheckContent, Goes
  <2>2. h.at \notin {"syncing", "pinning"}
    OBVIOUS
  <2> HIDE DEF h
  <2> QED BY <1>1, <2>1, <2>2
<1>7. ASSUME ReadNumber(s)
      PROVE  DrawInv'
  <2> DEFINE h == [at |-> "numbered", on |-> request[s].on, content |-> request[s].content,
                   number |-> NextNumber(request[s].on)]
  <2>1. request' = [request EXCEPT ![s] = h] /\ queue' = queue
    BY <1>7 DEF ReadNumber, Goes
  <2>2. h.at \notin {"syncing", "pinning"}
    OBVIOUS
  <2> HIDE DEF h
  <2> QED BY <1>1, <2>1, <2>2
<1>8. ASSUME CommitVersion(s)
      PROVE  DrawInv'
  <2>1. IsAt(s, "numbered")
    BY <1>8 DEF CommitVersion
  <2>2. /\ request[s].on \in Source /\ request[s].content \in Content
        /\ request[s].number \in 1..MaxVersions
    BY <1>3, <2>1, RequestFacts DEF IsAt
  <2>3. /\ AddVersion(request[s].on, request[s].content, request[s].number)
        /\ request' = [request EXCEPT ![s] = Idle]
    BY <1>8 DEF CommitVersion, Goes
  <2>4. \A p \in Proposal : p.derived => queue'[p] = queue[p]
    BY <1>3, <2>2, <2>3, AddsNoCopy
  <2> QED BY <1>1, <1>2, <2>3, <2>4
<1>9. ASSUME VersionClashes(s)
      PROVE  DrawInv'
  BY <1>1, <1>2, <1>9 DEF VersionClashes, Goes
<1>10. ASSUME NEW x \in Source, LoadSource(s, x)
       PROVE  DrawInv'
  <2> DEFINE h == [at |-> "asking", on |-> x, document |-> document[x]]
  <2>1. request' = [request EXCEPT ![s] = h] /\ queue' = queue
    BY <1>10 DEF LoadSource, Goes
  <2>2. h.at \notin {"syncing", "pinning"}
    OBVIOUS
  <2> HIDE DEF h
  <2> QED BY <1>1, <2>1, <2>2
<1>11. ASSUME Dies(s)
       PROVE  DrawInv'
  BY <1>1, <1>2, <1>11 DEF Dies, Goes
<1> QED BY <1>4, <1>5, <1>6, <1>7, <1>8, <1>9, <1>10, <1>11

\* A sync begins with nothing in hand.
LEMMA AskEngineDraws ==
  ASSUME IInv, DrawInv, NEW s \in Request, NEW facts \in SUBSET Statement, AskEngine(s, facts)
  PROVE  DrawInv'
<1> DEFINE h == [at |-> "syncing", on |-> request[s].on,
                 facts |-> facts, left |-> facts, made |-> {}]
<1>1. \A p \in Proposal : p.derived => queue'[p] = queue[p]
  BY DEF AskEngine
<1>2. CASE facts = {}
  <2>1. request' = [request EXCEPT ![s] = Idle]
    BY <1>2 DEF AskEngine, Goes
  <2>2. OncePerFact(Idle) /\ \A x, t : ~Draws(Idle, x, t)
    BY NotSyncing DEF Idle
  <2> QED BY <1>1, <2>1, <2>2, DrawsLess
<1>3. CASE facts # {}
  <2>1. request' = [request EXCEPT ![s] = h]
    BY <1>3 DEF AskEngine, Goes
  <2>2. h.at = "syncing" /\ h.made = {}
    OBVIOUS
  <2> HIDE DEF h
  <2>3. OncePerFact(h) /\ \A x, t : ~Draws(h, x, t)
    BY <2>2 DEF OncePerFact, Draws
  <2> QED BY <1>1, <2>1, <2>3, DrawsLess
<1> QED BY <1>2, <1>3

LEMMA SkipFactDraws ==
  ASSUME IInv, DrawInv, NEW s \in Request, NEW t \in Statement, SkipFact(s, t)
  PROVE  DrawInv'
<1> DEFINE r == request[s]
           h == [r EXCEPT !.left = @ \ {t}]
<1>1. TypeOK /\ IsAt(s, "syncing")
  BY DEF IInv, SkipFact
<1>2. r \in [at : {"syncing"}, on : Source, facts : SUBSET Statement,
              left : SUBSET Statement, made : SUBSET Proposal]
  BY <1>1, RequestFacts
<1>3. /\ h.at = "syncing" /\ h.on = r.on /\ h.left = r.left \ {t}
      /\ h.made = r.made /\ r.at = "syncing"
  BY <1>2
<1>4. OncePerFact(r)
  BY DEF DrawInv, DrawnOnce
<1>5. request' = [request EXCEPT ![s] = h] /\ queue' = queue
  BY DEF SkipFact, Goes
<1> HIDE DEF h, r
<1>6. OncePerFact(h)
  BY <1>3, <1>4 DEF OncePerFact
<1>7. \A x \in Source, u \in Statement : Draws(h, x, u) => Draws(r, x, u)
  BY <1>3 DEF Draws
<1> QED BY <1>5, <1>6, <1>7, DrawsLess DEF r

\* A request takes up a fact only while there is no copy: then there is room for
\* every request.
LEMMA ProposeFactDraws ==
  ASSUME IInv, IInv', DrawInv, NEW s \in Request, NEW t \in Statement, ProposeFact(s, t)
  PROVE  DrawInv'
<1> DEFINE r == request[s]
           h == [at |-> "pinning", on |-> r.on, facts |-> r.facts,
                 left |-> r.left \ {t}, made |-> r.made, fact |-> t]
<1>1. TypeOK /\ TypeOK' /\ IsAt(s, "syncing") /\ t \in r.left /\ ~Already(r.on, t)
  BY DEF IInv, ProposeFact
<1>2. /\ h.at = "pinning" /\ h.on = r.on /\ h.fact = t /\ h.left = r.left \ {t}
      /\ h.made = r.made /\ r.at = "syncing"
  BY <1>1 DEF IsAt
<1>3. OncePerFact(r)
  BY DEF DrawInv, DrawnOnce
<1>4. request' = [request EXCEPT ![s] = h] /\ queue' = queue
  BY DEF ProposeFact, Goes
<1>5. \A z \in Request : request'[z] = IF z = s THEN h ELSE request[z]
  BY <1>1, <1>4 DEF TypeOK
<1> HIDE DEF h
<1>6. OncePerFact(h)
  BY <1>1, <1>2, <1>3 DEF OncePerFact
<1>7. DrawnOnce'
  BY <1>5, <1>6 DEF DrawInv, DrawnOnce
<1>8. ASSUME NEW x \in Source, NEW u \in Statement
      PROVE  Room(x, u)'
  <2>1. CASE x = r.on /\ u = t
    <3>1. \A p \in Proposal : p.source = x /\ p.statement = u => queue'[p] = 0
      BY <1>1, <1>4, <2>1 DEF Already, TypeOK
    <3> QED BY <1>1, <3>1, RoomForAll
  <2>2. CASE ~(x = r.on /\ u = t)
    <3>1. Draws(h, x, u) => Draws(r, x, u)
      BY <1>2, <2>2 DEF Draws
    <3>2. \A z \in Request : Draws(request'[z], x, u) => Draws(request[z], x, u)
      BY <1>5, <3>1
    <3>3. Room(x, u)
      BY DEF DrawInv
    <3> QED BY <1>4, <3>2, <3>3, RoomStays
  <2> QED BY <2>1, <2>2
<1> QED BY <1>7, <1>8 DEF DrawInv

LEMMA PinFactDraws ==
  ASSUME IInv, DrawInv, NEW s \in Request, PinFact(s)
  PROVE  DrawInv'
<1> DEFINE r == request[s]
           p == [source |-> r.on, statement |-> r.fact, derived |-> TRUE,
                 version |-> Newest(r.on)]
           h == [at |-> "syncing", on |-> r.on, facts |-> r.facts,
                 left |-> r.left, made |-> r.made \cup {p}]
<1>1. r.at = "pinning"
  BY DEF PinFact, IsAt
<1>2. /\ h.at = "syncing" /\ h.on = r.on /\ h.left = r.left
      /\ h.made = r.made \cup {p} /\ p.statement = r.fact
  OBVIOUS
<1>3. OncePerFact(r)
  BY DEF DrawInv, DrawnOnce
<1>4. request' = [request EXCEPT ![s] = h] /\ queue' = queue
  BY DEF PinFact, Goes
<1> HIDE DEF h, p, r
<1>5. OncePerFact(h)
  BY <1>1, <1>2, <1>3 DEF OncePerFact
<1>6. \A x \in Source, u \in Statement : Draws(h, x, u) => Draws(r, x, u)
  BY <1>1, <1>2 DEF Draws
<1> QED BY <1>4, <1>5, <1>6, DrawsLess DEF r

\* What the request held is one copy more of each of its facts.
LEMMA CommitSyncDraws ==
  ASSUME IInv, DrawInv, NEW s \in Request, CommitSync(s)
  PROVE  DrawInv'
<1> DEFINE r == request[s]
<1>1. TypeOK /\ r.at = "syncing"
  BY DEF IInv, CommitSync, IsAt
<1>2. r.made \in SUBSET Proposal
  BY <1>1, RequestFacts
<1>3. \A p \in r.made : p.source = r.on /\ p.derived
  BY <1>1 DEF IInv, HandlersSound, Sound
<1>4. \A p, q \in r.made : p.statement = q.statement => p = q
  BY <1>1 DEF DrawInv, DrawnOnce, OncePerFact
<1>5. Enqueue(r.made) /\ request' = [request EXCEPT ![s] = Idle]
  BY DEF CommitSync, Goes
<1>6. OncePerFact(Idle) /\ \A x, t : ~Draws(Idle, x, t)
  BY NotSyncing DEF Idle
<1>7. \A z \in Request : request'[z] = IF z = s THEN Idle ELSE request[z]
  BY <1>1, <1>5 DEF TypeOK
<1>8. DrawnOnce'
  BY <1>6, <1>7 DEF DrawInv, DrawnOnce
<1>9. \A p \in Proposal : /\ queue[p] \in Nat
                          /\ p \in r.made => queue'[p] = queue[p] + 1
                          /\ p \notin r.made => queue'[p] = queue[p]
  BY <1>1, <1>5 DEF TypeOK, Enqueue
<1>10. ASSUME NEW x \in Source, NEW t \in Statement
       PROVE  Room(x, t)'
  <2>1. Room(x, t)
    BY DEF DrawInv
  <2>2. \A z \in Request : Draws(request'[z], x, t) => z # s /\ Draws(request[z], x, t)
    BY <1>6, <1>7
  <2>3. CASE \E p \in r.made : p.source = x /\ p.statement = t
    <3>1. PICK p \in r.made : p.source = x /\ p.statement = t
      BY <2>3
    <3>2. Draws(r, x, t)
      BY <1>1, <1>3, <3>1 DEF Draws
    <3>3. p \in Proposal /\ p.derived /\ queue'[p] = queue[p] + 1
      BY <1>2, <1>3, <1>9, <3>1
    <3>4. \A q \in Proposal :
            q # p /\ q.source = x /\ q.statement = t => queue'[q] = queue[q]
      BY <1>4, <1>9, <3>1
    <3> QED BY <1>1, <2>1, <2>2, <3>1, <3>2, <3>3, <3>4, RoomTurns
  <2>4. CASE ~\E p \in r.made : p.source = x /\ p.statement = t
    <3>1. \A p \in Proposal : p.source = x /\ p.statement = t => queue'[p] = queue[p]
      BY <1>9, <2>4
    <3> QED BY <2>1, <2>2, <3>1, RoomStays
  <2> QED BY <2>3, <2>4
<1> QED BY <1>8, <1>10 DEF DrawInv

LEMMA DrawInvKept == IInv /\ IInv' /\ DrawInv /\ [Next]_vars => DrawInv'
<1> SUFFICES ASSUME IInv, IInv', DrawInv, [Next]_vars PROVE DrawInv'
  OBVIOUS
<1>1. CASE UNCHANGED vars
  <2>1. queue' = queue /\ request' = request
    BY <1>1 DEF vars
  <2>2. \A x \in Source, t \in Statement : Room(x, t)'
    BY <2>1, RoomStays DEF DrawInv
  <2>3. DrawnOnce'
    BY <2>1 DEF DrawInv, DrawnOnce
  <2> QED BY <2>2, <2>3 DEF DrawInv
<1>2. CASE \E s \in Request, x \in Source, c \in Content :
             Capture(s, x, c) \/ CheckContent(s, x, c)
  BY <1>2, DrawKeptOutside
<1>3. CASE \E s \in Request : \/ OfferAccepted(s) \/ ReadNumber(s) \/ CommitVersion(s)
                              \/ VersionClashes(s) \/ Dies(s)
  BY <1>3, DrawKeptOutside
<1>4. CASE \E s \in Request, x \in Source : LoadSource(s, x)
  BY <1>4, DrawKeptOutside
<1>5. CASE \E s \in Request, facts \in SUBSET Statement : AskEngine(s, facts)
  BY <1>5, AskEngineDraws
<1>6. CASE \E s \in Request, t \in Statement : SkipFact(s, t)
  BY <1>6, SkipFactDraws
<1>7. CASE \E s \in Request, t \in Statement : ProposeFact(s, t)
  BY <1>7, ProposeFactDraws
<1>8. CASE \E s \in Request : PinFact(s)
  BY <1>8, PinFactDraws
<1>9. CASE \E s \in Request : CommitSync(s)
  BY <1>9, CommitSyncDraws
<1> QED BY <1>1, <1>2, <1>3, <1>4, <1>5, <1>6, <1>7, <1>8, <1>9 DEF Next

-----------------------------------------------------------------------------
(* The theorems.                                                           *)

\* Versions, proposals and what handlers have read keep their types, whatever
\* the order of their steps (services.py:137-395).
THEOREM SourcesTypeCorrect == Spec => []TypeOK
<1>1. IInv => TypeOK
  BY DEF IInv
<1> QED BY <1>1, Invariance, PTL

\* However many people add versions of one source at once, they are numbered
\* without a gap and no content is there twice (add_source_version).  Every
\* proposal in the queue has one of its own source as evidence, and a derived
\* one is a fact of this source (sync_derived_proposals).
THEOREM Evidenced == Spec => []EvidenceStands
<1>1. IInv => EvidenceStands
  BY DEF IInv, QueueBacked, Backed, Inferred, EvidenceStands, EvidenceHolds, OwnFacts
<1> QED BY <1>1, Invariance, PTL

\* A sync leaves out only what the queue of the source has (services.py:332-340).
THEOREM Complete == Spec => []NothingSkipped
<1>1. IInv => NothingSkipped
  BY DEF IInv, HandlersSound, Sound, Handled, NothingSkipped, IsAt
<1> QED BY <1>1, Invariance, PTL

\* There is never more than one copy of a derived fact of a source for each
\* request that can be in flight, although nothing but a test that another sync
\* may have passed as well keeps a sync from proposing it (services.py:318-360).
THEOREM DuplicatesBounded == Spec => []CopiesBounded
<1>1. Init => DrawInv
  BY InitDrawInv
<1>2. IInv /\ IInv' /\ DrawInv /\ [Next]_vars => DrawInv'
  BY DrawInvKept
<1>3. DrawInv => CopiesBounded
  <2> SUFFICES ASSUME DrawInv, NEW x \in Source, NEW t \in Statement
               PROVE  Cardinality(Copies(x, t)) <= Cardinality(Request)
    BY DEF CopiesBounded
  <2>1. Room(x, t)
    BY DEF DrawInv
  <2>2. /\ Cardinality(Copies(x, t)) \in Nat
        /\ Cardinality(Drawing(x, t)) \in Nat /\ Cardinality(Request) \in Nat
    BY <2>1, DrawingFinite, FS_CardinalityType DEF Room
  <2> QED BY <2>1, <2>2 DEF Room
<1> QED BY <1>1, <1>2, <1>3, Invariance, PTL DEF Spec
=============================================================================
