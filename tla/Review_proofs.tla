---------------------------- MODULE Review_proofs ----------------------------
(***************************************************************************)
(* Review for any number of proposals, wordings and requests.  What a      *)
(* handler has read may be old by the time it commits; the proof rests on  *)
(* what stays true of it: an item that was there is still there (Kept), a  *)
(* number that was next is at most one past the newest (Close), and a      *)
(* wording that was read is that of a revision (Recorded).                 *)
(***************************************************************************)
EXTENDS Review, TLAPS

\* Every stage but these two and idleness comes after the item was there.
Kept ==
  \A s \in Request :
    request[s].at \in ToIndex \cup {"editing", "numbered", "telling"} =>
      HasItem(request[s].on)

Close ==
  \A s \in Request :
    IsAt(s, "numbered") => request[s].number <= item[request[s].on].version + 1

Recorded ==
  \A s \in Request :
    request[s].at \in {"inserting", "replacing"} =>
      \E r \in revisions[request[s].on] : r.statement = request[s].statement

IInv ==
  /\ TypeOK
  /\ Kept
  /\ Close
  /\ Recorded
  /\ NotApprovedTwice
  /\ NoEmptyApproval
  /\ RevisionsGapless
  /\ WordingHasRevision
  /\ EngineAfterRecord
  /\ IndexCovers

-----------------------------------------------------------------------------
LEMMA MaxOfRange ==
  ASSUME NEW n \in Nat \ {0}
  PROVE  Max(1..n) = n
<1>1. n \in 1..n /\ \A y \in 1..n : n >= y
  OBVIOUS
<1>2. \A x \in 1..n : (\A y \in 1..n : x >= y) => x = n
  OBVIOUS
<1> QED BY <1>1, <1>2 DEF Max

\* An item that is there has a version of its own, one that is not has none.
LEMMA ItemFacts ==
  ASSUME TypeOK, NEW p \in Proposal
  PROVE  /\ HasItem(p) => item[p] \in Item
         /\ ~HasItem(p) => item[p].version = 0
         /\ item[p].version \in Nat
         /\ HasItem(p) <=> item[p].version > 0
<1>1. item[p] \in {NoItem} \cup Item
  BY DEF TypeOK
<1>2. NoItem.version = 0
  BY DEF NoItem
<1>3. \A i \in Item : i.version \in Nat /\ i.version > 0
  BY ReviewAssumption DEF Item
<1> QED BY <1>1, <1>2, <1>3 DEF HasItem

\* The fields that a request has at each stage.
LEMMA RequestFacts ==
  ASSUME TypeOK, NEW s \in Request
  PROVE  /\ ~IsAt(s, "idle") => request[s].on \in Proposal
         /\ IsAt(s, "editing") =>
              request[s] \in [at : {"editing"}, on : Proposal, seen : Item]
         /\ IsAt(s, "numbered") =>
              request[s] \in [at : {"numbered"}, on : Proposal, seen : Item,
                              number : 2..MaxRevisions]
         /\ request[s].at \in {"inserting", "replacing"} =>
              request[s] \in [at : {"inserting", "replacing"}, on : Proposal,
                              statement : Wording]
         /\ request[s].at \in {"approving", "rejecting", "declined", "telling"} =>
              request[s] \in [at : {"approving", "rejecting", "declined", "telling"},
                              on : Proposal]
         /\ request[s].at \in {"approved", "superseded"} =>
              request[s] \in [at : {"approved", "superseded"}, on : Proposal]
BY DEF TypeOK, Handler, IsAt, Idle

LEMMA InitIInv == Init => IInv
<1> SUFFICES ASSUME Init PROVE IInv
  OBVIOUS
<1>1. TypeOK
  BY ReviewAssumption DEF Init, TypeOK, Handler, NoRows
<1>2. \A s \in Request : request[s] = Idle /\ Idle.at = "idle"
  BY DEF Init, Idle
<1>3. \A p \in Proposal : item[p] = NoItem /\ NoItem.version = 0
  BY DEF Init, NoItem
<1>4. Kept /\ Close /\ Recorded
  BY <1>2 DEF Kept, Close, Recorded, ToIndex, IsAt
<1>5. \A p \in Proposal : ~HasItem(p)
  BY <1>3 DEF HasItem
<1>6. NotApprovedTwice /\ NoEmptyApproval /\ WordingHasRevision /\ EngineAfterRecord
  BY <1>5 DEF Init, NotApprovedTwice, NoEmptyApproval, WordingHasRevision, EngineAfterRecord
<1>7. RevisionsGapless
  BY <1>3 DEF Init, RevisionsGapless
<1>8. IndexCovers
  BY <1>5 DEF IndexCovers
<1> QED BY <1>1, <1>4, <1>6, <1>7, <1>8 DEF IInv

-----------------------------------------------------------------------------
(* The steps.                                                              *)

\* A step that only takes one handler further: it must come with an item, a
\* number and a wording that are there, and stay about to index what it was.
LEMMA Moves ==
  ASSUME IInv, NEW s \in Request, NEW h \in Handler,
         request' = [request EXCEPT ![s] = h],
         UNCHANGED <<database, engine, index, faults>>,
         h.at \in ToIndex \cup {"editing", "numbered", "telling"} => HasItem(h.on),
         h.at = "numbered" => h.number <= item[h.on].version + 1,
         h.at \in {"inserting", "replacing"} =>
           \E r \in revisions[h.on] : r.statement = h.statement,
         request[s].at \in ToIndex => h.at \in ToIndex /\ h.on = request[s].on
  PROVE  IInv'
<1> USE DEF IInv
<1>1. request \in [Request -> Handler]
  BY DEF TypeOK
<1>2. request'[s] = h /\ \A x \in Request \ {s} : request'[x] = request[x]
  BY <1>1
<1>3. /\ status' = status /\ item' = item /\ revisions' = revisions
      /\ approvals' = approvals /\ engine' = engine /\ index' = index /\ faults' = faults
  BY DEF database
<1>4. TypeOK'
  BY <1>1, <1>3 DEF TypeOK
<1>5. Kept'
  BY <1>2, <1>3 DEF Kept, HasItem
<1>6. Close'
  BY <1>2, <1>3 DEF Close, IsAt
<1>7. Recorded'
  BY <1>2, <1>3 DEF Recorded
<1>8. (NotApprovedTwice /\ NoEmptyApproval /\ RevisionsGapless /\ WordingHasRevision
         /\ EngineAfterRecord)'
  BY <1>3 DEF NotApprovedTwice, NoEmptyApproval, RevisionsGapless, WordingHasRevision,
              EngineAfterRecord, HasItem
<1>9. IndexCovers'
  BY <1>2, <1>3 DEF IndexCovers, HasItem
<1> QED BY <1>4, <1>5, <1>6, <1>7, <1>8, <1>9

\* A step that leaves the database and the index alone and only tells the
\* engine something, moving on or staying.
LEMMA Tells ==
  ASSUME IInv, NEW s \in Request, NEW h \in Handler, NEW p \in Proposal,
         NEW decision \in {"approve", "decline"}, Tell(p, decision),
         request' = [request EXCEPT ![s] = h],
         UNCHANGED <<database, index, faults>>,
         decision = "approve" => HasItem(p),
         request[s].at \notin ToIndex,
         h.at \in {"idle", "declined"}
  PROVE  IInv'
<1> USE DEF IInv
<1>1. request \in [Request -> Handler] /\ engine \in [Proposal -> {"none", "approve", "decline"}]
  BY DEF TypeOK
<1>2. request'[s] = h /\ \A x \in Request \ {s} : request'[x] = request[x]
  BY <1>1
<1>3. /\ status' = status /\ item' = item /\ revisions' = revisions
      /\ approvals' = approvals /\ index' = index /\ faults' = faults
  BY DEF database
<1>4. /\ engine' \in [Proposal -> {"none", "approve", "decline"}]
      /\ \A q \in Proposal : 
           \/ engine'[q] = engine[q]
           \/ q = p /\ p \in Derived /\ engine'[q] = decision
  BY <1>1 DEF Tell
<1>5. TypeOK'
  BY <1>1, <1>3, <1>4 DEF TypeOK
<1>6. Kept'
  BY <1>2, <1>3 DEF Kept, HasItem, ToIndex
<1>7. Close'
  BY <1>2, <1>3 DEF Close, IsAt
<1>8. Recorded'
  BY <1>2, <1>3 DEF Recorded
<1>9. (NotApprovedTwice /\ NoEmptyApproval /\ RevisionsGapless /\ WordingHasRevision)'
  BY <1>3 DEF NotApprovedTwice, NoEmptyApproval, RevisionsGapless, WordingHasRevision, HasItem
<1>10. EngineAfterRecord'
  BY <1>3, <1>4 DEF EngineAfterRecord, HasItem
<1>11. IndexCovers'
  BY <1>2, <1>3 DEF IndexCovers, HasItem
<1> QED BY <1>5, <1>6, <1>7, <1>8, <1>9, <1>10, <1>11

LEMMA ApprovalKeeps ==
  ASSUME IInv, NEW s \in Request, NEW w \in Wording, CommitApproval(s, w)
  PROVE  IInv'
<1> USE DEF IInv
<1> DEFINE p   == request[s].on
           new == [statement |-> w, version |-> 1]
           rev == [number |-> 1, statement |-> w]
           h   == [at |-> "approved", on |-> p]
<1>1. /\ p \in Proposal /\ ~HasItem(p) /\ request[s].at = "approving"
      /\ request \in [Request -> Handler] /\ h \in Handler
  <2>1. request[s].at = "approving" /\ ~HasItem(p)
    BY DEF CommitApproval, IsAt, ItemFree
  <2>2. p \in Proposal
    BY <2>1, RequestFacts DEF IsAt
  <2> QED BY <2>1, <2>2 DEF TypeOK, Handler
<1>2. /\ new \in Item /\ rev \in Revision /\ new # NoItem
  <2>1. new \in Item /\ rev \in Revision
    BY ReviewAssumption DEF Item, Revision
  <2>2. new.version = 1 /\ NoItem.version = 0
    BY DEF NoItem
  <2> QED BY <2>1, <2>2
<1>3. /\ status' = [status EXCEPT ![p] = "approved"]
      /\ item' = [item EXCEPT ![p] = new]
      /\ revisions' = [revisions EXCEPT ![p] = @ \cup {rev}]
      /\ approvals' = [approvals EXCEPT ![p] = @ + 1]
      /\ request' = [request EXCEPT ![s] = h]
      /\ engine' = engine /\ index' = index /\ faults' = faults
  BY DEF CommitApproval, Goes
<1>4. /\ item[p].version = 0 /\ revisions[p] = {} /\ approvals[p] = 0
  <2>1. item[p].version = 0
    BY <1>1, ItemFacts
  <2>2. {r.number : r \in revisions[p]} = {}
    BY <1>1, <2>1 DEF RevisionsGapless
  <2> QED BY <1>1, <2>1, <2>2 DEF NotApprovedTwice
<1> HIDE DEF p, new, rev, h
<1>5. /\ item'[p] = new /\ \A q \in Proposal \ {p} : item'[q] = item[q]
      /\ revisions'[p] = {rev} /\ \A q \in Proposal \ {p} : revisions'[q] = revisions[q]
      /\ approvals'[p] = 1 /\ \A q \in Proposal \ {p} : approvals'[q] = approvals[q]
      /\ \A q \in Proposal \ {p} : status'[q] = status[q]
      /\ request'[s] = h /\ \A x \in Request \ {s} : request'[x] = request[x]
  BY <1>1, <1>3, <1>4 DEF TypeOK
<1>6. item'[p] # NoItem /\ \A q \in Proposal \ {p} : item'[q] = item[q]
  BY <1>2, <1>5
<1>7. h.at = "approved" /\ h.on = p
  BY DEF h
<1>8. new.version = 1 /\ new.statement = w /\ rev.number = 1 /\ rev.statement = w
  BY DEF new, rev
<1>9. TypeOK'
  BY <1>1, <1>2, <1>3 DEF TypeOK
<1>10. \A x \in Request : IsAt(x, "idle") \/ request[x].on \in Proposal
  BY RequestFacts
<1>11. Kept'
  BY <1>5, <1>6, <1>7, <1>10 DEF Kept, IsAt, ToIndex, HasItem
<1>12. Close'
  <2> SUFFICES ASSUME NEW x \in Request, IsAt(x, "numbered")'
               PROVE  request'[x].number <= item'[request'[x].on].version + 1
    BY DEF Close
  <2>1. x # s /\ request'[x] = request[x] /\ request[x].at = "numbered"
    BY <1>5, <1>7 DEF IsAt
  <2>2. request[x].on \in Proposal /\ request[x].on # p
    BY <1>1, <1>10, <2>1 DEF IsAt, Kept
  <2> QED BY <1>5, <2>1, <2>2 DEF Close, IsAt
<1>13. Recorded'
  <2> SUFFICES ASSUME NEW x \in Request, request'[x].at \in {"inserting", "replacing"}
               PROVE  \E r \in revisions'[request'[x].on] : r.statement = request'[x].statement
    BY DEF Recorded
  <2>1. x # s /\ request'[x] = request[x]
    BY <1>5, <1>7
  <2>2. request[x].on \in Proposal /\ request[x].on # p
    BY <1>1, <1>10, <2>1 DEF IsAt, Kept, ToIndex
  <2> QED BY <1>5, <2>1, <2>2 DEF Recorded
<1>14. NotApprovedTwice'
  BY <1>5, <1>6 DEF NotApprovedTwice, HasItem
<1>15. NoEmptyApproval'
  BY <1>5, <1>6 DEF NoEmptyApproval, HasItem
<1>16. RevisionsGapless'
  <2>1. {r.number : r \in {rev}} = 1..1
    BY <1>8
  <2>2. /\ {r.number : r \in revisions'[p]} = 1..item'[p].version
        /\ \A q, r \in revisions'[p] : q.number = r.number => q = r
    BY <1>5, <1>8, <2>1
  <2> QED BY <1>5, <2>2 DEF RevisionsGapless
<1>17. WordingHasRevision'
  BY <1>5, <1>6, <1>8 DEF WordingHasRevision, HasItem
<1>18. EngineAfterRecord'
  BY <1>3, <1>6 DEF EngineAfterRecord, HasItem
<1>19. IndexCovers'
  <2> SUFFICES ASSUME faults = 0, NEW q \in Proposal, HasItem(q)'
               PROVE  \/ \E x \in Request : request'[x].at \in ToIndex /\ request'[x].on = q
                      \/ \E r \in revisions'[q] : index[q][r.statement] > 0
    BY <1>3 DEF IndexCovers
  <2>1. CASE q = p
    BY <1>5, <1>7, <2>1 DEF ToIndex
  <2>2. CASE q # p
    <3>1. \/ \E x \in Request : request[x].at \in ToIndex /\ request[x].on = q
          \/ \E r \in revisions[q] : index[q][r.statement] > 0
      BY <1>6, <2>2 DEF IndexCovers, HasItem
    <3> QED BY <1>1, <1>5, <2>2, <3>1 DEF ToIndex
  <2> QED BY <2>1, <2>2
<1> QED BY <1>9, <1>11, <1>12, <1>13, <1>14, <1>15, <1>16, <1>17, <1>18, <1>19

\* The number that was read is the next one, or the database refuses it.
LEMMA RevisionKeeps ==
  ASSUME IInv, NEW s \in Request, NEW w \in Wording, CommitRevision(s, w)
  PROVE  IInv'
<1> USE DEF IInv
<1> DEFINE p   == request[s].on
           n   == request[s].number
           old == request[s].seen
           v   == item[p].version
           new == [item[p] EXCEPT !.statement = IF w # old.statement THEN w ELSE @,
                                  !.version = n]
           rev == [number |-> n, statement |-> w]
           h   == [at |-> "superseded", on |-> p]
<1>1. /\ p \in Proposal /\ HasItem(p) /\ request[s].at = "numbered"
      /\ request \in [Request -> Handler] /\ h \in Handler
      /\ n \in 2..MaxRevisions /\ n <= v + 1 /\ NumberFree(p, n)
  <2>1. request[s].at = "numbered" /\ NumberFree(p, n)
    BY DEF CommitRevision, IsAt
  <2>2. p \in Proposal /\ n \in 2..MaxRevisions
    BY <2>1, RequestFacts DEF IsAt
  <2>3. HasItem(p) /\ n <= v + 1
    BY <2>1 DEF Kept, Close, IsAt
  <2> QED BY <2>1, <2>2, <2>3 DEF TypeOK, Handler
<1>2. item[p] \in Item /\ v \in Nat /\ v > 0
  BY <1>1, ItemFacts
<1>3. n = v + 1
  <2>1. {r.number : r \in revisions[p]} = 1..v
    BY <1>1 DEF RevisionsGapless
  <2>2. n \notin 1..v
    BY <1>1, <2>1 DEF NumberFree
  <2> QED BY <1>1, <1>2, <2>2
<1>4. /\ item' = [item EXCEPT ![p] = new]
      /\ revisions' = [revisions EXCEPT ![p] = @ \cup {rev}]
      /\ request' = [request EXCEPT ![s] = h]
      /\ status' = status /\ approvals' = approvals
      /\ engine' = engine /\ index' = index /\ faults' = faults
  BY DEF CommitRevision, Goes, NewRevision
<1>5. /\ new \in Item /\ rev \in Revision
      /\ new.version = n /\ new.statement \in {w, item[p].statement}
      /\ rev.number = n /\ rev.statement = w /\ h.at = "superseded" /\ h.on = p
  <2>1. item[p].statement \in Wording
    BY <1>2 DEF Item
  <2>2. n \in 1..MaxRevisions
    BY <1>1
  <2> DEFINE x == IF w # old.statement THEN w ELSE item[p].statement
  <2>3. x \in Wording /\ x \in {w, item[p].statement}
    BY <2>1
  <2>4. new = [item[p] EXCEPT !.statement = x, !.version = n]
    OBVIOUS
  <2>5. rev \in Revision /\ rev.number = n /\ rev.statement = w
    BY <2>2 DEF Revision
  <2>6. h.at = "superseded" /\ h.on = p
    OBVIOUS
  <2> HIDE DEF rev, h, x, n, p
  <2>7. new \in Item /\ new.version = n /\ new.statement = x
    BY <1>2, <2>2, <2>3, <2>4 DEF Item
  <2> HIDE DEF new
  <2> QED BY <2>3, <2>5, <2>6, <2>7
<1>6. new # NoItem
  <2>1. NoItem.version = 0
    BY DEF NoItem
  <2>2. new.version # 0
    BY <1>1, <1>5
  <2> HIDE DEF new
  <2> QED BY <2>1, <2>2
<1> HIDE DEF p, n, old, v, new, rev, h
<1>7. /\ item'[p] = new /\ \A q \in Proposal \ {p} : item'[q] = item[q]
      /\ revisions'[p] = revisions[p] \cup {rev}
      /\ \A q \in Proposal \ {p} : revisions'[q] = revisions[q]
      /\ request'[s] = h /\ \A x \in Request \ {s} : request'[x] = request[x]
  BY <1>1, <1>4 DEF TypeOK
<1>8. \A q \in Proposal : item[q] # NoItem <=> item'[q] # NoItem
  BY <1>1, <1>6, <1>7 DEF HasItem
<1>9. TypeOK'
  BY <1>1, <1>4, <1>5 DEF TypeOK
<1>10. \A x \in Request : IsAt(x, "idle") \/ request[x].on \in Proposal
  BY RequestFacts
<1>11. Kept'
  <2> SUFFICES ASSUME NEW x \in Request,
                      request'[x].at \in ToIndex \cup {"editing", "numbered", "telling"}
               PROVE  item'[request'[x].on] # NoItem
    BY DEF Kept, HasItem
  <2>1. CASE x = s
    BY <1>5, <1>6, <1>7, <2>1
  <2>2. CASE x # s
    BY <1>7, <1>8, <1>10, <2>2 DEF Kept, HasItem, IsAt, ToIndex
  <2> QED BY <2>1, <2>2
<1>12. Close'
  <2> SUFFICES ASSUME NEW x \in Request, request'[x].at = "numbered"
               PROVE  request'[x].number <= item'[request'[x].on].version + 1
    BY DEF Close, IsAt
  <2>1. x # s /\ request'[x] = request[x]
    BY <1>5, <1>7
  <2>2. /\ request[x].number \in 2..MaxRevisions /\ request[x].on \in Proposal
        /\ request[x].number <= item[request[x].on].version + 1
    BY <2>1, RequestFacts DEF Close, IsAt
  <2>3. CASE request[x].on = p
    BY <1>2, <1>3, <1>5, <1>7, <2>1, <2>2, <2>3 DEF v
  <2>4. CASE request[x].on # p
    BY <1>7, <2>1, <2>2, <2>4
  <2> QED BY <2>3, <2>4
<1>13. Recorded'
  <2> SUFFICES ASSUME NEW x \in Request, request'[x].at \in {"inserting", "replacing"}
               PROVE  \E r \in revisions'[request'[x].on] : r.statement = request'[x].statement
    BY DEF Recorded
  <2>1. x # s /\ request'[x] = request[x]
    BY <1>5, <1>7
  <2>2. PICK r \in revisions[request[x].on] : r.statement = request[x].statement
    BY <2>1 DEF Recorded
  <2>3. r \in revisions'[request[x].on]
    BY <1>7, <1>10, <2>1, <2>2 DEF IsAt
  <2> QED BY <2>1, <2>2, <2>3
<1>14. NotApprovedTwice' /\ NoEmptyApproval'
  BY <1>4, <1>8 DEF NotApprovedTwice, NoEmptyApproval, HasItem
<1>15. RevisionsGapless'
  <2>1. /\ {r.number : r \in revisions[p]} = 1..v
        /\ \A q, r \in revisions[p] : q.number = r.number => q = r
    BY <1>1 DEF RevisionsGapless, v
  <2>2. {r.number : r \in revisions[p] \cup {rev}} = 1..n
    <3>1. {r.number : r \in revisions[p] \cup {rev}} = {r.number : r \in revisions[p]} \cup {n}
      BY <1>5
    <3>2. 1..v \cup {n} = 1..n
      BY <1>2, <1>3
    <3> QED BY <2>1, <3>1, <3>2
  <2>3. \A q, r \in revisions[p] \cup {rev} : q.number = r.number => q = r
    BY <1>1, <1>5, <2>1 DEF NumberFree
  <2> QED BY <1>5, <1>7, <2>2, <2>3 DEF RevisionsGapless
<1>16. WordingHasRevision'
  <2> SUFFICES ASSUME NEW q \in Proposal, item'[q] # NoItem
               PROVE  \E r \in revisions'[q] : r.statement = item'[q].statement
    BY DEF WordingHasRevision, HasItem
  <2>1. PICK r \in revisions[q] : r.statement = item[q].statement
    BY <1>8 DEF WordingHasRevision, HasItem
  <2>2. CASE q = p
    BY <1>5, <1>7, <2>1, <2>2
  <2>3. CASE q # p
    BY <1>7, <2>1, <2>3
  <2> QED BY <2>2, <2>3
<1>17. EngineAfterRecord'
  BY <1>4, <1>8 DEF EngineAfterRecord, HasItem
<1>18. IndexCovers'
  <2> SUFFICES ASSUME faults = 0, NEW q \in Proposal, item'[q] # NoItem
               PROVE  \/ \E x \in Request : request'[x].at \in ToIndex /\ request'[x].on = q
                      \/ \E r \in revisions'[q] : index[q][r.statement] > 0
    BY <1>4 DEF IndexCovers, HasItem
  <2>1. CASE q = p
    BY <1>5, <1>7, <2>1 DEF ToIndex
  <2>2. CASE q # p
    <3>1. \/ \E x \in Request : request[x].at \in ToIndex /\ request[x].on = q
          \/ \E r \in revisions[q] : index[q][r.statement] > 0
      BY <1>7, <2>2 DEF IndexCovers, HasItem
    <3>2. ASSUME NEW x \in Request, request[x].at \in ToIndex, request[x].on = q
          PROVE  request'[x].at \in ToIndex /\ request'[x].on = q
      BY <1>1, <1>7, <2>2, <3>2 DEF ToIndex
    <3> QED BY <1>7, <2>2, <3>1, <3>2
  <2> QED BY <2>1, <2>2
<1> QED BY <1>9, <1>11, <1>12, <1>13, <1>14, <1>15, <1>16, <1>17, <1>18

LEMMA RejectionKeeps ==
  ASSUME IInv, NEW s \in Request, CommitRejection(s)
  PROVE  IInv'
<1> USE DEF IInv
<1> DEFINE p == request[s].on
<1>1. /\ request[s].at = "declined" /\ p \in Proposal
      /\ request \in [Request -> Handler] /\ Idle \in Handler
  BY RequestFacts DEF CommitRejection, IsAt, TypeOK, Handler
<1>2. /\ status' = [status EXCEPT ![p] = "rejected"]
      /\ request' = [request EXCEPT ![s] = Idle]
      /\ item' = item /\ revisions' = revisions /\ approvals' = approvals
      /\ engine' = engine /\ index' = index /\ faults' = faults
  BY DEF CommitRejection, Rejected, Goes
<1>3. /\ request'[s] = Idle /\ Idle.at = "idle"
      /\ \A x \in Request \ {s} : request'[x] = request[x]
  BY <1>1, <1>2 DEF Idle
<1>4. TypeOK'
  BY <1>1, <1>2 DEF TypeOK
<1>5. Kept' /\ Close' /\ Recorded'
  BY <1>2, <1>3 DEF Kept, Close, Recorded, IsAt, HasItem, ToIndex
<1>6. (NotApprovedTwice /\ RevisionsGapless /\ WordingHasRevision /\ EngineAfterRecord)'
  BY <1>2 DEF NotApprovedTwice, RevisionsGapless, WordingHasRevision, EngineAfterRecord, HasItem
<1>7. NoEmptyApproval'
  BY <1>1, <1>2 DEF NoEmptyApproval, HasItem, TypeOK
<1>8. IndexCovers'
  BY <1>1, <1>2, <1>3 DEF IndexCovers, HasItem, ToIndex
<1> QED BY <1>4, <1>5, <1>6, <1>7, <1>8

\* What a handler does with the index, or fails to do, and where it goes next.
LEMMA AfterSyncFacts ==
  ASSUME IInv, NEW s \in Request, request[s].at \in {"inserting", "replacing"}
  PROVE  /\ request[s].on \in Proposal /\ request[s].statement \in Wording
         /\ AfterSync(s) \in Handler
         /\ AfterSync(s).at \in {"idle", "telling"}
         /\ AfterSync(s).at = "telling" => AfterSync(s).on = request[s].on
         /\ HasItem(request[s].on)
         /\ \E r \in revisions[request[s].on] : r.statement = request[s].statement
<1>1. request[s].on \in Proposal /\ request[s].statement \in Wording
  BY RequestFacts DEF IInv
<1>2. /\ HasItem(request[s].on)
      /\ \E r \in revisions[request[s].on] : r.statement = request[s].statement
  BY DEF IInv, Kept, Recorded, ToIndex
<1>3. /\ AfterSync(s) \in Handler
      /\ AfterSync(s).at \in {"idle", "telling"}
      /\ AfterSync(s).at = "telling" => AfterSync(s).on = request[s].on
  BY <1>1 DEF AfterSync, Handler, Idle, IsAt
<1> QED BY <1>1, <1>2, <1>3

LEMMA SyncKeeps ==
  ASSUME IInv, NEW s \in Request, SyncIndex(s)
  PROVE  IInv'
<1> USE DEF IInv
<1> DEFINE p   == request[s].on
           w   == request[s].statement
           h   == AfterSync(s)
           new == Indexed(index[p], request[s].at, w)
<1>1. /\ request[s].at \in {"inserting", "replacing"}
      /\ request' = [request EXCEPT ![s] = h]
      /\ index' = [index EXCEPT ![p] = new]
      /\ status' = status /\ item' = item /\ revisions' = revisions /\ approvals' = approvals
      /\ engine' = engine /\ faults' = faults
  BY DEF SyncIndex, Goes, database
<1>2. /\ p \in Proposal /\ w \in Wording /\ h \in Handler /\ h.at \in {"idle", "telling"}
      /\ h.at = "telling" => h.on = p
      /\ HasItem(p) /\ \E r \in revisions[p] : r.statement = w
      /\ request \in [Request -> Handler] /\ index \in [Proposal -> [Wording -> Nat]]
  BY <1>1, AfterSyncFacts DEF TypeOK
<1>3. new \in [Wording -> Nat] /\ new[w] > 0
  <2>1. index[p] \in [Wording -> Nat]
    BY <1>2
  <2>2. CASE request[s].at = "inserting"
    <3>1. new = [index[p] EXCEPT ![w] = @ + 1]
      BY <2>2 DEF Indexed
    <3> QED BY <1>2, <2>1, <3>1
  <2>3. CASE request[s].at # "inserting"
    <3>1. new = [NoRows EXCEPT ![w] = 1]
      BY <2>3 DEF Indexed
    <3>2. NoRows \in [Wording -> Nat]
      BY DEF NoRows
    <3> QED BY <1>2, <3>1, <3>2
  <2> QED BY <2>2, <2>3
<1> HIDE DEF p, w, h, new
<1>4. /\ request'[s] = h /\ \A x \in Request \ {s} : request'[x] = request[x]
      /\ index'[p] = new /\ \A q \in Proposal \ {p} : index'[q] = index[q]
  BY <1>1, <1>2
<1>5. TypeOK'
  BY <1>1, <1>2, <1>3 DEF TypeOK
<1>6. Kept' /\ Close' /\ Recorded'
  BY <1>1, <1>2, <1>4 DEF Kept, Close, Recorded, IsAt, HasItem, ToIndex
<1>7. (NotApprovedTwice /\ NoEmptyApproval /\ RevisionsGapless /\ WordingHasRevision
         /\ EngineAfterRecord)'
  BY <1>1 DEF NotApprovedTwice, NoEmptyApproval, RevisionsGapless, WordingHasRevision,
              EngineAfterRecord, HasItem
<1>8. IndexCovers'
  <2> SUFFICES ASSUME faults = 0, NEW q \in Proposal, item[q] # NoItem
               PROVE  \/ \E x \in Request : request'[x].at \in ToIndex /\ request'[x].on = q
                      \/ \E r \in revisions[q] : index'[q][r.statement] > 0
    BY <1>1 DEF IndexCovers, HasItem
  <2>1. CASE q = p
    BY <1>2, <1>3, <1>4, <2>1
  <2>2. CASE q # p
    <3>1. \/ \E x \in Request : request[x].at \in ToIndex /\ request[x].on = q
          \/ \E r \in revisions[q] : index[q][r.statement] > 0
      BY DEF IndexCovers, HasItem
    <3>2. ASSUME NEW x \in Request, request[x].at \in ToIndex, request[x].on = q
          PROVE  request'[x].at \in ToIndex /\ request'[x].on = q
      BY <1>4, <2>2, <3>2 DEF p
    <3> QED BY <1>4, <2>2, <3>1, <3>2
  <2> QED BY <2>1, <2>2
<1> QED BY <1>5, <1>6, <1>7, <1>8

LEMMA SyncFailureKeeps ==
  ASSUME IInv, NEW s \in Request, SyncFails(s)
  PROVE  IInv'
<1> USE DEF IInv
<1> DEFINE h == AfterSync(s)
<1>1. /\ request[s].at \in {"inserting", "replacing"}
      /\ request' = [request EXCEPT ![s] = h]
      /\ faults < MaxFaults /\ faults' = faults + 1
      /\ status' = status /\ item' = item /\ revisions' = revisions /\ approvals' = approvals
      /\ engine' = engine /\ index' = index
  BY DEF SyncFails, Goes, database
<1>2. /\ h \in Handler /\ h.at \in {"idle", "telling"}
      /\ h.at = "telling" => HasItem(h.on)
      /\ request \in [Request -> Handler]
  BY <1>1, AfterSyncFacts DEF TypeOK
<1> HIDE DEF h
<1>3. request'[s] = h /\ \A x \in Request \ {s} : request'[x] = request[x]
  BY <1>1, <1>2
<1>4. faults' \in 0..MaxFaults /\ faults' # 0
  BY <1>1, ReviewAssumption DEF TypeOK
<1>5. TypeOK'
  BY <1>1, <1>2, <1>4 DEF TypeOK
<1>6. Kept' /\ Close' /\ Recorded'
  BY <1>1, <1>2, <1>3 DEF Kept, Close, Recorded, IsAt, HasItem, ToIndex
<1>7. (NotApprovedTwice /\ NoEmptyApproval /\ RevisionsGapless /\ WordingHasRevision
         /\ EngineAfterRecord)'
  BY <1>1 DEF NotApprovedTwice, NoEmptyApproval, RevisionsGapless, WordingHasRevision,
              EngineAfterRecord, HasItem
<1>8. IndexCovers'
  BY <1>4 DEF IndexCovers
<1> QED BY <1>5, <1>6, <1>7, <1>8

LEMMA RestartKeeps ==
  ASSUME IInv, Restart
  PROVE  IInv'
<1> USE DEF IInv
<1>1. /\ request' = [s \in Request |-> Idle]
      /\ faults < MaxFaults /\ faults' = faults + 1
      /\ status' = status /\ item' = item /\ revisions' = revisions /\ approvals' = approvals
      /\ engine' = engine
  BY DEF Restart, database
<1>2. index' \in [Proposal -> [Wording -> Nat]]
  <2>1. \A p \in Proposal :
          (IF HasItem(p) THEN [NoRows EXCEPT ![item[p].statement] = 1] ELSE NoRows)
            \in [Wording -> Nat]
    BY DEF NoRows
  <2> QED BY <2>1 DEF Restart
<1>3. faults' \in 0..MaxFaults /\ faults' # 0
  BY <1>1, ReviewAssumption DEF TypeOK
<1>4. Idle \in Handler /\ Idle.at = "idle"
  BY DEF Handler, Idle
<1>5. TypeOK'
  BY <1>1, <1>2, <1>3, <1>4 DEF TypeOK
<1>6. Kept' /\ Close' /\ Recorded'
  BY <1>1, <1>4 DEF Kept, Close, Recorded, IsAt, ToIndex
<1>7. (NotApprovedTwice /\ NoEmptyApproval /\ RevisionsGapless /\ WordingHasRevision
         /\ EngineAfterRecord)'
  BY <1>1 DEF NotApprovedTwice, NoEmptyApproval, RevisionsGapless, WordingHasRevision,
              EngineAfterRecord, HasItem
<1>8. IndexCovers'
  BY <1>3 DEF IndexCovers
<1> QED BY <1>5, <1>6, <1>7, <1>8

LEMMA StepIInv == IInv /\ [Next]_vars => IInv'
<1> SUFFICES ASSUME IInv, [Next]_vars PROVE IInv'
  OBVIOUS
<1>t. TypeOK /\ Idle \in Handler /\ Idle.at = "idle"
  BY DEF IInv, Handler, Idle
<1>1. ASSUME NEW s \in Request, NEW p \in Proposal,
             NEW purpose \in {"approving", "rejecting"}, LoadProposal(s, p, purpose)
      PROVE  IInv'
  <2> DEFINE h == [at |-> purpose, on |-> p]
  <2>1. h \in Handler /\ h.at \in {"approving", "rejecting"}
    BY DEF Handler
  <2>2. /\ request' = [request EXCEPT ![s] = h] /\ request[s].at = "idle"
        /\ UNCHANGED <<database, engine, index, faults>>
    BY <1>1 DEF LoadProposal, Goes, IsAt
  <2> HIDE DEF h
  <2> QED BY <2>1, <2>2, Moves DEF ToIndex
<1>2. ASSUME NEW s \in Request, NEW w \in Wording, CommitApproval(s, w) PROVE IInv'
  BY <1>2, ApprovalKeeps
<1>3. ASSUME NEW s \in Request, ApprovalClashes(s) PROVE IInv'
  <2>1. /\ request' = [request EXCEPT ![s] = Idle] /\ request[s].at = "approving"
        /\ UNCHANGED <<database, engine, index, faults>>
    BY <1>3 DEF ApprovalClashes, Goes, IsAt
  <2> QED BY <1>t, <2>1, Moves DEF ToIndex
<1>4. ASSUME NEW s \in Request, TellDecline(s) PROVE IInv'
  <2> DEFINE h == [request[s] EXCEPT !.at = "declined"]
  <2>1. /\ request' = [request EXCEPT ![s] = h] /\ request[s].at = "rejecting"
        /\ Tell(request[s].on, "decline") /\ UNCHANGED <<database, index, faults>>
    BY <1>4 DEF TellDecline, Goes, IsAt
  <2>2. request[s] \in [at : {"approving", "rejecting", "declined", "telling"}, on : Proposal]
    BY <1>t, <2>1, RequestFacts
  <2>3. h \in Handler /\ h.at = "declined" /\ request[s].on \in Proposal
    BY <2>2 DEF Handler
  <2> HIDE DEF h
  <2> QED BY <2>1, <2>3, Tells DEF ToIndex
<1>5. ASSUME NEW s \in Request, CommitRejection(s) PROVE IInv'
  BY <1>5, RejectionKeeps
<1>6. ASSUME NEW s \in Request, TellApproval(s) PROVE IInv'
  <2>1. /\ request' = [request EXCEPT ![s] = Idle] /\ request[s].at = "telling"
        /\ Tell(request[s].on, "approve") /\ UNCHANGED <<database, index, faults>>
    BY <1>6 DEF TellApproval, Goes, IsAt
  <2>2. request[s].on \in Proposal /\ HasItem(request[s].on)
    BY <1>t, <2>1, RequestFacts DEF IInv, Kept, IsAt
  <2> QED BY <1>t, <2>1, <2>2, Tells DEF ToIndex
<1>7. ASSUME NEW s \in Request, NEW p \in Proposal, LoadItem(s, p) PROVE IInv'
  <2> DEFINE h == [at |-> "editing", on |-> p, seen |-> item[p]]
  <2>1. /\ request' = [request EXCEPT ![s] = h] /\ request[s].at = "idle" /\ HasItem(p)
        /\ UNCHANGED <<database, engine, index, faults>>
    BY <1>7 DEF LoadItem, Goes, IsAt
  <2>2. item[p] \in Item
    BY <1>t, <2>1, ItemFacts
  <2>3. h \in Handler /\ h.at = "editing" /\ h.on = p
    BY <2>2 DEF Handler
  <2> HIDE DEF h
  <2> QED BY <2>1, <2>3, Moves DEF ToIndex
<1>8. ASSUME NEW s \in Request, ReadRevision(s) PROVE IInv'
  <2> DEFINE p == request[s].on
             v == item[p].version
             h == [at |-> "numbered", on |-> p, seen |-> request[s].seen, number |-> v + 1]
  <2>1. request[s].at = "editing"
    BY <1>8 DEF ReadRevision, IsAt
  <2>2. p \in Proposal /\ request[s].seen \in Item /\ HasItem(p)
    BY <1>t, <2>1, RequestFacts DEF IsAt, IInv, Kept
  <2>3. v \in Nat \ {0}
    BY <1>t, <2>2, ItemFacts
  <2>4. Max({r.number : r \in revisions[p]}) = v
    <3>1. {r.number : r \in revisions[p]} = 1..v
      BY <2>2 DEF IInv, RevisionsGapless
    <3> HIDE DEF v, p
    <3> QED BY <2>3, <3>1, MaxOfRange
  <2>5. /\ v < MaxRevisions /\ request' = [request EXCEPT ![s] = h]
        /\ UNCHANGED <<database, engine, index, faults>>
    BY <1>8, <2>4 DEF ReadRevision, Goes
  <2>6. v + 1 \in 2..MaxRevisions
    BY <2>3, <2>5, ReviewAssumption
  <2>7. h \in Handler /\ h.at = "numbered" /\ h.on = p /\ h.number = v + 1
    BY <2>2, <2>6 DEF Handler
  <2>8. h.number <= item[h.on].version + 1
    BY <2>3, <2>7
  <2> HIDE DEF h, v, p
  <2> QED BY <2>1, <2>2, <2>5, <2>7, <2>8, Moves DEF ToIndex
<1>9. ASSUME NEW s \in Request, NEW w \in Wording, CommitRevision(s, w) PROVE IInv'
  BY <1>9, RevisionKeeps
<1>10. ASSUME NEW s \in Request, RevisionClashes(s) PROVE IInv'
  <2>1. /\ request' = [request EXCEPT ![s] = Idle] /\ request[s].at = "numbered"
        /\ UNCHANGED <<database, engine, index, faults>>
    BY <1>10 DEF RevisionClashes, Goes, IsAt
  <2> QED BY <1>t, <2>1, Moves DEF ToIndex
<1>11. ASSUME NEW s \in Request, RefreshItem(s) PROVE IInv'
  <2> DEFINE p  == request[s].on
             to == IF IsAt(s, "approved") THEN "inserting" ELSE "replacing"
             h  == [at |-> to, on |-> p, statement |-> item[p].statement]
  <2>1. /\ request' = [request EXCEPT ![s] = h] /\ request[s].at \in {"approved", "superseded"}
        /\ UNCHANGED <<database, engine, index, faults>>
    BY <1>11 DEF RefreshItem, Goes
  <2>2. p \in Proposal /\ HasItem(p)
    BY <1>t, <2>1, RequestFacts DEF IsAt, IInv, Kept, ToIndex
  <2>3. item[p] \in Item
    BY <1>t, <2>2, ItemFacts
  <2>4. /\ h \in Handler /\ h.at \in {"inserting", "replacing"} /\ h.on = p
        /\ h.statement = item[p].statement
    BY <2>2, <2>3 DEF Handler, Item
  <2>5. \E r \in revisions[p] : r.statement = item[p].statement
    BY <2>2 DEF IInv, WordingHasRevision
  <2> HIDE DEF h, p
  <2> QED BY <2>1, <2>2, <2>4, <2>5, Moves DEF ToIndex, p
<1>12. ASSUME NEW s \in Request, SyncIndex(s) PROVE IInv'
  BY <1>12, SyncKeeps
<1>13. ASSUME NEW s \in Request, SyncFails(s) PROVE IInv'
  BY <1>13, SyncFailureKeeps
<1>14. ASSUME Restart PROVE IInv'
  BY <1>14, RestartKeeps
<1>15. CASE UNCHANGED vars
  BY <1>15 DEF vars, IInv, TypeOK, Kept, Close, Recorded, NotApprovedTwice, NoEmptyApproval,
               RevisionsGapless, WordingHasRevision, EngineAfterRecord, IndexCovers, IsAt,
               HasItem
<1> QED
  BY <1>1, <1>2, <1>3, <1>4, <1>5, <1>6, <1>7, <1>8, <1>9, <1>10, <1>11, <1>12, <1>13,
     <1>14, <1>15 DEF Next

LEMMA Inductive == Spec => []IInv
BY InitIInv, StepIInv, PTL DEF Spec

-----------------------------------------------------------------------------
(* The theorems.                                                           *)

\* The tables of review, the index and what every handler has read keep their
\* types.
THEOREM ReviewTypeCorrect == Spec => []TypeOK
<1>1. IInv => TypeOK
  BY DEF IInv
<1> QED BY <1>1, Inductive, PTL

\* However many people approve and reject at once, a proposal is approved at
\* most once, and one that is marked approved has its canonical item.
THEOREM ApprovedOnce == Spec => []ApprovalStands
<1>1. IInv => ApprovalStands
  BY DEF IInv, ApprovalStands
<1> QED BY <1>1, Inductive, PTL

\* However many people supersede an item at once, its revisions are numbered
\* without a gap or a repetition, and its wording is that of one of them.
THEOREM Revised == Spec => []HistoryComplete
<1>1. IInv => HistoryComplete
  BY DEF IInv, HistoryComplete
<1> QED BY <1>1, Inductive, PTL

\* The engine never hears of an approval that has left no canonical item; and
\* until an index update fails, every item that nobody is about to index can be
\* found under a wording it has or had.
THEOREM RecordFirst == Spec => []RecordLeads
<1>1. IInv => RecordLeads
  BY DEF IInv, RecordLeads
<1> QED BY <1>1, Inductive, PTL
=============================================================================
