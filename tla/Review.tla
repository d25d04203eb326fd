-------------------------------- MODULE Review --------------------------------
(***************************************************************************)
(* From the review queue to canonical knowledge (api/brain/services.py,    *)
(* main.py, retrieval.py): people approve, reject and supersede, each      *)
(* request in a database session of its own.  A handler tests what it has  *)
(* loaded and commits later; unique keys are all that stops two of them.   *)
(* After the commit it brings the search index up to date, in another      *)
(* session and on a best-effort basis, and tells the retrieval engine how  *)
(* a derived fact was decided.                                             *)
(*                                                                         *)
(* A knowledge row is unique per proposal, so it carries the proposal's    *)
(* name.  The search index is SQLite's; PostgreSQL maintains its own.      *)
(***************************************************************************)
EXTENDS Naturals, FiniteSetsExt

CONSTANTS Proposal,      \* proposals with evidence
          Derived,       \* those the engine derived
          Wording,       \* statements
          Request,       \* bound: requests in flight
          MaxRevisions,  \* bound: revisions of one item
          MaxFaults      \* bound: restarts and failed index updates

ASSUME ReviewAssumption ==
  /\ Derived \subseteq Proposal
  /\ MaxRevisions \in Nat \ {0}
  /\ MaxFaults \in Nat

VARIABLES status,     \* proposals.status
          item,       \* the knowledge row of a proposal
          revisions,  \* its knowledge_revisions
          approvals,  \* its knowledge.approved audit events
          engine,     \* what the engine was last told of it
          index,      \* its rows in the full-text table, by wording
          request,    \* per request: where its handler is and what it has read
          faults

database == <<status, item, revisions, approvals>>
vars == <<status, item, revisions, approvals, engine, index, request, faults>>

NoItem    == [version |-> 0]
Item      == [statement : Wording, version : 1..MaxRevisions]
Revision  == [number : 1..MaxRevisions, statement : Wording]
Idle      == [at |-> "idle"]
IsAt(s, stage)  == request[s].at = stage
Goes(s, to)     == request' = [request EXCEPT ![s] = to]
HasItem(p)      == item[p] # NoItem

\* A handler between its commit and the update of the index.
ToIndex == {"approved", "superseded", "inserting", "replacing"}

Handler ==
  {Idle}
  \cup [at : {"approving", "rejecting", "declined", "telling"}, on : Proposal]
  \cup [at : {"editing"}, on : Proposal, seen : Item]
  \cup [at : {"numbered"}, on : Proposal, seen : Item, number : 2..MaxRevisions]
  \cup [at : {"approved", "superseded"}, on : Proposal]
  \cup [at : {"inserting", "replacing"}, on : Proposal, statement : Wording]

TypeOK ==
  /\ status \in [Proposal -> {"proposed", "approved", "rejected"}]
  /\ item \in [Proposal -> {NoItem} \cup Item]
  /\ revisions \in [Proposal -> SUBSET Revision]
  /\ approvals \in [Proposal -> Nat]
  /\ engine \in [Proposal -> {"none", "approve", "decline"}]
  /\ \A p \in Proposal \ Derived : engine[p] = "none"
  /\ index \in [Proposal -> [Wording -> Nat]]
  /\ request \in [Request -> Handler]
  /\ faults \in 0..MaxFaults

NoRows == [w \in Wording |-> 0]

Init ==
  /\ status = [p \in Proposal |-> "proposed"]
  /\ item = [p \in Proposal |-> NoItem]
  /\ revisions = [p \in Proposal |-> {}]
  /\ approvals = [p \in Proposal |-> 0]
  /\ engine = [p \in Proposal |-> "none"]
  /\ index = [p \in Proposal |-> NoRows]
  /\ request = [s \in Request |-> Idle]
  /\ faults = 0

-----------------------------------------------------------------------------
(* Deciding.  Both handlers test the status of the row they loaded.        *)

LoadProposalClaiming(s, p, purpose) ==     \* slip: the status is committed first
  /\ IsAt(s, "idle") /\ status[p] = "proposed"
  /\ status' = [status EXCEPT ![p] = IF purpose = "approving" THEN "approved" ELSE @]
  /\ Goes(s, [at |-> purpose, on |-> p])
  /\ UNCHANGED <<item, revisions, approvals, engine, index, faults>>

LoadProposal(s, p, purpose) ==
  /\ IsAt(s, "idle") /\ status[p] = "proposed"
  /\ Goes(s, [at |-> purpose, on |-> p])
  /\ UNCHANGED <<database, engine, index, faults>>

\* knowledge.proposal_id is unique.
ItemFreeUnchecked(p) == TRUE               \* slip: no unique key
ItemFree(p) == ~HasItem(p)

CommitApproval(s, w) ==
  LET p == request[s].on
  IN /\ IsAt(s, "approving") /\ ItemFree(p)
     /\ status' = [status EXCEPT ![p] = "approved"]
     /\ item' = [item EXCEPT ![p] = [statement |-> w, version |-> 1]]
     /\ revisions' = [revisions EXCEPT ![p] = @ \cup {[number |-> 1, statement |-> w]}]
     /\ approvals' = [approvals EXCEPT ![p] = @ + 1]
     /\ Goes(s, [at |-> "approved", on |-> p])
     /\ UNCHANGED <<engine, index, faults>>

\* The key is taken: everything is rolled back.
ApprovalClashes(s) ==
  /\ IsAt(s, "approving") /\ ~ItemFree(request[s].on)
  /\ Goes(s, Idle)
  /\ UNCHANGED <<database, engine, index, faults>>

\* The engine may not hear it; a proposal of our own has no memory to review.
Tell(p, decision) ==
  \/ p \in Derived /\ engine' = [engine EXCEPT ![p] = decision]
  \/ UNCHANGED engine

\* reject tells the engine before it commits.
TellDecline(s) ==
  /\ IsAt(s, "rejecting")
  /\ Tell(request[s].on, "decline")
  /\ Goes(s, [request[s] EXCEPT !.at = "declined"])
  /\ UNCHANGED <<database, index, faults>>

RejectedMisspelt == "decline"              \* slip: the engine's word for it
Rejected == "rejected"

CommitRejection(s) ==
  /\ IsAt(s, "declined")
  /\ status' = [status EXCEPT ![request[s].on] = Rejected]
  /\ Goes(s, Idle)
  /\ UNCHANGED <<item, revisions, approvals, engine, index, faults>>

\* approve tells it when everything else is done.
TellApprovalEarly(s) ==                    \* slip: like reject, before the commit
  /\ request[s].at \in {"approving", "telling"}
  /\ Tell(request[s].on, "approve")
  /\ IF IsAt(s, "telling") THEN Goes(s, Idle) ELSE UNCHANGED request
  /\ UNCHANGED <<database, index, faults>>

TellApproval(s) ==
  /\ IsAt(s, "telling")
  /\ Tell(request[s].on, "approve")
  /\ Goes(s, Idle)
  /\ UNCHANGED <<database, index, faults>>

-----------------------------------------------------------------------------
(* Superseding: the item is loaded first, its newest revision read later.  *)

LoadItem(s, p) ==
  /\ IsAt(s, "idle") /\ HasItem(p)
  /\ Goes(s, [at |-> "editing", on |-> p, seen |-> item[p]])
  /\ UNCHANGED <<database, engine, index, faults>>

ReadRevision(s) ==
  LET newest == Max({r.number : r \in revisions[request[s].on]})
  IN /\ IsAt(s, "editing")
     /\ newest < MaxRevisions
     /\ Goes(s, [at |-> "numbered", on |-> request[s].on, seen |-> request[s].seen,
                 number |-> newest + 1])
     /\ UNCHANGED <<database, engine, index, faults>>

\* (knowledge_id, revision) is unique.
NumberFreeUnchecked(p, n) == TRUE          \* slip: no unique key
NumberFree(p, n) == \A r \in revisions[p] : r.number # n

NewRevisionOfOld(n, w, seen) == [number |-> n, statement |-> seen.statement]
                                           \* slip: the wording it replaces is stored
NewRevision(n, w, seen) == [number |-> n, statement |-> w]

\* A column that is set to the value it was loaded with is not written; the
\* number is always newer than the version loaded.
CommitRevision(s, w) ==
  LET p    == request[s].on
      seen == request[s].seen
      n    == request[s].number
  IN /\ IsAt(s, "numbered") /\ NumberFree(p, n)
     /\ revisions' = [revisions EXCEPT ![p] = @ \cup {NewRevision(n, w, seen)}]
     /\ item' = [item EXCEPT ![p].statement = IF w # seen.statement THEN w ELSE @,
                             ![p].version   = n]
     /\ Goes(s, [at |-> "superseded", on |-> p])
     /\ UNCHANGED <<status, approvals, engine, index, faults>>

RevisionClashes(s) ==
  /\ IsAt(s, "numbered") /\ ~NumberFree(request[s].on, request[s].number)
  /\ Goes(s, Idle)
  /\ UNCHANGED <<database, engine, index, faults>>

-----------------------------------------------------------------------------
(* The index.  The handler reads its row again and indexes what it read.   *)

RefreshItem(s) ==
  LET p == request[s].on
  IN /\ request[s].at \in {"approved", "superseded"}
     /\ Goes(s, [at |-> IF IsAt(s, "approved") THEN "inserting" ELSE "replacing",
                 on |-> p, statement |-> item[p].statement])
     /\ UNCHANGED <<database, engine, index, faults>>

\* sync_fts_insert adds a row, sync_fts_update deletes the item's rows first.
IndexedDeleting(rows, stage, w) ==         \* slip: an update deletes and adds nothing
  IF stage = "inserting" THEN [rows EXCEPT ![w] = @ + 1] ELSE NoRows
Indexed(rows, stage, w) ==
  IF stage = "inserting" THEN [rows EXCEPT ![w] = @ + 1] ELSE [NoRows EXCEPT ![w] = 1]

\* Only an approval has something to tell the engine afterwards.
AfterSync(s) == IF IsAt(s, "inserting") THEN [at |-> "telling", on |-> request[s].on] ELSE Idle

SyncIndex(s) ==
  LET q == request[s]
  IN /\ q.at \in {"inserting", "replacing"}
     /\ index' = [index EXCEPT ![q.on] = Indexed(@, q.at, q.statement)]
     /\ Goes(s, AfterSync(s))
     /\ UNCHANGED <<database, engine, faults>>

SyncFails(s) ==
  /\ request[s].at \in {"inserting", "replacing"}
  /\ faults < MaxFaults /\ faults' = faults + 1
  /\ Goes(s, AfterSync(s))
  /\ UNCHANGED <<database, engine, index>>

\* The server stops, whatever it was doing, and starts: rebuild_fts.
Restart ==
  /\ faults < MaxFaults /\ faults' = faults + 1
  /\ request' = [s \in Request |-> Idle]
  /\ index' = [p \in Proposal |-> IF HasItem(p) THEN [NoRows EXCEPT ![item[p].statement] = 1]
                                  ELSE NoRows]
  /\ UNCHANGED <<database, engine>>

-----------------------------------------------------------------------------
Next ==
  \/ \E s \in Request, p \in Proposal, purpose \in {"approving", "rejecting"} :
       LoadProposal(s, p, purpose)
  \/ \E s \in Request, w \in Wording : CommitApproval(s, w)
  \/ \E s \in Request : ApprovalClashes(s)
  \/ \E s \in Request : TellDecline(s)
  \/ \E s \in Request : CommitRejection(s)
  \/ \E s \in Request : TellApproval(s)
  \/ \E s \in Request, p \in Proposal : LoadItem(s, p)
  \/ \E s \in Request : ReadRevision(s)
  \/ \E s \in Request, w \in Wording : CommitRevision(s, w)
  \/ \E s \in Request : RevisionClashes(s)
  \/ \E s \in Request : RefreshItem(s)
  \/ \E s \in Request : SyncIndex(s)
  \/ \E s \in Request : SyncFails(s)
  \/ Restart

Spec == Init /\ [][Next]_vars

-----------------------------------------------------------------------------
\* "A proposal cannot be approved twice", also not by two people at once: one
\* approval on record for an item, none without.
NotApprovedTwice ==
  \A p \in Proposal : approvals[p] = IF HasItem(p) THEN 1 ELSE 0

\* An approved proposal with no canonical item would be "worse than refusing".
NoEmptyApproval == \A p \in Proposal : status[p] = "approved" => HasItem(p)

\* An approval and its item come together, once.
ApprovalStands == NotApprovedTwice /\ NoEmptyApproval

\* The revisions of an item are numbered 1 to its version, each once, however
\* many people superseded it at the same time.
RevisionsGapless ==
  \A p \in Proposal :
    /\ {r.number : r \in revisions[p]} = 1..item[p].version
    /\ \A q, r \in revisions[p] : q.number = r.number => q = r

\* "Every canonical wording change creates a new knowledge revision": the
\* canonical wording is that of one of the item's revisions.
WordingHasRevision ==
  \A p \in Proposal :
    HasItem(p) => \E r \in revisions[p] : r.statement = item[p].statement

\* The revisions are the whole history of an item's wording.
HistoryComplete == RevisionsGapless /\ WordingHasRevision

\* The engine hears of an approval only when there is canonical knowledge.
EngineAfterRecord == \A p \in Proposal : engine[p] = "approve" => HasItem(p)

\* Unless an update of the index failed, an item is in the index under a
\* wording it has or had, as soon as no handler is about to index it.
IndexCovers ==
  faults = 0 =>
    \A p \in Proposal :
      HasItem(p) =>
        \/ \E s \in Request : request[s].at \in ToIndex /\ request[s].on = p
        \/ \E r \in revisions[p] : index[p][r.statement] > 0

\* What follows the record does follow it: the engine hears of knowledge that is
\* there, and the index misses none of it.
RecordLeads == EngineAfterRecord /\ IndexCovers
=============================================================================
