-------------------------------- MODULE Backup --------------------------------
(***************************************************************************)
(* Export and restore of a workspace (api/brain/services.py 970-1290).  An *)
(* export reads its tables one after another, each as committed at that    *)
(* moment, while people go on writing; the file is kept outside the brain. *)
(* A restore looks whether the workspace is empty, and writes the file's   *)
(* rows in one transaction later.                                          *)
(*                                                                         *)
(* The database is the rows of each table.  What writers do in detail is   *)
(* in Sources and Review: here each is the one commit it makes.  Foreign   *)
(* keys are enforced, as PostgreSQL does.  A brain that was lost is built  *)
(* again empty, under the same workspace id.                               *)
(***************************************************************************)
EXTENDS Naturals, FiniteSets

CONSTANTS Source, Private,     \* sources, and the private ones
          Proposal, SourceOf,  \* a proposal and its knowledge have one name
          Request,             \* bound: requests to restore in flight
          MaxNumber,           \* bound: versions of a source, revisions of an item
          MaxRows,             \* bound: versions and revisions that people write
          MaxWipes             \* bound: times the brain is lost

ASSUME BackupAssumption ==
  /\ Private \subseteq Source
  /\ SourceOf \in [Proposal -> Source]
  /\ MaxNumber \in Nat \ {0} /\ MaxRows \in Nat
  /\ MaxWipes \in Nat

VARIABLES db,       \* the rows of each table
          brain,    \* how often the brain has been built again
          names,    \* the sources and proposals that were ever created
          export,   \* the export under way: exports only read, and do not interact
          file,     \* the last export that was completed
          request   \* per request to restore: the rows it is to write

vars == <<db, brain, names, export, file, request>>

Role    == {"admin", "member"}
Number  == 1..MaxNumber
Tables  == {"sources", "versions", "proposals", "evidence", "knowledge", "revisions", "events"}
\* An audit event has the brain it was written in and the source it tells of,
\* if any: its resource_id names that source, or an item drawn from it.
Rows    == [sources   : SUBSET Source,   versions  : SUBSET (Source \X Number),
            proposals : SUBSET Proposal, evidence  : SUBSET (Proposal \X Number),
            knowledge : SUBSET Proposal, revisions : SUBSET (Proposal \X Number),
            events    : SUBSET ((0..MaxWipes) \X SUBSET Source)]
NoRows  == [t \in Tables |-> {}]
NoFile  == [role |-> "none"]
Idle    == [at |-> "idle"]
IsAt(s, stage) == request[s].at = stage
Goes(s, to)    == request' = [request EXCEPT ![s] = to]

Exporting == Tables \ {"sources"}

TypeOK ==
  /\ db \in Rows
  /\ brain \in 0..MaxWipes
  /\ names \subseteq Source \cup Proposal
  /\ file \in {NoFile} \cup [role : Role, rows : Rows]
  /\ export \in {Idle} \cup [at : Exporting, role : Role, rows : Rows, quiet : BOOLEAN]
  /\ request \in [Request -> {Idle} \cup [at : {"restoring"}, rows : Rows]]

Init ==
  /\ db = NoRows
  /\ brain = 0
  /\ names = {}
  /\ export = Idle
  /\ file = NoFile
  /\ request = [s \in Request |-> Idle]

\* Every foreign key between the tables leads to a row.
Closed(d) ==
  /\ \A v \in d.versions : v[1] \in d.sources
  /\ \A p \in d.proposals : SourceOf[p] \in d.sources
  /\ \A e \in d.evidence : e[1] \in d.proposals /\ <<SourceOf[e[1]], e[2]>> \in d.versions
  /\ \A k \in d.knowledge : k \in d.proposals /\ SourceOf[k] \in d.sources
  /\ \A r \in d.revisions : r[1] \in d.knowledge

PlusMatching(d, more) ==                   \* slip: evidence that leads nowhere is left out
  [t \in Tables |-> d[t] \cup
     IF t = "evidence" THEN {e \in more[t] : <<SourceOf[e[1]], e[2]>> \in more["versions"]}
     ELSE more[t]]

Plus(d, more)    == [t \in Tables |-> d[t] \cup more[t]]
Overlap(d, more) == \E t \in Tables : d[t] \cap more[t] # {}
Within(d, all)   == \A t \in Tables : d[t] \subseteq all[t]

-----------------------------------------------------------------------------
(* Writers.  Each adds its rows and an audit event about them in one       *)
(* commit.                                                                 *)

\* History: an export that a commit overlaps is not quiet any more.
Overlapped == export' = IF export = Idle THEN Idle ELSE [export EXCEPT !.quiet = FALSE]

WithinBounds(n) == n <= MaxNumber /\ Cardinality(db.versions) + Cardinality(db.revisions) < MaxRows

Writes(more, about) ==
  /\ db' = Plus(db, [more EXCEPT !.events = {<<brain, about>>}])
  /\ Overlapped

DrawnBare(P, x, n) ==                      \* slip: evidence that names no version
  [NoRows EXCEPT !.versions = {<<x, n>>}, !.proposals = P, !.evidence = P]

\* Proposals drawn from a version of a source.
Drawn(P, x, n) ==
  [NoRows EXCEPT !.versions = {<<x, n>>}, !.proposals = P, !.evidence = P \X {n}]

Capture(x, P) ==
  /\ x \notin names /\ WithinBounds(1)
  /\ Writes([Drawn(P, x, 1) EXCEPT !.sources = {x}], {x})
  /\ names' = names \cup {x} \cup P
  /\ UNCHANGED <<brain, file, request>>

AddVersion(x, P) ==
  LET n == Cardinality({v \in db.versions : v[1] = x}) + 1
  IN /\ x \in db.sources /\ WithinBounds(n)
     /\ Writes(Drawn(P, x, n), {x})
     /\ names' = names \cup P
     /\ UNCHANGED <<brain, file, request>>

\* An approval, which makes the item, or a revision that replaces its wording.
Revise(p) ==
  LET n == Cardinality({r \in db.revisions : r[1] = p}) + 1
  IN /\ p \in db.proposals /\ WithinBounds(n)
     /\ Writes([NoRows EXCEPT !.knowledge = {p}, !.revisions = {<<p, n>>}], {SourceOf[p]})
     /\ UNCHANGED <<brain, names, file, request>>

Login ==
  /\ Writes(NoRows, {})
  /\ UNCHANGED <<brain, names, file, request>>

-----------------------------------------------------------------------------
(* Export.  Roots are narrowed to what the role may read; child rows are   *)
(* those of the roots already read.  Audit events are not narrowed at all. *)

MayRead(role, x) == role = "admin" \/ x \notin Private

Scoped(role, d) ==
  [d EXCEPT !.sources   = {x \in @ : MayRead(role, x)},
            !.proposals = {p \in @ : MayRead(role, SourceOf[p])},
            !.knowledge = {p \in @ : MayRead(role, SourceOf[p])}]

OfReadSources(e, rows) == {v \in rows : v[1] \in e.rows.sources}

UnscopedChild(e, table) == Scoped(e.role, db)[table]   \* slip: the whole child table

\* The rows of a table that an export takes.
Taken(e, table) ==
  LET readable == Scoped(e.role, db)[table]
  IN CASE table = "versions"  -> OfReadSources(e, readable)
       [] table = "evidence"  -> {v \in readable : v[1] \in e.rows.proposals}
       [] table = "revisions" -> {v \in readable : v[1] \in e.rows.knowledge}
       [] OTHER               -> readable

AfterSwapped ==                            \* slip: evidence is read before its proposals
  [versions |-> "evidence", evidence |-> "proposals", proposals |-> "knowledge",
   knowledge |-> "revisions", revisions |-> "events"]

After == [versions |-> "proposals", proposals |-> "evidence", evidence |-> "knowledge",
          knowledge |-> "revisions", revisions |-> "events"]

ReadSources(role) ==
  /\ export = Idle /\ db # NoRows
  /\ export' = [at |-> "versions", role |-> role, quiet |-> TRUE,
                rows |-> [NoRows EXCEPT !.sources = Scoped(role, db).sources]]
  /\ UNCHANGED <<db, brain, names, file, request>>

ReadTable ==
  /\ export.at \in DOMAIN After
  /\ export' = [export EXCEPT !.at = After[@], !.rows[export.at] = Taken(export, export.at)]
  /\ UNCHANGED <<db, brain, names, file, request>>

\* Every event of the workspace, whoever asks.
ReadEvents ==
  /\ export.at = "events"
  /\ file' = [role |-> export.role, rows |-> [export.rows EXCEPT !.events = db.events]]
  /\ export' = Idle
  /\ UNCHANGED <<db, brain, names, request>>

-----------------------------------------------------------------------------
(* Restore.                                                                *)

EmptyWorkspace(d) ==
  \A t \in {"sources", "proposals", "knowledge", "events"} : d[t] = {}

CheckEmpty(s) ==
  /\ IsAt(s, "idle") /\ file # NoFile /\ EmptyWorkspace(db)
  /\ Goes(s, [at |-> "restoring", rows |-> file.rows])
  /\ UNCHANGED <<db, brain, names, export, file>>

\* Parents are flushed before children, and everything is committed at once.
CanInsert(d, rows) == ~Overlap(d, rows) /\ Closed(Plus(d, rows))

CommitRestore(s) ==
  /\ IsAt(s, "restoring") /\ CanInsert(db, request[s].rows)
  /\ db' = Plus(db, request[s].rows)
  /\ Overlapped
  /\ Goes(s, Idle)
  /\ UNCHANGED <<brain, names, file>>

\* A key clashes or leads nowhere: nothing at all is written.
RestoreFails(s) ==
  /\ IsAt(s, "restoring") /\ ~CanInsert(db, request[s].rows)
  /\ Goes(s, Idle)
  /\ UNCHANGED <<db, brain, names, export, file>>

-----------------------------------------------------------------------------

ExportDies ==
  /\ export # Idle
  /\ export' = Idle
  /\ UNCHANGED <<db, brain, names, file, request>>

Dies(s) ==
  /\ ~IsAt(s, "idle")
  /\ Goes(s, Idle)
  /\ UNCHANGED <<db, brain, names, export, file>>

\* The brain is lost and built again; ids are random, so none comes twice.
Wipe ==
  /\ brain < MaxWipes
  /\ brain' = brain + 1
  /\ db' = NoRows
  /\ export' = Idle
  /\ request' = [s \in Request |-> Idle]
  /\ UNCHANGED <<names, file>>

Fresh(x) == {p \in Proposal : SourceOf[p] = x} \ names

Write ==
  \/ \E x \in Source : \E P \in SUBSET Fresh(x) : Capture(x, P) \/ AddVersion(x, P)
  \/ \E p \in Proposal : Revise(p)
  \/ Login

Export ==
  \/ \E role \in Role : ReadSources(role)
  \/ ReadTable \/ ReadEvents \/ ExportDies

Restore(s) == CheckEmpty(s) \/ CommitRestore(s) \/ RestoreFails(s)

Next == Write \/ Wipe \/ Export \/ \E s \in Request : Restore(s) \/ Dies(s)

Spec == Init /\ [][Next]_vars

-----------------------------------------------------------------------------
(* Properties.                                                             *)

\* A member's export, too, has the events of the sources left out of it.
Whole(role, rows) ==
  /\ Closed(rows)
  /\ \A t \in {"sources", "proposals", "knowledge"} : rows[t] = Scoped(role, db)[t]
  /\ rows.events = db.events
  /\ role = "admin" => rows = db

\* An export that no write overlapped is exactly what its role may read and
\* the audit events of all there is, and can be restored: every reference in it
\* leads to a row of it.
QuietExportIsWhole == [][file' # file /\ export.quiet => Whole(file'.role, file'.rows)]_vars

Linked(rows) ==
  /\ \A v \in rows.versions : v[1] \in rows.sources
  /\ \A e \in rows.evidence : e[1] \in rows.proposals
  /\ \A r \in rows.revisions : r[1] \in rows.knowledge

\* The tables of an export but for its audit events.
Readable(role, rows) ==
  \A x \in rows.sources \cup {SourceOf[p] : p \in rows.proposals \cup rows.knowledge} :
    MayRead(role, x)

\* Every source has the event of its capture.
Told(rows) == \A x \in rows.sources : \E e \in rows.events : x \in e[2]

\* Whatever overlapped it, an export never has a source, proposal or item of
\* knowledge its role may not read, nor a version, evidence or revision without
\* the row it is of, and the trail of every source it has is in it.  It holds
\* for these tables only: the audit events of a member's export tell of private
\* sources also.
ExportIsReadable ==
  file # NoFile => Linked(file.rows) /\ Readable(file.role, file.rows) /\ Told(file.rows)

\* A file is in the database with all of its rows or with none: a restore that
\* was cut short, clashed with another or met new rows leaves no part of it.
AllOrNothing ==
  file # NoFile => Within(file.rows, db) \/ ~Overlap(file.rows, db)
=============================================================================
