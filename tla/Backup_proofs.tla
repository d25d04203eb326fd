----------------------------- MODULE Backup_proofs ----------------------------
(***************************************************************************)
(* Export and restore for any sources, proposals and requests.  The rows   *)
(* of a brain only become more until it is lost, so what an export has     *)
(* read stays in the database, and a file is of this brain or of one that  *)
(* was lost: Apart says that nothing of the latter is in the database.     *)
(***************************************************************************)
EXTENDS Backup, FiniteSetTheorems, TLAPS

Names(rows) == rows.sources \cup rows.proposals \cup rows.knowledge

\* The rows are of a lost brain, and nothing of them was restored.
Apart(rows) ==
  /\ Names(rows) \cap Names(db) = {}
  /\ \A e \in db.events : e[1] = brain
  /\ \A e \in rows.events : e[1] # brain

\* The rows have names that were created, and events of this brain or before.
Known(rows) == Names(rows) \subseteq names /\ \A e \in rows.events : e[1] \in 0..brain

FileOK ==
  file # NoFile =>
    /\ Linked(file.rows) /\ Readable(file.role, file.rows)
    /\ Known(file.rows) /\ Told(file.rows)
    /\ Within(file.rows, db) \/ Apart(file.rows)

\* What a restore is about to write is the file, or the file is of this brain.
RestoresOK ==
  \A s \in Request : IsAt(s, "restoring") =>
    /\ file # NoFile
    /\ request[s].rows = file.rows \/ Within(file.rows, db)
    /\ Known(request[s].rows) /\ Told(request[s].rows)

\* The tables an export has still to read.
Unread(at) ==
  CASE at = "versions"  -> Exporting
    [] at = "proposals" -> Exporting \ {"versions"}
    [] at = "evidence"  -> {"evidence", "knowledge", "revisions", "events"}
    [] at = "knowledge" -> {"knowledge", "revisions", "events"}
    [] at = "revisions" -> {"revisions", "events"}
    [] OTHER            -> {"events"}

\* What a role may read, with the parents of every row.
Visible(role, d) ==
  [sources   |-> {x \in d.sources : MayRead(role, x)},
   versions  |-> {v \in d.versions : v[1] \in d.sources /\ MayRead(role, v[1])},
   proposals |-> {p \in d.proposals : MayRead(role, SourceOf[p])},
   evidence  |-> {e \in d.evidence : e[1] \in d.proposals /\ MayRead(role, SourceOf[e[1]])},
   knowledge |-> {p \in d.knowledge : MayRead(role, SourceOf[p])},
   revisions |-> {r \in d.revisions : r[1] \in d.knowledge /\ MayRead(role, SourceOf[r[1]])},
   events    |-> d.events]

ExportOK ==
  export # Idle =>
    /\ Within(export.rows, db)
    /\ Linked(export.rows) /\ Readable(export.role, export.rows)
    /\ \A t \in Unread(export.at) : export.rows[t] = {}
    /\ export.quiet => \A t \in Tables \ Unread(export.at) :
                         export.rows[t] = Visible(export.role, db)[t]

IInv == TypeOK /\ Closed(db) /\ Told(db) /\ Known(db) /\ ExportOK /\ FileOK /\ RestoresOK

-----------------------------------------------------------------------------
(* Rows.                                                                   *)

LEMMA PlusRows ==
  ASSUME NEW d \in Rows, NEW m \in Rows
  PROVE  /\ Plus(d, m) \in Rows
         /\ Within(d, Plus(d, m)) /\ Within(m, Plus(d, m))
         /\ Plus(d, m).sources = d.sources \cup m.sources
         /\ Plus(d, m).versions = d.versions \cup m.versions
         /\ Plus(d, m).proposals = d.proposals \cup m.proposals
         /\ Plus(d, m).evidence = d.evidence \cup m.evidence
         /\ Plus(d, m).knowledge = d.knowledge \cup m.knowledge
         /\ Plus(d, m).revisions = d.revisions \cup m.revisions
         /\ Plus(d, m).events = d.events \cup m.events
BY DEF Plus, Rows, Within, Tables

LEMMA WithinFields ==
  ASSUME NEW d, NEW e
  PROVE  Within(d, e) <=>
           /\ d.sources \subseteq e.sources /\ d.versions \subseteq e.versions
           /\ d.proposals \subseteq e.proposals /\ d.evidence \subseteq e.evidence
           /\ d.knowledge \subseteq e.knowledge /\ d.revisions \subseteq e.revisions
           /\ d.events \subseteq e.events
BY DEF Within, Tables

LEMMA WithinMore == \A d, e, f : Within(d, e) /\ Within(e, f) => Within(d, f)
BY DEF Within

LEMMA NoRowsAre ==
  /\ NoRows \in Rows
  /\ NoRows.sources = {} /\ NoRows.versions = {} /\ NoRows.proposals = {} /\ NoRows.evidence = {}
  /\ NoRows.knowledge = {} /\ NoRows.revisions = {} /\ NoRows.events = {}
BY DEF NoRows, Rows, Tables

\* Rows with their parents have nothing in common with rows of other names.
LEMMA ApartNoOverlap ==
  ASSUME NEW rows, Linked(rows), Closed(db), Apart(rows)
  PROVE  ~Overlap(rows, db)
<1>1. Linked(db)
  BY DEF Closed, Linked
<1> QED BY <1>1 DEF Overlap, Tables, Linked, Apart, Names

LEMMA NextNumber ==
  ASSUME NEW S, NEW M, M \subseteq S \X Number, NEW x
  PROVE  Cardinality({v \in M : v[1] = x}) \in Nat
<1>1. IsFiniteSet(1..MaxNumber)
  BY FS_Interval, BackupAssumption
<1>0. IsFiniteSet({x})
  BY FS_Singleton
<1>2. IsFiniteSet({x} \X (1..MaxNumber))
  BY <1>0, <1>1, FS_Product
<1>3. {v \in M : v[1] = x} \subseteq {x} \X (1..MaxNumber)
  BY DEF Number
<1>4. IsFiniteSet({v \in M : v[1] = x})
  BY <1>2, <1>3, FS_Subset
<1> QED BY <1>4, FS_CardinalityType

LEMMA VersionsCounted ==
  ASSUME TypeOK, NEW x \in Source
  PROVE  Cardinality({v \in db.versions : v[1] = x}) \in Nat
<1>1. db.versions \subseteq Source \X Number
  BY DEF TypeOK, Rows
<1> QED BY <1>1, NextNumber

-----------------------------------------------------------------------------
(* What a commit of a writer adds.                                         *)

\* Its rows, with their parents, under names that are new or of this brain.
Adds(more, new) ==
  /\ more \in Rows /\ \A e \in more.events : e[1] = brain
  /\ Closed(Plus(db, more)) /\ Told(more)
  /\ new \subseteq (Source \cup Proposal)
  /\ Names(more) \subseteq Names(db) \cup (new \ names)
  /\ db' = Plus(db, more) /\ names' = names \cup new
  /\ Overlapped /\ UNCHANGED <<brain, file, request>>

LEMMA CaptureAdds ==
  ASSUME TypeOK, Closed(db), NEW x \in Source, NEW P \in SUBSET Fresh(x), Capture(x, P)
  PROVE  \E more, new : Adds(more, new)
<1> USE BackupAssumption
<1> DEFINE more == [[Drawn(P, x, 1) EXCEPT !.sources = {x}] EXCEPT !.events = {<<brain, {x}>>}]
           new == {x} \cup P
<1>1. P \subseteq Proposal /\ P \cap names = {} /\ \A p \in P : SourceOf[p] = x
  BY DEF Fresh
<1>2. /\ more.sources = {x} /\ more.versions = {<<x, 1>>} /\ more.proposals = P
      /\ more.evidence = P \X {1} /\ more.knowledge = {} /\ more.revisions = {}
      /\ more.events = {<<brain, {x}>>}
  BY DEF Drawn, NoRows, Tables
<1>3. more \in Rows
  <2>1. /\ {x} \subseteq Source /\ {<<x, 1>>} \subseteq Source \X Number
        /\ P \X {1} \subseteq Proposal \X Number
        /\ {<<brain, {x}>>} \subseteq (0..MaxWipes) \X SUBSET Source
    BY <1>1 DEF TypeOK, Number
  <2> QED BY <1>1, <2>1, NoRowsAre DEF Drawn, Rows
<1>4. db' = Plus(db, more) /\ names' = names \cup new
      /\ Overlapped /\ UNCHANGED <<brain, file, request>>
  BY DEF Capture, Writes
<1>5. x \notin names
  BY DEF Capture
<1> HIDE DEF more
<1>6. Closed(Plus(db, more))
  BY <1>1, <1>2, <1>3, PlusRows DEF TypeOK, Closed
<1>7. Names(more) \subseteq Names(db) \cup (new \ names)
  BY <1>1, <1>2, <1>5 DEF Names
<1>8. Told(more) /\ \A e \in more.events : e[1] = brain
  BY <1>2 DEF Told
<1> QED BY <1>1, <1>3, <1>4, <1>6, <1>7, <1>8 DEF Adds

LEMMA VersionAdds ==
  ASSUME TypeOK, Closed(db), NEW x \in Source, NEW P \in SUBSET Fresh(x), AddVersion(x, P)
  PROVE  \E more, new : Adds(more, new)
<1> USE BackupAssumption
<1> DEFINE n == Cardinality({v \in db.versions : v[1] = x}) + 1
           more == [Drawn(P, x, n) EXCEPT !.events = {<<brain, {x}>>}]
<1>1. P \subseteq Proposal /\ P \cap names = {} /\ \A p \in P : SourceOf[p] = x
  BY DEF Fresh
<1>2. n \in Number
  <2>1. Cardinality({v \in db.versions : v[1] = x}) \in Nat
    BY VersionsCounted
  <2>2. n <= MaxNumber
    BY DEF AddVersion, WithinBounds
  <2> QED BY <2>1, <2>2 DEF Number
<1>3. x \in db.sources /\ db' = Plus(db, more) /\ names' = names \cup P
      /\ Overlapped /\ UNCHANGED <<brain, file, request>>
  BY DEF AddVersion, Writes
<1> HIDE DEF n
<1>4. /\ more.sources = {} /\ more.versions = {<<x, n>>} /\ more.proposals = P
      /\ more.evidence = P \X {n} /\ more.knowledge = {} /\ more.revisions = {}
      /\ more.events = {<<brain, {x}>>}
  BY DEF Drawn, NoRows, Tables
<1>5. more \in Rows
  <2>1. /\ {<<x, n>>} \subseteq Source \X Number
        /\ P \X {n} \subseteq Proposal \X Number
        /\ {<<brain, {x}>>} \subseteq (0..MaxWipes) \X SUBSET Source
    BY <1>1, <1>2 DEF TypeOK
  <2> QED BY <1>1, <2>1, NoRowsAre DEF Drawn, Rows
<1> HIDE DEF more
<1>6. Closed(Plus(db, more))
  BY <1>1, <1>3, <1>4, <1>5, PlusRows DEF TypeOK, Closed
<1>7. Names(more) \subseteq Names(db) \cup (P \ names)
  BY <1>1, <1>4 DEF Names
<1>8. Told(more) /\ \A e \in more.events : e[1] = brain
  BY <1>4 DEF Told
<1> QED BY <1>1, <1>3, <1>5, <1>6, <1>7, <1>8 DEF Adds

LEMMA RevisionAdds ==
  ASSUME TypeOK, Closed(db), NEW p \in Proposal, Revise(p)
  PROVE  \E more, new : Adds(more, new)
<1> USE BackupAssumption
<1> DEFINE n == Cardinality({r \in db.revisions : r[1] = p}) + 1
           more == [[NoRows EXCEPT !.knowledge = {p}, !.revisions = {<<p, n>>}]
                      EXCEPT !.events = {<<brain, {SourceOf[p]}>>}]
<1>1. n \in Number
  <2>0. db.revisions \subseteq Proposal \X Number
    BY DEF TypeOK, Rows
  <2>1. Cardinality({r \in db.revisions : r[1] = p}) \in Nat
    BY <2>0, NextNumber
  <2>2. n <= MaxNumber
    BY DEF Revise, WithinBounds
  <2> QED BY <2>1, <2>2 DEF Number
<1>2. p \in db.proposals /\ db' = Plus(db, more) /\ names' = names \cup {}
      /\ Overlapped /\ UNCHANGED <<brain, file, request>>
  BY DEF Revise, Writes
<1> HIDE DEF n
<1>3. /\ more.sources = {} /\ more.versions = {} /\ more.proposals = {} /\ more.evidence = {}
      /\ more.knowledge = {p} /\ more.revisions = {<<p, n>>}
      /\ more.events = {<<brain, {SourceOf[p]}>>}
  BY DEF NoRows, Tables
<1>4. more \in Rows
  <2>1. /\ {p} \subseteq Proposal /\ {<<p, n>>} \subseteq Proposal \X Number
        /\ {<<brain, {SourceOf[p]}>>} \subseteq (0..MaxWipes) \X SUBSET Source
    BY <1>1 DEF TypeOK
  <2> QED BY <2>1, NoRowsAre DEF Rows
<1> HIDE DEF more
<1>5. Closed(Plus(db, more))
  BY <1>2, <1>3, <1>4, PlusRows DEF TypeOK, Closed
<1>6. Names(more) \subseteq Names(db)
  BY <1>2, <1>3 DEF Names
<1>7. Told(more) /\ \A e \in more.events : e[1] = brain
  BY <1>3 DEF Told
<1> QED BY <1>2, <1>4, <1>5, <1>6, <1>7 DEF Adds

LEMMA LoginAdds ==
  ASSUME TypeOK, Closed(db), Login
  PROVE  \E more, new : Adds(more, new)
<1> DEFINE more == [NoRows EXCEPT !.events = {<<brain, {}>>}]
<1>1. /\ more.sources = {} /\ more.versions = {} /\ more.proposals = {} /\ more.evidence = {}
      /\ more.knowledge = {} /\ more.revisions = {} /\ more.events = {<<brain, {}>>}
  BY DEF NoRows, Tables
<1>2. more \in Rows
  BY <1>1 DEF NoRows, Tables, Rows, TypeOK
<1>3. db' = Plus(db, more) /\ names' = names \cup {}
      /\ Overlapped /\ UNCHANGED <<brain, file, request>>
  BY DEF Login, Writes
<1> HIDE DEF more
<1>4. Closed(Plus(db, more))
  BY <1>1, <1>2, PlusRows DEF TypeOK, Closed
<1>5. Names(more) \subseteq Names(db)
  BY <1>1 DEF Names
<1>6. Told(more) /\ \A e \in more.events : e[1] = brain
  BY <1>1 DEF Told
<1> QED BY <1>2, <1>3, <1>4, <1>5, <1>6 DEF Adds

-----------------------------------------------------------------------------
(* What each part of the invariant needs of a step.                        *)

\* Rows only become more: of writers' under fresh names, or a restore's.
LEMMA Growth ==
  ASSUME IInv, NEW more \in Rows, db' = Plus(db, more), Closed(Plus(db, more)),
         names \subseteq names', UNCHANGED <<brain, file>>, Overlapped,
         Told(more), Names(more) \subseteq names', \A e \in more.events : e[1] \in 0..brain,
         \A s \in Request : request'[s] = request[s] \/ request'[s] = Idle,
         request' \in [Request -> {Idle} \cup [at : {"restoring"}, rows : Rows]],
         names' \subseteq Source \cup Proposal,
         file # NoFile => Within(file.rows, db') \/ Apart(file.rows)'
  PROVE  IInv'
<1>1. Within(db, db') /\ db' \in Rows
  BY PlusRows DEF IInv, TypeOK
<1>2. export' \in {Idle} \cup [at : Exporting, role : Role, rows : Rows, quiet : BOOLEAN]
  BY DEF Overlapped, IInv, TypeOK
<1>3. TypeOK' /\ Closed(db)'
  BY <1>1, <1>2 DEF IInv, TypeOK
<1>4. Known(db)'
  <2>1. Names(db)' = Names(db) \cup Names(more) /\ db'.events = db.events \cup more.events
    BY PlusRows DEF Names, IInv, TypeOK
  <2> QED BY <2>1 DEF Known, IInv
<1>5. ExportOK'
  <2>1. export' = Idle <=> export = Idle
    BY DEF Overlapped, IInv, TypeOK, Idle
  <2>2. CASE export # Idle
    <3>1. /\ export'.rows = export.rows /\ export'.at = export.at
          /\ export'.role = export.role /\ export'.quiet = FALSE
      BY <2>2 DEF Overlapped, IInv, TypeOK
    <3>2. Within(export'.rows, db')
      BY <1>1, <2>2, <3>1, WithinMore DEF IInv, ExportOK
    <3> QED BY <2>2, <3>1, <3>2 DEF IInv, ExportOK
  <2> QED BY <2>1, <2>2 DEF ExportOK
<1>6. FileOK'
  BY DEF FileOK, IInv, Known
<1>7. RestoresOK'
  <2> SUFFICES ASSUME NEW s \in Request, IsAt(s, "restoring")'
               PROVE  /\ file # NoFile
                      /\ request'[s].rows = file.rows \/ Within(file.rows, db')
                      /\ Names(request'[s].rows) \subseteq names'
                      /\ \A e \in request'[s].rows.events : e[1] \in 0..brain
                      /\ Told(request'[s].rows)
    BY DEF RestoresOK, Known
  <2>1. request'[s] = request[s] /\ IsAt(s, "restoring")
    BY DEF IsAt, Idle
  <2> QED BY <1>1, <2>1, WithinMore DEF IInv, RestoresOK, Known
<1>8. Told(db)'
  BY PlusRows DEF Told, IInv, TypeOK
<1> QED BY <1>3, <1>4, <1>5, <1>6, <1>7, <1>8 DEF IInv

LEMMA AddsKeep ==
  ASSUME IInv, NEW more, NEW new, Adds(more, new)
  PROVE  IInv'
<1>1. more \in Rows /\ (\A e \in more.events : e[1] = brain) /\ db' = Plus(db, more)
      /\ names' = names \cup new /\ Names(more) \subseteq Names(db) \cup (new \ names)
      /\ UNCHANGED <<brain, file, request>>
  BY DEF Adds
<1>2. names \subseteq names' /\ Names(more) \subseteq names'
  BY <1>1 DEF IInv, Known
<1>3. \A e \in more.events : e[1] \in 0..brain
  BY <1>1, BackupAssumption DEF IInv, TypeOK
<1>4. ASSUME file # NoFile PROVE Within(file.rows, db') \/ Apart(file.rows)'
  <2>1. CASE Within(file.rows, db)
    BY <1>1, <2>1, PlusRows, WithinMore DEF IInv, TypeOK
  <2>2. CASE Apart(file.rows)
    <3>1. Names(file.rows) \subseteq names
      BY <1>4 DEF IInv, FileOK, Known
    <3>2. Names(db') = Names(db) \cup Names(more) /\ db'.events = db.events \cup more.events
      BY <1>1, PlusRows DEF Names, IInv, TypeOK
    <3>3. Names(file.rows) \cap Names(db') = {}
      BY <1>1, <2>2, <3>1, <3>2 DEF Apart
    <3> QED BY <1>1, <2>2, <3>2, <3>3 DEF Apart
  <2> QED BY <1>4, <2>1, <2>2 DEF IInv, FileOK
<1>5. names' \subseteq Source \cup Proposal
  BY DEF Adds, IInv, TypeOK
<1> QED BY <1>1, <1>2, <1>3, <1>4, <1>5, Growth DEF Adds, IInv, TypeOK

LEMMA RestoreKeeps ==
  ASSUME IInv, NEW s \in Request, CommitRestore(s)
  PROVE  IInv'
<1> DEFINE R == request[s].rows
<1>1. R \in Rows
  <2>1. request[s] \in {Idle} \cup [at : {"restoring"}, rows : Rows]
    BY DEF IInv, TypeOK
  <2> QED BY <2>1 DEF CommitRestore, IsAt, Idle
<1>2. file # NoFile /\ (R = file.rows \/ Within(file.rows, db)) /\ Known(R) /\ Told(R)
  BY DEF IInv, RestoresOK, CommitRestore
<1>3. db' = Plus(db, R) /\ Closed(Plus(db, R)) /\ UNCHANGED <<brain, names, file>> /\ Overlapped
  BY DEF CommitRestore, CanInsert
<1>4. request' = [request EXCEPT ![s] = Idle]
  BY DEF CommitRestore, Goes
<1>5. request' \in [Request -> {Idle} \cup [at : {"restoring"}, rows : Rows]]
      /\ \A t \in Request : request'[t] = request[t] \/ request'[t] = Idle
  BY <1>4 DEF IInv, TypeOK
<1> HIDE DEF R
<1>6. Within(file.rows, db')
  BY <1>1, <1>2, <1>3, PlusRows, WithinMore DEF IInv, TypeOK
<1> QED BY <1>1, <1>2, <1>3, <1>5, <1>6, Growth DEF Known, IInv, TypeOK

-----------------------------------------------------------------------------
(* The steps of an export.                                                 *)

LEMMA ScopedRows ==
  ASSUME NEW role, NEW d \in Rows
  PROVE  /\ Scoped(role, d).sources = {x \in d.sources : MayRead(role, x)}
         /\ Scoped(role, d).proposals = {p \in d.proposals : MayRead(role, SourceOf[p])}
         /\ Scoped(role, d).knowledge = {p \in d.knowledge : MayRead(role, SourceOf[p])}
         /\ Scoped(role, d).versions = d.versions /\ Scoped(role, d).evidence = d.evidence
         /\ Scoped(role, d).revisions = d.revisions /\ Scoped(role, d).events = d.events
BY DEF Scoped, Rows

LEMMA ReadSourcesKeeps ==
  ASSUME IInv, NEW role \in Role, ReadSources(role)
  PROVE  IInv'
<1> DEFINE R == [NoRows EXCEPT !.sources = Scoped(role, db).sources]
<1>1. db \in Rows
  BY DEF IInv, TypeOK
<1>2. export' = [at |-> "versions", role |-> role, quiet |-> TRUE, rows |-> R]
      /\ UNCHANGED <<db, brain, names, file, request>>
  BY DEF ReadSources
<1>3. /\ R.sources = {x \in db.sources : MayRead(role, x)} /\ R.versions = {} /\ R.proposals = {}
      /\ R.evidence = {} /\ R.knowledge = {} /\ R.revisions = {} /\ R.events = {}
  BY <1>1, ScopedRows DEF NoRows, Tables
<1>4. R \in Rows
  <2>1. Scoped(role, db).sources \subseteq Source
    BY <1>1, ScopedRows DEF Rows
  <2> QED BY <2>1, NoRowsAre DEF Rows
<1> HIDE DEF R
<1>5. TypeOK'
  BY <1>2, <1>4 DEF IInv, TypeOK, Exporting, Tables
<1>6. ExportOK'
  <2>1. Within(R, db)
    BY <1>3, WithinFields
  <2>2. Linked(R) /\ Readable(role, R)
    BY <1>3 DEF Linked, Readable
  <2>3. Unread("versions") = Exporting /\ \A t \in Exporting : R[t] = {}
    BY <1>3 DEF Unread, Exporting, Tables
  <2>4. \A t \in Tables \ Exporting : R[t] = Visible(role, db)[t]
    <3>1. Visible(role, db).sources = {x \in db.sources : MayRead(role, x)}
      BY DEF Visible
    <3>2. Tables \ Exporting = {"sources"}
      BY DEF Exporting, Tables
    <3> QED BY <1>3, <3>1, <3>2
  <2>5. export'.rows = R /\ export'.role = role /\ export'.at = "versions" /\ db' = db
    BY <1>2
  <2> QED BY <2>1, <2>2, <2>3, <2>4, <2>5 DEF ExportOK
<1> QED BY <1>2, <1>5, <1>6 DEF IInv, Closed, Told, Known, FileOK, RestoresOK, Apart, IsAt

\* One more table is read, with the parents of its rows read before.
LEMMA TableRead ==
  ASSUME IInv, ReadTable
  PROVE  \E t, T :
           /\ t \in Exporting /\ export.at = t /\ T = Taken(export, t)
           /\ export \in [at : Exporting, role : Role, rows : Rows, quiet : BOOLEAN]
           /\ export' = [at |-> After[t], role |-> export.role, quiet |-> export.quiet,
                         rows |-> [export.rows EXCEPT ![t] = T]]
           /\ t \in {"versions", "proposals", "evidence", "knowledge", "revisions"}
<1>1. export.at \in {"versions", "proposals", "evidence", "knowledge", "revisions"}
  BY DEF ReadTable, After
<1>2. export \in [at : Exporting, role : Role, rows : Rows, quiet : BOOLEAN]
  BY <1>1 DEF IInv, TypeOK, Idle
<1>3. export' = [at |-> After[export.at], role |-> export.role, quiet |-> export.quiet,
                rows |-> [export.rows EXCEPT ![export.at] = Taken(export, export.at)]]
  BY <1>2 DEF ReadTable
<1> QED BY <1>1, <1>2, <1>3

LEMMA TakenRows ==
  ASSUME NEW e, NEW t, db \in Rows
  PROVE  /\ t = "versions"  => Taken(e, t) = {v \in db.versions : v[1] \in e.rows.sources}
         /\ t = "proposals" => Taken(e, t) = {p \in db.proposals : MayRead(e.role, SourceOf[p])}
         /\ t = "evidence"  => Taken(e, t) = {v \in db.evidence : v[1] \in e.rows.proposals}
         /\ t = "knowledge" => Taken(e, t) = {p \in db.knowledge : MayRead(e.role, SourceOf[p])}
         /\ t = "revisions" => Taken(e, t) = {v \in db.revisions : v[1] \in e.rows.knowledge}
BY ScopedRows DEF Taken, OfReadSources

LEMMA ReadTableKeeps ==
  ASSUME IInv, ReadTable
  PROVE  IInv'
<1>1. PICK t, T :
        /\ t \in Exporting /\ export.at = t /\ T = Taken(export, t)
        /\ export \in [at : Exporting, role : Role, rows : Rows, quiet : BOOLEAN]
        /\ export' = [at |-> After[t], role |-> export.role, quiet |-> export.quiet,
                      rows |-> [export.rows EXCEPT ![t] = T]]
        /\ t \in {"versions", "proposals", "evidence", "knowledge", "revisions"}
  BY TableRead
<1>2. db \in Rows /\ UNCHANGED <<db, brain, names, file, request>>
  BY DEF IInv, TypeOK, ReadTable
<1> DEFINE R == export.rows
           N == [R EXCEPT ![t] = T]
           role == export.role
<1>3. export # Idle
  BY <1>1 DEF Idle
<1>4. Within(R, db) /\ Linked(R) /\ Readable(role, R) /\ R \in Rows
      /\ \A u \in Unread(t) : R[u] = {}
  BY <1>1, <1>3 DEF IInv, ExportOK
<1>5. ASSUME export.quiet, NEW u \in Tables \ Unread(t) PROVE R[u] = Visible(role, db)[u]
  BY <1>1, <1>3, <1>5 DEF IInv, ExportOK
<1>6. SUFFICES /\ N \in Rows /\ After[t] \in Exporting
               /\ Within(N, db) /\ Linked(N) /\ Readable(role, N)
               /\ \A u \in Unread(After[t]) : N[u] = {}
               /\ export.quiet => \A u \in Tables \ Unread(After[t]) : N[u] = Visible(role, db)[u]
  <2>1. ASSUME N \in Rows, After[t] \in Exporting PROVE TypeOK'
    BY <1>1, <1>2, <2>1 DEF IInv, TypeOK
  <2>2. export'.rows = N /\ export'.role = role /\ export'.at = After[t]
        /\ export'.quiet = export.quiet
    BY <1>1
  <2> HIDE DEF N, role, R
  <2> QED BY <1>2, <2>1, <2>2 DEF IInv, Closed, Told, Known, FileOK, RestoresOK, Apart, IsAt, ExportOK
<1>7. CASE t = "versions"
  <2>1. T = {v \in db.versions : v[1] \in R.sources}
    BY <1>1, <1>2, <1>7, TakenRows
  <2>2. /\ N.sources = R.sources /\ N.versions = T /\ N.proposals = {} /\ N.evidence = {}
        /\ N.knowledge = {} /\ N.revisions = {} /\ N.events = {}
    BY <1>4, <1>7 DEF Unread, Exporting, Tables, Rows
  <2>3. N \in Rows /\ After[t] = "proposals"
    BY <1>2, <1>4, <1>7, <2>1 DEF Rows, After
  <2>4. export.quiet => R.sources = {x \in db.sources : MayRead(role, x)}
    BY <1>5, <1>7 DEF Unread, Exporting, Tables, Visible
  <2> HIDE DEF N, R, role
  <2>5. Within(N, db) /\ Linked(N) /\ Readable(role, N)
    BY <1>4, <2>1, <2>2, WithinFields DEF Linked, Readable
  <2>6. \A u \in Unread("proposals") : N[u] = {}
    BY <2>2 DEF Unread, Exporting, Tables
  <2>7. ASSUME export.quiet PROVE \A u \in Tables \ Unread("proposals") : N[u] = Visible(role, db)[u]
    <3>1. R.sources = Visible(role, db).sources
      BY <2>4, <2>7 DEF Visible
    <3>2. T = Visible(role, db).versions
      BY <2>1, <2>4, <2>7 DEF Visible
    <3>3. Tables \ Unread("proposals") = {"sources", "versions"}
      BY DEF Unread, Exporting, Tables
    <3> QED BY <2>2, <3>1, <3>2, <3>3
  <2> QED BY <2>3, <2>5, <2>6, <2>7 DEF Exporting, Tables
<1>8. CASE t = "proposals"
  <2>1. T = {p \in db.proposals : MayRead(role, SourceOf[p])}
    BY <1>1, <1>2, <1>8, TakenRows
  <2>2. /\ N.sources = R.sources /\ N.versions = R.versions /\ N.proposals = T /\ N.evidence = {}
        /\ N.knowledge = {} /\ N.revisions = {} /\ N.events = {}
    BY <1>4, <1>8 DEF Unread, Exporting, Tables, Rows
  <2>3. N \in Rows /\ After[t] = "evidence"
    BY <1>2, <1>4, <1>8, <2>1 DEF Rows, After
  <2>4. export.quiet => R.sources = Visible(role, db).sources /\ R.versions = Visible(role, db).versions
    BY <1>5, <1>8 DEF Unread, Exporting, Tables
  <2> HIDE DEF N, R, role
  <2>5. Within(N, db) /\ Linked(N) /\ Readable(role, N)
    BY <1>4, <2>1, <2>2, WithinFields DEF Linked, Readable
  <2>6. \A u \in Unread("evidence") : N[u] = {}
    BY <2>2 DEF Unread, Exporting, Tables
  <2>7. ASSUME export.quiet PROVE \A u \in Tables \ Unread("evidence") : N[u] = Visible(role, db)[u]
    <3>1. T = Visible(role, db).proposals
      BY <2>1 DEF Visible
    <3>2. Tables \ Unread("evidence") = {"sources", "versions", "proposals"}
      BY DEF Unread, Exporting, Tables
    <3> QED BY <2>2, <2>4, <2>7, <3>1, <3>2
  <2> QED BY <2>3, <2>5, <2>6, <2>7 DEF Exporting, Tables
<1>9. CASE t = "evidence"
  <2>1. T = {v \in db.evidence : v[1] \in R.proposals}
    BY <1>1, <1>2, <1>9, TakenRows
  <2>2. /\ N.sources = R.sources /\ N.versions = R.versions /\ N.proposals = R.proposals
        /\ N.evidence = T /\ N.knowledge = {} /\ N.revisions = {} /\ N.events = {}
    BY <1>4, <1>9 DEF Unread, Exporting, Tables, Rows
  <2>3. N \in Rows /\ After[t] = "knowledge"
    BY <1>2, <1>4, <1>9, <2>1 DEF Rows, After
  <2>4. export.quiet => \A u \in {"sources", "versions", "proposals"} : R[u] = Visible(role, db)[u]
    BY <1>5, <1>9 DEF Unread, Exporting, Tables
  <2> HIDE DEF N, R, role
  <2>5. Within(N, db) /\ Linked(N) /\ Readable(role, N)
    BY <1>4, <2>1, <2>2, WithinFields DEF Linked, Readable
  <2>6. \A u \in Unread("knowledge") : N[u] = {}
    BY <2>2 DEF Unread, Exporting, Tables
  <2>7. ASSUME export.quiet PROVE \A u \in Tables \ Unread("knowledge") : N[u] = Visible(role, db)[u]
    <3>1. R.proposals = {p \in db.proposals : MayRead(role, SourceOf[p])}
      BY <2>4, <2>7 DEF Visible
    <3>2. T = Visible(role, db).evidence
      BY <2>1, <3>1 DEF Visible
    <3> QED BY <2>2, <2>4, <2>7, <3>2 DEF Unread, Exporting, Tables
  <2> QED BY <2>3, <2>5, <2>6, <2>7 DEF Exporting, Tables
<1>10. CASE t = "knowledge"
  <2>1. T = {p \in db.knowledge : MayRead(role, SourceOf[p])}
    BY <1>1, <1>2, <1>10, TakenRows
  <2>2. /\ N.sources = R.sources /\ N.versions = R.versions /\ N.proposals = R.proposals
        /\ N.evidence = R.evidence /\ N.knowledge = T /\ N.revisions = {} /\ N.events = {}
    BY <1>4, <1>10 DEF Unread, Exporting, Tables, Rows
  <2>3. N \in Rows /\ After[t] = "revisions"
    BY <1>2, <1>4, <1>10, <2>1 DEF Rows, After
  <2>4. export.quiet => \A u \in {"sources", "versions", "proposals", "evidence"} :
                          R[u] = Visible(role, db)[u]
    BY <1>5, <1>10 DEF Unread, Exporting, Tables
  <2> HIDE DEF N, R, role
  <2>5. Within(N, db) /\ Linked(N) /\ Readable(role, N)
    BY <1>4, <2>1, <2>2, WithinFields DEF Linked, Readable
  <2>6. \A u \in Unread("revisions") : N[u] = {}
    BY <2>2 DEF Unread, Exporting, Tables
  <2>7. ASSUME export.quiet PROVE \A u \in Tables \ Unread("revisions") : N[u] = Visible(role, db)[u]
    <3>1. T = Visible(role, db).knowledge
      BY <2>1 DEF Visible
    <3> QED BY <2>2, <2>4, <2>7, <3>1 DEF Unread, Exporting, Tables
  <2> QED BY <2>3, <2>5, <2>6, <2>7 DEF Exporting, Tables
<1>11. CASE t = "revisions"
  <2>1. T = {v \in db.revisions : v[1] \in R.knowledge}
    BY <1>1, <1>2, <1>11, TakenRows
  <2>2. /\ N.sources = R.sources /\ N.versions = R.versions /\ N.proposals = R.proposals
        /\ N.evidence = R.evidence /\ N.knowledge = R.knowledge /\ N.revisions = T /\ N.events = {}
    BY <1>4, <1>11 DEF Unread, Exporting, Tables, Rows
  <2>3. N \in Rows /\ After[t] = "events"
    BY <1>2, <1>4, <1>11, <2>1 DEF Rows, After
  <2>4. export.quiet => \A u \in {"sources", "versions", "proposals", "evidence", "knowledge"} :
                          R[u] = Visible(role, db)[u]
    BY <1>5, <1>11 DEF Unread, Exporting, Tables
  <2> HIDE DEF N, R, role
  <2>5. Within(N, db) /\ Linked(N) /\ Readable(role, N)
    BY <1>4, <2>1, <2>2, WithinFields DEF Linked, Readable
  <2>6. \A u \in Unread("events") : N[u] = {}
    BY <2>2 DEF Unread
  <2>7. ASSUME export.quiet PROVE \A u \in Tables \ Unread("events") : N[u] = Visible(role, db)[u]
    <3>1. R.knowledge = {p \in db.knowledge : MayRead(role, SourceOf[p])}
      BY <2>4, <2>7 DEF Visible
    <3>2. T = Visible(role, db).revisions
      BY <2>1, <3>1 DEF Visible
    <3> QED BY <2>2, <2>4, <2>7, <3>2 DEF Unread, Tables
  <2> QED BY <2>3, <2>5, <2>6, <2>7 DEF Exporting, Tables
<1> QED BY <1>1, <1>7, <1>8, <1>9, <1>10, <1>11

\* The file is what was read, and the audit events as they are by then.
LEMMA FileRead ==
  ASSUME IInv, ReadEvents
  PROVE  /\ file'.role = export.role /\ file'.rows = [export.rows EXCEPT !.events = db.events]
         /\ file' \in [role : Role, rows : Rows] /\ export' = Idle
         /\ export # Idle /\ export.at = "events" /\ export.rows \in Rows
         /\ file'.rows.events = db.events
         /\ \A t \in Tables \ {"events"} : file'.rows[t] = export.rows[t]
<1>1. export \in [at : Exporting, role : Role, rows : Rows, quiet : BOOLEAN]
  BY DEF IInv, TypeOK, ReadEvents, Idle
<1>2. file' = [role |-> export.role, rows |-> [export.rows EXCEPT !.events = db.events]]
  BY DEF ReadEvents
<1>3. [export.rows EXCEPT !.events = db.events] \in Rows
  BY <1>1 DEF IInv, TypeOK, Rows
<1>4. export.rows \in Rows
  BY <1>1
<1> QED BY <1>1, <1>2, <1>3, <1>4 DEF ReadEvents, Idle, Rows, Tables

LEMMA ReadEventsKeeps ==
  ASSUME IInv, ReadEvents
  PROVE  IInv'
<1>1. file' \in [role : Role, rows : Rows] /\ export' = Idle
      /\ UNCHANGED <<db, brain, names, request>>
  BY FileRead DEF ReadEvents
<1>2. TypeOK'
  BY <1>1 DEF IInv, TypeOK
<1>3. /\ file'.rows.sources = export.rows.sources /\ file'.rows.versions = export.rows.versions
      /\ file'.rows.proposals = export.rows.proposals
      /\ file'.rows.evidence = export.rows.evidence
      /\ file'.rows.knowledge = export.rows.knowledge
      /\ file'.rows.revisions = export.rows.revisions /\ file'.rows.events = db.events
  BY FileRead DEF Tables
<1>4. Within(export.rows, db) /\ Linked(export.rows) /\ Readable(export.role, export.rows)
      /\ file'.role = export.role
  BY FileRead DEF IInv, ExportOK
<1>5. Within(file'.rows, db)
  BY <1>3, <1>4, WithinFields
<1>6. Linked(file'.rows) /\ Readable(file'.role, file'.rows)
  BY <1>3, <1>4 DEF Linked, Readable
<1>7. /\ Names(file'.rows) \subseteq names /\ \A e \in file'.rows.events : e[1] \in 0..brain
      /\ Told(file'.rows)
  <2>1. Names(file'.rows) \subseteq names /\ \A e \in file'.rows.events : e[1] \in 0..brain
    BY <1>5, WithinFields DEF Names, IInv, Known
  <2>2. Told(file'.rows)
    BY <1>3, <1>5, WithinFields DEF Told, IInv
  <2> QED BY <2>1, <2>2
<1>8. FileOK'
  BY <1>1, <1>5, <1>6, <1>7 DEF FileOK, Known
<1>9. RestoresOK'
  <2>1. file' # NoFile
    BY <1>1 DEF NoFile, Role
  <2> QED BY <1>1, <1>5, <2>1 DEF IInv, RestoresOK, IsAt, Known
<1> QED BY <1>1, <1>2, <1>8, <1>9 DEF IInv, Closed, Told, Known, ExportOK

-----------------------------------------------------------------------------
(* The other steps, and the invariant.                                     *)

LEMMA WipeKeeps ==
  ASSUME IInv, Wipe
  PROVE  IInv'
<1>1. /\ brain' = brain + 1 /\ db' = NoRows /\ export' = Idle
      /\ request' = [s \in Request |-> Idle] /\ UNCHANGED <<names, file>> /\ brain < MaxWipes
  BY DEF Wipe
<1>2. brain \in Nat /\ brain' \in 0..MaxWipes /\ 0..brain \subseteq 0..brain'
      /\ brain' \notin 0..brain
  BY <1>1, BackupAssumption DEF IInv, TypeOK
<1>3. TypeOK'
  BY <1>1, <1>2, NoRowsAre DEF IInv, TypeOK
<1>4. Closed(db)' /\ Told(db)' /\ Known(db)'
  BY <1>1, NoRowsAre DEF Closed, Told, Known, Names
<1>5. ASSUME file # NoFile PROVE Known(file.rows)' /\ Apart(file.rows)'
  <2>1. Names(file.rows) \subseteq names /\ \A e \in file.rows.events : e[1] \in 0..brain
    BY <1>5 DEF IInv, FileOK, Known
  <2>2. Names(db') = {} /\ db'.events = {}
    BY <1>1, NoRowsAre DEF Names
  <2> QED BY <1>1, <1>2, <2>1, <2>2 DEF Known, Apart
<1>6. FileOK'
  BY <1>1, <1>5 DEF IInv, FileOK
<1>7. RestoresOK' /\ ExportOK'
  BY <1>1 DEF RestoresOK, ExportOK, IsAt, Idle
<1> QED BY <1>3, <1>4, <1>6, <1>7 DEF IInv

LEMMA RequestsKeep ==
  ASSUME IInv, NEW s \in Request, CheckEmpty(s) \/ RestoreFails(s) \/ Dies(s)
  PROVE  IInv'
<1>1. UNCHANGED <<db, brain, names, export, file>>
  BY DEF CheckEmpty, RestoreFails, Dies
<1>2. CASE CheckEmpty(s)
  <2>1. file # NoFile /\ request' = [request EXCEPT ![s] = [at |-> "restoring", rows |-> file.rows]]
    BY <1>2 DEF CheckEmpty, Goes
  <2>2. file.rows \in Rows
    BY <2>1 DEF IInv, TypeOK
  <2>3. TypeOK'
    BY <1>1, <2>1, <2>2 DEF IInv, TypeOK
  <2>4. RestoresOK'
    <3>1. request'[s].rows = file.rows /\ \A t \in Request \ {s} : request'[t] = request[t]
      BY <2>1 DEF IInv, TypeOK
    <3> QED BY <1>1, <2>1, <3>1 DEF IInv, RestoresOK, FileOK, Known, IsAt
  <2> QED BY <1>1, <2>3, <2>4 DEF IInv, Closed, Told, Known, ExportOK, FileOK, Apart
<1>3. CASE RestoreFails(s) \/ Dies(s)
  <2>1. request' = [request EXCEPT ![s] = Idle]
    BY <1>3 DEF RestoreFails, Dies, Goes
  <2>2. TypeOK'
    BY <1>1, <2>1 DEF IInv, TypeOK
  <2>3. RestoresOK'
    <3>1. request'[s] = Idle /\ \A t \in Request \ {s} : request'[t] = request[t]
      BY <2>1 DEF IInv, TypeOK
    <3> QED BY <1>1, <3>1 DEF IInv, RestoresOK, Known, IsAt, Idle
  <2> QED BY <1>1, <2>2, <2>3 DEF IInv, Closed, Told, Known, ExportOK, FileOK, Apart
<1> QED BY <1>2, <1>3

LEMMA NextKeeps == IInv /\ [Next]_vars => IInv'
<1> SUFFICES ASSUME IInv, [Next]_vars PROVE IInv'
  OBVIOUS
<1>1. CASE UNCHANGED vars
  BY <1>1 DEF vars, IInv, TypeOK, Closed, Told, Known, ExportOK, FileOK, RestoresOK, Apart, IsAt
<1>2. CASE Write
  <2>1. ASSUME NEW x \in Source, NEW P \in SUBSET Fresh(x), Capture(x, P) PROVE IInv'
    BY <2>1, CaptureAdds, AddsKeep DEF IInv
  <2>2. ASSUME NEW x \in Source, NEW P \in SUBSET Fresh(x), AddVersion(x, P) PROVE IInv'
    BY <2>2, VersionAdds, AddsKeep DEF IInv
  <2>3. ASSUME NEW p \in Proposal, Revise(p) PROVE IInv'
    BY <2>3, RevisionAdds, AddsKeep DEF IInv
  <2>4. CASE Login
    BY <2>4, LoginAdds, AddsKeep DEF IInv
  <2> QED BY <1>2, <2>1, <2>2, <2>3, <2>4 DEF Write
<1>3. CASE Wipe
  BY <1>3, WipeKeeps
<1>4. CASE Export
  <2>1. CASE ExportDies
    BY <2>1 DEF ExportDies, IInv, TypeOK, Closed, Told, Known, ExportOK, FileOK, RestoresOK, Apart, IsAt
  <2> QED BY <1>4, <2>1, ReadSourcesKeeps, ReadTableKeeps, ReadEventsKeeps DEF Export
<1>5. ASSUME NEW s \in Request, Restore(s) \/ Dies(s) PROVE IInv'
  BY <1>5, RestoreKeeps, RequestsKeep DEF Restore
<1> QED BY <1>1, <1>2, <1>3, <1>4, <1>5 DEF Next

LEMMA Invariance == Spec => []IInv
<1>1. Init => IInv
  <2> SUFFICES ASSUME Init PROVE IInv
    OBVIOUS
  <2>1. TypeOK
    BY NoRowsAre, BackupAssumption DEF Init, TypeOK
  <2>2. Closed(db) /\ Told(db) /\ Known(db)
    BY NoRowsAre DEF Init, Closed, Told, Known, Names
  <2>3. RestoresOK
    BY DEF Init, RestoresOK, IsAt, Idle
  <2> QED BY <2>1, <2>2, <2>3 DEF Init, IInv, ExportOK, FileOK
<1> QED BY <1>1, NextKeeps, PTL DEF Spec

-----------------------------------------------------------------------------
(* The theorems.                                                           *)

\* Rows, exports, files and restores keep their types (services.py:970-1290).
THEOREM BackupTypeCorrect == Spec => []TypeOK
<1>1. IInv => TypeOK
  BY DEF IInv
<1> QED BY <1>1, Invariance, PTL

\* Whatever was written during it, an export has only sources, proposals and
\* knowledge that its role may read, no child without its parent, and the audit
\* trail of every source it has; of its other audit events it says nothing
\* (export_workspace_data).
THEOREM Exported == Spec => []ExportIsReadable
<1>1. IInv => ExportIsReadable
  BY DEF IInv, FileOK, ExportIsReadable
<1> QED BY <1>1, Invariance, PTL

\* However many restores, writers and lost brains there are, a file is in the
\* database as a whole or not at all (restore_workspace).
THEOREM Restored == Spec => []AllOrNothing
<1>1. IInv => AllOrNothing
  BY ApartNoOverlap DEF IInv, FileOK, AllOrNothing
<1> QED BY <1>1, Invariance, PTL

\* An export that no commit overlapped is what its role may read, with every
\* parent, and all audit events; an administrator's is the database
\* (export_workspace_data).
THEOREM QuietIsWhole == Spec => QuietExportIsWhole
<1>1. IInv /\ [Next]_vars =>
        [file' # file /\ export.quiet => Whole(file'.role, file'.rows)]_vars
  <2> SUFFICES ASSUME IInv, Next, file' # file, export.quiet
               PROVE  Whole(file'.role, file'.rows)
    OBVIOUS
  <2>1. ReadEvents
    BY DEF Next, Write, Capture, AddVersion, Revise, Login, Wipe, Export, ReadSources, ReadTable,
           ExportDies, Restore, CheckEmpty, CommitRestore, RestoreFails, Dies
  <2> DEFINE role == export.role
             F == file'.rows
  <2>2. \A t \in Tables \ {"events"} : export.rows[t] = Visible(role, db)[t]
    <3>1. Unread("events") = {"events"}
      BY DEF Unread
    <3> QED BY <2>1, <3>1, FileRead DEF IInv, ExportOK
  <2>3. /\ F.sources = {x \in db.sources : MayRead(role, x)}
        /\ F.versions = {v \in db.versions : v[1] \in db.sources /\ MayRead(role, v[1])}
        /\ F.proposals = {p \in db.proposals : MayRead(role, SourceOf[p])}
        /\ F.evidence =
             {e \in db.evidence : e[1] \in db.proposals /\ MayRead(role, SourceOf[e[1]])}
        /\ F.knowledge = {p \in db.knowledge : MayRead(role, SourceOf[p])}
        /\ F.revisions =
             {r \in db.revisions : r[1] \in db.knowledge /\ MayRead(role, SourceOf[r[1]])}
        /\ F.events = db.events
    BY <2>1, <2>2, FileRead DEF Visible, Tables
  <2>4. Closed(db) /\ db \in Rows /\ F \in Rows /\ file'.role = role
    BY <2>1, FileRead DEF IInv, TypeOK
  <2> HIDE DEF F, role
  <2>5. Closed(F)
    <3>1. \A e \in F.evidence : <<SourceOf[e[1]], e[2]>> \in F.versions
      <4> SUFFICES ASSUME NEW e \in F.evidence PROVE <<SourceOf[e[1]], e[2]>> \in F.versions
        OBVIOUS
      <4>1. e \in db.evidence /\ MayRead(role, SourceOf[e[1]])
        BY <2>3
      <4>2. <<SourceOf[e[1]], e[2]>> \in db.versions /\ SourceOf[e[1]] \in db.sources
        BY <2>4, <4>1 DEF Closed
      <4> QED BY <2>3, <4>1, <4>2
    <3>2. \A p \in F.proposals : SourceOf[p] \in F.sources
      BY <2>3, <2>4 DEF Closed
    <3>3. \A k \in F.knowledge : k \in F.proposals /\ SourceOf[k] \in F.sources
      BY <2>3, <2>4 DEF Closed
    <3>4. \A e \in F.evidence : e[1] \in F.proposals
      BY <2>3
    <3>5. \A v \in F.versions : v[1] \in F.sources
      BY <2>3
    <3>6. \A r \in F.revisions : r[1] \in F.knowledge
      BY <2>3
    <3> QED BY <3>1, <3>2, <3>3, <3>4, <3>5, <3>6 DEF Closed
  <2>6. \A t \in {"sources", "proposals", "knowledge"} : F[t] = Scoped(role, db)[t]
    <3>1. F.sources = Scoped(role, db).sources
      BY <2>3, <2>4, ScopedRows
    <3>2. F.proposals = Scoped(role, db).proposals
      BY <2>3, <2>4, ScopedRows
    <3>3. F.knowledge = Scoped(role, db).knowledge
      BY <2>3, <2>4, ScopedRows
    <3> QED BY <3>1, <3>2, <3>3
  <2>7. ASSUME role = "admin" PROVE F = db
    <3>1. \A x : MayRead(role, x)
      BY <2>7 DEF MayRead
    <3>2. F.sources = db.sources /\ F.proposals = db.proposals /\ F.knowledge = db.knowledge
      BY <2>3, <3>1
    <3>3. F.versions = db.versions
      BY <2>3, <2>4, <3>1 DEF Closed
    <3>4. F.evidence = db.evidence
      BY <2>3, <2>4, <3>1 DEF Closed
    <3>5. F.revisions = db.revisions /\ F.events = db.events
      BY <2>3, <2>4, <3>1 DEF Closed
    <3> QED BY <2>4, <3>2, <3>3, <3>4, <3>5 DEF Rows
  <2>8. file'.rows = F /\ F.events = db.events
    BY <2>3 DEF F
  <2> QED BY <2>4, <2>5, <2>6, <2>7, <2>8 DEF Whole
<1> QED BY <1>1, Invariance, PTL DEF Spec, QuietExportIsWhole
=============================================================================
