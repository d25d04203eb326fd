# Open Brain: formal models of its server

TLA+ modules beside the Python server in `src/api/brain`, checked with TLC and,
for all the components they model, proved with TLAPS. Every definition is translated
from the code at the lines `PROJECT.json` names under `map`. Line numbers below
are relative to `src/api/brain` unless a path says otherwise.

## The system

Open Brain is a FastAPI server over one SQL database. People capture sources;
the server proposes facts from them; a person approves a proposal, and only
then is it canonical knowledge. A harness layer takes messages from channels,
decides whether to act, and acts in budgeted, stoppable turns. Writes to
outside accounts go through an approval queue and a tool broker.

Everything the server remembers is in the database. Every request has a session
of its own (`database.py:25`), the endpoints are synchronous functions that run
in a thread pool, the database isolates them at READ COMMITTED, and the ORM
writes back the columns a handler changed, by primary key and without a version
column. So the components interact through shared rows, and what is hard is
nearly always the same thing: a handler decides on rows it has read, other
sessions commit in between, and the decision is written all the same. The one
exception is the OAuth provider of the hosted MCP server, whose handlers run in
one event loop and suspend nowhere; there it is the protocol library that calls
one handler to load a row and another to use it.

The schema names foreign keys. PostgreSQL enforces them; SQLite, the default
for a single user, does not unless it is told to, and the server does not tell
it. The models assume PostgreSQL wherever a foreign key refuses something.

| Component | State | Operations | What makes it correct | Hard because |
|---|---|---|---|---|
| Turns (`turns.py`, `harness.py`) | `turns`, `turn_steps`, `brain_events` | `handle_event`, `advance_turn`, `suspend_turn`, `resume_turn`, `steer_turn`, `stop_turn` | one ending, a budget that ends a turn, a gate only people open, the newest message wins | any order of calls from people, agents and the worker |
| Worker (`worker.py`) | leases on `turns`, its session's copies | claim, process a plan, release | every pending turn is taken up, also after a worker's death | stale copies of a batch, crash between commits, rollback of the batch, expiry |
| Triage and policy (`triage.py`, `turns.py:148-246`) | `proactivity_settings` | `classify_event`, `decide_event`, `set_policy` | a quiet channel never acts, a request that names the Brain is heard, an answer has evidence | the order of seven rules; policy changed under an event |
| Staged actions (`connections.py`, `connections_api.py`) | `staged_actions` | stage, approve, reject | at most one effect outside, none without approval, nothing executed without an answer | double clicks, dying handlers, late answers |
| Review (`services.py:413-541`, `main.py:872-1030`) | `proposals`, `knowledge`, `knowledge_revisions`, `review_events` | approve, reject, supersede | only approved proposals become knowledge, revisions are gapless | check-then-write around an HTTP call |
| Sources (`services.py:137-395`) | `sources`, `source_versions`, `source_spans`, `proposals` | capture, new version, derive | immutable versions, one proposal per fact | two uploads or two syncs at once |
| Search index (`retrieval.py`, `services.py:478-538`) | FTS tables, embeddings | rebuild, sync after commit | agrees with canonical knowledge in the end | best effort, after the commit, out of order |
| Studio (`studio_api.py`) | interviews, questions, drafts, sections, citations | add, answer, complete, assemble, edit, delete | an interview tells its own story truly, order and citations go wrong only by overlap | commits in the middle of one operation, numbers read and used later |
| Access (`access.py`, `auth_api.py`, `sessions.py`, `identity.py`, `credentials.py`, `main.py`) | users, memberships, sessions, keys, grants | sign in and out, claim, mint, revoke, create a workspace | a brain is claimed once, what ended stays ended, a workspace rules itself | check-then-add; a request is resolved once and commits later |
| MCP OAuth (`mcp_oauth.py`) | clients, pending requests, codes, tokens, connections | register, authorize, approve, exchange, refresh, revoke, verify | a consent is one code or one token, in its own name | steps of several clients, load and exchange apart |
| Export and restore (`services.py:974-1290`) | all tables | export, restore | an export has no record its reader may not read, but for audit events, and is whole when alone; a restore is all or nothing | many queries without a snapshot; emptiness tested before the write |
| Engine client (`engine.py`) | probe cache | probe, ingest, derive, review | a failed engine degrades to nothing | caching of failures |

## Modules

| Module | Models | Extends |
|---|---|---|
| `TurnRules` | the rules of a turn as functions of a row: what a handler demands, the row it leaves, the step it records | |
| `TurnTables` | the tables of turns and their type | `TurnRules` |
| `Turns` | the handlers one at a time: the promise | `TurnTables` |
| `TurnSessions` | requests and workers as overlapping database sessions | `TurnTables`; instantiates `Turns` |
| `Turns_proofs` | theorems about `Turns` and `TurnSessions`, and that one implements the other | `Turns`, `TurnSessions` |
| `MCTurnSessions` | symmetry for the runs | `TurnSessions` |
| `StagedActions` | the approval queue, its handlers in steps, the broker | |
| `Triage` | classification and decision of an event, as operators | `TurnRules` |
| `Intake` | events and policy requests as overlapping sessions | `Triage` |
| `MCIntake` | the policy requests and replies that are tried, symmetry | `Intake` |
| `Intake_proofs` | theorems about triage under any policy | `Intake` |
| `Review` | approve, reject and supersede as overlapping sessions, the search index, the engine | |
| `MCReview` | symmetry for the run | `Review` |
| `Review_proofs` | theorems about `Review` | `Review` |
| `Sources` | captures, versions and syncs of derived facts as overlapping sessions | |
| `MCSources` | the contents that are tried, symmetry | `Sources` |
| `Sources_proofs` | theorems about `Sources` | `Sources` |
| `Studio` | an interview and a draft as overlapping requests that may die | |
| `MCStudio` | the kinds of the items, symmetry | `Studio` |
| `Console_proofs` | theorems about `StagedActions` and about `Studio`, which do not meet | `StagedActions`, `Studio` |
| `Backup` | an export beside writers, restores beside each other and them | |
| `MCBackup` | which proposal is of which source, symmetry | `Backup` |
| `Backup_proofs` | theorems about `Backup` | `Backup` |
| `Access` | people, keys and grants; requests resolved first and committed later | |
| `MCAccess` | symmetry for the run | `Access` |
| `Access_proofs` | theorems about `Access` | `Access` |
| `OAuth` | consents, codes and tokens under the library's two calls | |
| `MCOAuth` | the home of each Brain token, symmetry | `OAuth` |
| `OAuth_proofs` | theorems about `OAuth` | `OAuth` |

The modules meet where the code's components do. `Sources` writes the proposals
`Review` decides on, and `Backup` takes what both write as single commits.
`Triage` decides what `Turns` then runs. `Access` says which Brain tokens
resolve, which is `resolvable` in `OAuth`. They are checked apart: their
products would be too large, and each assumes of the others only what those
promise (a proposal has evidence, a token resolves to one workspace).

### TurnRules and Turns

A turn is a record of the columns the rules read or write. `suspended` stands
for a non-empty `suspension`; `instructions` counts lines of the instruction
text; `kind` is the kind of the event the turn belongs to, and the event's id is
the turn's number, since each event opens exactly one turn, `pass` included. The
transcript counts the tool steps of each ordinal and the bookkeeping steps of
each kind. Left out: ids, texts, confidence, and `checkpoint` (its writer has no
caller). A stop stores what its caller wrote as the stop reason (`turns.py:492`),
in any words: `Said` has those the server itself uses, `approved` among them, and
`stopped_by_user`, the default, which stands for all others. The empty reason of
an open turn reads `none`.

`TurnTables` declares the variables both modules of turns write. `Turns` has one
action per handler, from the load of the row to the commit, so
one handler sees what the one before it left. Which action an event gets is left
open, except that an ignored event is passed on. `CompletePlan` and `FailTurn`
are the endings of the worker; its steps are `AdvanceTurn`. The branch of the
worker for an action without tools (`worker.py:93`) is not in the model: a
pending turn always has some.

`resume_turn` always ends the turn. The route table of `src/docs/harness.md`
says "continue or end".

### TurnSessions

A request on a turn is two steps: it loads a row (`LoadTurn`), and later commits
what its handler makes of the copy (`SaveAdvance` ... `SaveStop`) or is refused
(`Refuse`). An event is three: it is decided and inserted, with its time
(`InsertEvent`), a displacing one then selects the open turns of its channel
(`SelectOpen`), and at last everything is committed (`SaveEvent`). Turns are
numbered as they are committed, so an event that arrived first can have a later
number; `arrived` is history and keeps which turns were there when it arrived.
`Flush` is the ORM's UPDATE: the columns that differ from the loaded copy are
written over whatever the row holds by then. Steps are inserted, so they are
never lost.

A worker's sweep is `SelectPending` (the SELECT, without a lock), `FlushClaim`
(the UPDATE of the leases, which locks the rows until the first commit), then
per turn of the batch, oldest first, on the copies taken at the start:
`WorkerAdvance` and `RefreshCopy` per tool (advance_turn commits, then reads the
row again: another session may commit in between), and one of `LeaveClosed`,
`FinishPlan`, `StopExhausted`, `FailStep`, `ToolFails`, each of which releases
the lease if the copy has one. `RollBack` is a failed statement: the claim is
taken back, the remaining copies expire and are read again (`Reload`). `Crash`
loses the session; `givenUp` is history, the turns a worker had claimed when
either happened. `ExpireLease` is time passing. `Serial = TRUE` lets a session
begin only when no other is open; then the module implements `Turns`.

### StagedActions

`ClaimApprove` and `ClaimReject` are the conditional updates that end a row's
being PENDING. The approving handler then finds the broker unconfigured
(`NotConfigured`), opens a session and sends the call (`CallTool`), and commits
`Executed` or, on any `BridgeError`, `BridgeFails`. The call itself is on `wire`
until the provider performs or loses it, whether or not the handler still waits:
a timeout is `BridgeFails` while the call is on the wire. A handler may die, or
raise something that is not a `BridgeError`, between any two steps (`Abort`).
`effect` counts what happened at the provider, and `answered` has the actions whose
call got a result: any result is taken for success that has no `error` at its top
(`bridge_client.py:128-131`), also one in which the tool says that it failed
(`Decline`). `Perform`, `Decline` and `LoseCall` are the outside service.

### Triage and Intake

`Triage` is `triage.py` as operators. A message is reduced to what the regular
expressions find in it (`Message`), a reply to what the grammar proves
(`Reply`, with `Unstated` for a missing number), a confidence to hundredths.
`Decide` asks the channel's mode first and then applies `Floored`, `Affirmed`,
`Backed` and `Permitted` to the opinion, in the code's order; the `source`
string of a decision is the set of the rules it names. An ignored event and a
kind the mode does not react to are two branches of the code with one outcome
here, since no mode reacts to `ignored`. Reactions are left out.

`Intake` adds the sessions. A PUT is completed with the defaults of the request
schema (`Payload`), loads the channel's row (`LoadPolicy`) and commits
(`SetPolicy`): a first setting inserts and may lose to another one
(`SettingClashes`), a later one writes the columns that differ from the copy
(`Written`). An event reads the policy and is decided (`ReceiveEvent`), then
commits its turn (`CommitEvent`). What the turn displaces is in `Turns`.

Where documentation and code differ and no run says so: `triage.py:11-13` says
that a mention that asks "can be upgraded to `investigate` but never downgraded
to `pass`", which a channel with `allow_investigate` off does
(`triage.py:314`), as does mode `off`; `triage.py:9-10` says a missing
confidence is replaced by the policy's floor, the code takes 0.7 or 0.5
(`triage.py:277`); invariant 4 of `src/docs/harness.md` has every mention
answered, the code passes on one that asks for nothing when a sure reply says
PASS. `NamedIsHeard`, a part of `ReplyIsHonoured`, states what the code does
guarantee.

### Review

A request loads a proposal that is still `proposed` (`LoadProposal`) or a
knowledge item (`LoadItem`) and commits later. `CommitApproval` writes the
status, the knowledge row, revision 1 and the audit event in one transaction,
which the unique key on `knowledge.proposal_id` refuses to a second one
(`ApprovalClashes`). A rejection tells the engine (`TellDecline`) before it
commits (`CommitRejection`); an approval tells it last (`TellApproval`). A
supersede reads the newest revision (`ReadRevision`) after it loaded the item
and is refused when its number has been taken (`RevisionClashes`). After the
commit the handler reads its row again (`RefreshItem`) and brings the index up to
date in another session (`SyncIndex`), or fails to (`SyncFails`). `Restart` loses
the requests and rebuilds the index. The knowledge row carries its proposal's
name, because there is one per proposal. Left out: rationale, embeddings, who
acted, the tests that evidence and source version exist (they are never
deleted), and superseding from the screen the item was read on (the handler
loads the item again).

Two things hold less than one might think, and the properties are stated
accordingly. The canonical wording need not be that of the newest revision: a
supersede that sets the wording back to the one it loaded does not write the
column, so when another one committed in between, the row keeps the other's
wording under the new revision number; `WordingHasRevision`, in
`HistoryComplete`, asks for some revision. The index may hold an older wording,
or two, when the updates of two commits are applied out of order; `IndexCovers`,
in `RecordLeads`, asks for some wording the item has or had. Both last until the
next supersede or restart.

### Sources

`Capture` commits a source with version 1 and its proposals; the same request
then offers the content to the engine and stores the document's id in a second
commit (`OfferAccepted`). A new version is tested for its hash (`CheckContent`),
numbered (`ReadNumber`), and committed with its proposals or refused by one of
two unique keys (`CommitVersion`, `VersionClashes`). A sync loads the document's
id (`LoadSource`), asks the engine, which may return any of the facts it can
infer (`AskEngine`), and takes them one by one: one that the queue of the source
has is passed over (`SkipFact`), another is proposed (`ProposeFact`) and gets the
newest version as its evidence (`PinFact`); all are committed together
(`CommitSync`). `Dies` ends any request where it stands, and also stands for an
engine that refuses the document.

A content is known by the statements its spans quote and those that can be
inferred from it; `queue` is a bag of proposals. Left out: offsets, tags,
summaries and critic notes, the cap of fifty facts and of 5,000 characters, and
`backfill_provenance`, which has nothing to do for a source that was captured
this way.

### Studio

A request on the interview looks at its status when it begins (`LoadOpen`) and
not again. An added question gets the next number of those that were read
(`ReadOrdinal`, `InsertQuestion`); a response is loaded and written back only
if its text changed (`LoadForResponse`, `CommitResponse`), whatever the status.
Completing is three steps: read the responses (`ReadAnswers`, or refuse,
`NothingToExtract`), commit the transcript as a source (`CommitSource`), mark
the questions and the interview (`MarkCompleted`); `Dies` may end it between
any two. A draft is created empty or assembled from items in one commit, a
section per kind of knowledge (`Assemble`). A new section is numbered like a
question (`LoadDraft`, `InsertSection`); an edit deletes the citations it has
read and adds its own (`CommitCitations`), a deletion those it has read and the
section (`CommitDelete`), and the database refuses either when the section or
its citations have changed under it (`Refused`). Each citation carries the
commit that made it, and `seen` what the maker of a row had read; both are
history, in no table. Left out: titles, prompts, the generated text, exports of
a draft, and moving a section, which has no route.

### Backup

`Capture`, `AddVersion`, `Revise` and `Login` are what the writers of `Sources`,
`Review` and `Access` commit, reduced to the keys and references of the rows.
`ReadSources`, `ReadTable` (five times, in the order `After`) and `ReadEvents`
are the queries of one export, each at the moment it runs; roots are narrowed to
what the role may read (`Scoped`), child rows to the roots that were read
(`Taken`). An audit event is known by the brain it was written in and the source
it tells of, if any; events are read whole, whoever asks (`ReadEvents`).
`CheckEmpty` is the emptiness test of a restore, `CommitRestore` its one
transaction, `RestoreFails` a clash of keys or a reference that leads nowhere.
`Wipe` is the loss of the brain, whose file stays. `export.quiet` is history:
whether any commit fell between the queries. Left out: the fields of the rows,
the checksum, previews (which commit nothing and are the test `CheckEmpty`
without the rest).

### Access

A credential is a session of a person, a machine key or the owner token, and is
named by whom it identifies. `Reach` is where it leads, `Implied` which
workspace that makes of a request that may name none, `RoleIn`, `HasScope` and
`CanAdminister` what it may do there. `Grant` lets a request in, and
`MintKey`, `RevokeKey`, `RevokeGrant` and `CreateWorkspace` commit for a
request that was let in, with nothing looked at again but the workspace of the
row (`Its`). `LoadBootstrap` and `CommitBootstrap` claim the first workspace in
two steps. `SessionExpires`, `KeyExpires`, `Restart` (which gives the owner
token its grant again), `Invite` and `Deactivate` are time and the operator; no
route invites or deactivates, but every resolution reads what they write. Left
out: what the identity provider verifies, the hashing of secrets, and
`revoke_all_sessions`, which has no caller.

### OAuth

Each handler of the provider is one action: `RegisterClient`, `Authorize`,
`CompleteConsent` (or `ConsentTooLate`), `RevokeToken`, `VerifyToken` and
`VerifyBrainToken`. The library loads a code or a refresh token (`LoadCode`,
`LoadRefresh`, `CodeTooLate`) in one call and exchanges it in another
(`ExchangeCode`, `ExchangeRefresh`, `ExchangeFails`), and other requests run in
between; the exchange looks the row up once more but not its expiry. A secret is
a consent and a number, so a refreshed token is a new one. `PendingExpires`,
`CodeExpires`, `TokenExpires`, `BrainTokenEnds` and `BrainTokenReturns` are time
and `Access`. Left out: PKCE, redirect addresses and scopes, which the library
checks or passes on.

## Runs

Every run passes, and every property of it has a mutant in `PROJECT.json`: a
slip of the modelled code, kept beside the definition it would replace and
marked `slip`, that breaks the property.

| Run | Instance | What it shows |
|---|---|---|
| `turns` | 2 channels, 3 kinds of event, 2 turns, 2 instructions | handlers one at a time: transcript, columns and endings tell one story, the newest message wins, closed turns stay closed, the gate holds |
| `sessions` | 2 requests, 1 worker, 2 turns, 1 fault; symmetric | what survives overlapping sessions: no overcharge, a decision was asked for, a pass is kept, a displacing message ends every turn that was there when it arrived, and none of another channel |
| `sessions_live` | 2 workers, 1 request, 1 fault, fair | a lease stays behind only on a turn whose worker failed, every pending turn is taken up |
| `sessions_serial` | sessions one at a time, 1 request, 1 worker, 2 turns, 2 faults | `TurnSessions` implements `Turns` |
| `staged` | 2 actions, 3 callers, fair | at most one effect, none unapproved, one handler per row, nothing executed without an answer, outcomes stand, a live approval ends |
| `intake` | 2 channels (one of direct messages), 2 administrators, 5 policy requests, 10 replies, 2 strengths of evidence | the guarantees of a decision under every policy the requests can leave |
| `review` | 1 derived proposal, 3 requests, 2 wordings, 3 revisions, 1 fault; symmetric | one approval, gapless revisions, the engine after the record, an index that misses nothing |
| `sources` | 2 sources, 3 contents, 2 statements, 2 requests, 2 versions; symmetric | versions without a gap, evidence that exists, facts under their own source, nothing passed over, copies only by overlap |
| `studio` | 2 questions, 3 sections, 2 items, 2 requests, 2 transcripts, 3 edits; symmetric | an interview says the truth of itself and is completed once and for all; order and citations go wrong only where requests overlapped |
| `backup` | 2 sources (one private) with a proposal each, 2 restores, 3 versions and revisions, 1 loss; symmetric | an export has no source, proposal or knowledge its role may not read, no child without its parent and the audit trail of each of its sources (its other audit events are everybody's), is whole when nothing overlapped it, and is restored as a whole or not at all |
| `access` | 2 people, 1 key, 2 workspaces, 2 requests, 2 outside events; symmetric | a claimed brain is not claimed again, an ended credential opens nothing, a workspace's keys and grants change only by its own administrators |
| `oauth` | 2 clients, 2 consents, 2 Brain tokens of different workspaces, 2 calls, 3 tokens, 2 lapses; symmetric | a consent is in one place at a time and in its own name; what is used up stays used up |

Some properties have parts with names of their own: `OneStory` is
`TranscriptAgrees`, `ColumnsBacked`, `OneEnding` and `OpenHasBudget`;
`SurvivesStaleCopies` is `DecisionWasAsked`, `PassIsKept`, `OvertakenIsClosed` and
`DisplacedByActing`; and so on. A part is stated where it is defined.

Bounds. Two turns are enough for every relation between turns, which is between
a turn and one newer than it on its channel or another; the budgets (2, 6, 0) and
the plans are the code's own. `MaxLoads`, `MaxFaults`, `MaxSteers`, `MaxAborts`,
`MaxPuts` and `MaxRevisions` cap what people and failures can do; each is large
enough that its case interferes with a session begun before it and with one
begun after it. The liveness run has one request on turns and one kind of event:
its two workers and the fault are what a lease can be lost to. Three callers let
two overlap on one staged action while a third starts over; three requests let
an approval be slow while two people supersede. In `intake` the replies and the
evidence lie on both sides of every threshold that the policy requests set, and
on one of them. In `sources` the three contents let two people add different ones
to one source, and one content quotes what the engine also infers from another.

In `studio` the interview and the draft share no row, and `MaxDocuments = 1` has
each behaviour work on one of them. Two transcripts are what two overlapping
completions, or one that died and one after it, leave; three sections let one be
deleted and two be added at once; three edits are an assembly or a section, and
two updates of it that overlap. In `backup` one of the two sources is private,
so a member's export differs from an administrator's at every table, and
`MaxRows` lets one source have a version and a knowledge item while the other is
captured during the export, or both have a version and one gets a knowledge item
then; one loss is what there must be to restore into, and the file is then older
than every row there is. In `access` two requests let one be in flight while
another revokes what let it in, two workspaces make a request for the wrong one
possible, and two outside events let a credential end and a process restart in
one behaviour. In `oauth` two calls can have loaded the same row, three tokens
are an exchange and two refreshes, and two lapses let a code expire and a Brain
token be revoked and return.

Only sets of values that the module never tells apart are declared symmetric,
and not in the runs with fairness. Deadlock is not checked: every system here may
stop, when its people do or when a bound is reached.

## Known losses

Seen while modelling, true of the code, and kept out of the invariants above,
which are stated so that they hold.

Turns. Overlapping steps may execute more tools than the budget (both charge the
same unit); overlapping `steer_turn` calls lose an instruction; after a rollback
two workers can hold one turn in turn, and one of them releases the other's
lease; two mentions handled at once do not see each other and both turns stay
open (`turns.py:257`), and the one that arrived first may displace the other, if
that one has been committed when it looks; a stop may be worded `approved` or
like any other reason of the server's (`turns.py:492`), so that only the
transcript says who ended the turn; a suspended turn is overwritten by a worker
that loaded it before (`worker.py:146`), so the gate is passed without a
decision, and so is a stopped one (`turns.py:399-406`), although
`turns.py:18-19` says that "a racing caller cannot resurrect a stopped turn". A
turn that its worker left `running` when it died is not claimed again, and keeps
its lease for good: `worker.py:61` selects pending turns only, while
`worker.py:44-45` has an expired lease be reclaimed. `LeasesServe` allows this:
it has a lease stay on a turn whose worker failed, and has only pending turns
taken up.

Policy. A PUT resets the fields it does not name to the defaults of the request
schema (`schemas.py:418-422`, `main.py:1248-1257`), where `turns.py:199-200`
says that only the fields passed are changed. Of two overlapping policy requests
each column goes to the last that changed it, which can leave a mixture nobody
asked for, also a channel that was just set to `off` still on.

Staged actions. A handler that dies after its claim leaves the action
`EXECUTING`, where approve and reject both answer 409 for ever
(`connections_api.py:294`). An action whose tool answered that it failed, in a
result without an `error` at its top, or whose result names nothing that was made,
is EXECUTED (`connections_api.py:305-307`, `bridge_client.py:128-131`).

Review and sources. A rejection that overlaps an approval declines canonical
knowledge (`main.py:905`), which `src/docs/supermemory-core-spec.md:120`
excludes; two syncs at once propose one fact twice, which `services.py:332`
excludes; a capture that dies before it has stored the document's id can never
be synced; a derived proposal cites the newest version by the time of the sync
(`services.py:366-374`), which need not be the one it was derived from, as the
comment at `models.py:203-204` has it.

Studio. A response given after the completion has read the answers is not in the
transcript and is never extracted; two completions that overlap, or one that
died after its first commit and was repeated, leave two sources; two rows that
were added at once have one ordinal, and two updates of one section at once
leave the citations of both.

Backup. A member's export has every audit event of the workspace
(`services.py:1022-1029`), those of private sources too, with their ids and, in
`Imported {title}`, their titles (`services.py:241-249`), where
`services.py:975-977` has an export omit private material and
`src/docs/security.md:20` exclude it. `ExportIsReadable` is of the other seven
tables; `QuietExportIsWhole` says that the events are all there. An export that
writes overlap may refer to rows it does not hold (its
evidence may name a version it has not read), and then cannot be restored. A
restore and a capture, or the restores of two different files, that both found
the workspace empty are both committed. A
workspace is not empty once it has any audit event, and signing in is one
(`services.py:1207`): the restore has to come before the first login. The file
leaves out the engine's document and memory ids, critic notes, summaries, tags,
who acted, embeddings, and the tables of turns, the studio and connections, so
decisions on a restored derived proposal no longer reach the engine; the index of
a restored SQLite brain is built at the next start.

Access. Two bootstraps at once both make an owner (`auth_api.py:172-205`). A new
workspace is granted to the caller's principal, which is the id of a person or
the prefix of a key, while grants are looked up by token: only for the owner token
is it in reach at once, although `main.py:391-393` says no second step is needed.
A start gives the owner token its grant again (`main.py:198`), revoked or not. A
request that was let in before its credential was revoked still commits. Login
reports the expiry of some session of the person, not necessarily the new one
(`auth_api.py:143-144`).

OAuth. A token does not look back at the Brain token that approved it: revoking
the latter stops new consents and what uses it directly, not the tokens it gave.

## Fairness

`TurnSessions` assumes weak fairness of each worker's step and of `ExpireLease`.
The worker is a loop that polls every few seconds as long as the process lives
(`worker.py:233-247`), and time passes. `StagedActions` assumes weak fairness of
a running handler's next step: a handler runs on by itself, and the broker's
client ends its wait after 20 s (`bridge_client.py`). Requests, people, crashes,
failed statements, deaths of handlers and the provider are never fair. The other
modules state no fairness, and no liveness: nothing in them is retried, and a
request that dies is only begun again by a person.

## Proofs

`Turns_proofs`, for any channels, kinds and bounds on turns and instructions,
and for any requests and workers.

*Turns.* The inductive invariant is the type of the two tables, a condition
`RowOK` on each row with its transcript (what the counter, the columns, the
status and the bookkeeping steps say must agree), `NewestWins`, and `Named` (a
superseded turn names a newer message that displaces). `RowOK` is stronger than
the properties it serves: it says for each status which notes have been written,
because only so does the next handler find what its own step presupposes. One
`Keeps` lemma per handler shows that it maps rows that are `RowOK` to such rows,
`CommitOK` and `EventOK` lift that to the table. Theorems: `TypeCorrect`,
`Bookkeeping` (`OneStory`), `Overtaking` (`DisplacedRightly`), `Finality`
(`TerminalIsFinal`), `Gate` (`GateHeld`).

*TurnSessions.* `RowOK` does not survive overlapping sessions, and `RowFine` is
what is left of it (a unit charged is a step done; a turn at the gate was
suspended; a decision has its step). It is inductive because of what a copy
still says however old it is (`CopyFine`): it is of the same turn, its counter
is backed by steps that are there, and a suspension it saw is not undone.
`Allowed` bounds what a handler makes of such a copy, `FlushOK` shows that
writing the columns that differ over whatever the row has become leaves a row
that is fine, and `CopyKept` that no write falsifies anybody else's copy.
`EventLoaded` says what an event in hand still knows: of the turns of its
channel that were there when it arrived it has selected every one that has no
ending. Leases need a second invariant, `LeaseInv`: a lease on a turn is in its
worker's batch, and the copy knows of it, unless that worker has failed since it
claimed the turn (`givenUp`). Theorems: `SessionsTypeCorrect`, `ChargeIsHonest`
(`NeverOvercharged`), `StaleCopiesSurvived` (`SurvivesStaleCopies`),
`LeasesHeld` (`LeaseIsHeld`).

*The refinement.* With `Serial`, `SerialFine` says that at most one session is
open (`Alone`) and that its copies are the rows as they are, up to what the
session itself has written; then `Flush` writes the handler's result as it is
(`FlushWhole`) and every step is one of `Turns` or changes no table
(`Simulated`). A worker's plan is what `CompletePlan` presupposes because the
copy knows how far it is. Instructions are bounded by the requests that brought
them (`InstructionsCounted`). Theorem: `SerialImplements` (`ImplementsTurns`).

`Console_proofs` holds two proofs.

*StagedActions*, for any actions, callers and failures. `OneHandler` and
`AtMostOneEffect` are not inductive: `Owned` adds that the row of a claimed
action shows the claim for as long as its handler runs, `Unsent` that such an
action has nothing outstanding until the call is made, and `Undecided` that
nobody's name is under an action before it is settled. Theorems:
`StagedTypeCorrect`, `AtMostOnce` (`DoneOnce`), `DecisionStands`
(`SettledIsFinal`).

*Studio*, for any questions, sections, items and requests. `HandlersKnow` is
what a request in flight may rely on of rows others change under it. An
interview only grows, so what was read of it stays true (`InterviewMovesOn`): a
completion's transcript is of questions that were asked, and the source it will
name is its own. A section can go, and then stays counted among those that were
ever made (`UsedIn`), so that ordinals are bounded (`SectionsOrdered`) although
the highest may be given again. Citations are known by the edit that made them
(`CitationsDated`), and a request has read all of an edit's or none, which is why
what it replaces is gone. The highest ordinal of a set is found by descent on its
distance from a bound (`MaxBelow`), with no induction over the set. Theorems:
`StudioTypeCorrect`, `InterviewsTellTruth` (`InterviewTold`), `OverlapsOnly`
(`SeenRespected`), `CompletedStays` (`CompletedIsFinal`).

`Intake_proofs`, for any channels, any policy requests and replies, and any
number of administrators. The invariant only has to carry that the decision in
flight is the one triage makes under the policy it read (`Faithful`), and that
a row that was loaded is still there (`RowsStay`), without which a merge of
columns is not a policy. The rest are facts about the four rules, one lemma
each, put together in `ConsideredFacts`. `Quieter` compares two policies: turning
any setting down never makes the Brain do more about a message that was not
addressed to it. (For an addressed one that is not so: a higher floor turns a
doubtful PASS into an investigation.) Theorems: `IntakeTypeCorrect`,
`Silence` (`SilenceIsKept`), `Honoured` (`ReplyIsHonoured`), `Quieter`
(`StricterIsQuieter`).

`Review_proofs`, for any proposals, wordings and requests, and any bounds on
revisions and faults. A handler commits on rows that may be old by then, so the
invariant says what stays true of what it read: an item that was there is still
there (`Kept`), the number it will use is at most one past the item's version
(`Close`), so that the unique key leaves it the next number or none, and the
wording it will index is that of a revision (`Recorded`). Theorems:
`ReviewTypeCorrect`, `ApprovedOnce` (`ApprovalStands`), `Revised`
(`HistoryComplete`), `RecordFirst` (`RecordLeads`).

`Sources_proofs`, for any sources, contents, requests and any relation of
contents to statements. Versions and proposals only become more, so what a
handler has read stays true: `Sound` says for each stage what that is (the
number it will use is at most one past a version, its facts are inferred from a
version of its source, what it passed over is in the queue), and `SoundGrows`
that other handlers' commits keep it. With it `DocumentsOwn` (the engine's
document is a version) and `QueueBacked` (evidence) are inductive. That a fact
is not proposed more often than syncs overlap is a second invariant, `DrawInv`:
no request proposes one fact twice (`DrawnOnce`), and the copies in the queue
together with the requests about to add one are no more than the requests there
are (`Room`). A request that finds no copy starts from none, one that commits
turns its place into a copy. Theorems: `SourcesTypeCorrect`, `Evidenced`
(`EvidenceStands`), `Complete` (`NothingSkipped`), `DuplicatesBounded`
(`CopiesBounded`).

`OAuth_proofs`, for any clients, consents, Brain tokens, calls and bounds.
`ConsentHolds` counts the rows of a consent over three tables; the invariant says
it without counting (`Alone`: at most one row in each table, and none in two),
which is what a step on one row needs to know of the others, and `Owned` that a
row is in the name of those who asked and approved. A consent nobody asked for
has no row. What a call has loaded is in no invariant: the exchange looks it up
again, and this is why the proof goes through. `LetIn` needs that `asked` and
`approved` never change once they are set. Theorems: `OAuthTypeCorrect`,
`Consented` (`ConsentHolds`), `Spent` (`SpentStaysSpent`).

`Access_proofs`, for any people, keys, workspaces, scope lists and requests. What
is promised is of single steps, so the type invariant is the whole of it. The
work is in `Reached`, what a credential that was resolved must have been, and in
one lemma for each promise (`ClaimKept`, `KeysKept`, `OwnKept`, `OnlyLiveOpen`).
Theorems: `AccessTypeCorrect`, `EndsForGood` (`EndedStaysEnded`), `Enclosed`
(`OwnAffairs`).

`Backup_proofs`, for any sources, proposals, requests and bounds. The rows of a
brain only become more until it is lost, so what an export has read stays in the
database; `ExportOK` says so, with what of it is still unread and, while it is
quiet, that what is read is all that is visible. A completed file is of this
brain or of a lost one: `FileOK` says that its rows are within the database or
apart from it. `Apart` is why a restore cannot clash in part: no name is given
twice (`Known`), and the events of another brain are other events. Each commit
writes the event of what it adds (`Told`), and an export reads the events last.
That keys are numbered by counting (`NextNumber`, `VersionsCounted`) rests on
the theorems on finite sets. Theorems: `BackupTypeCorrect`, `Exported`
(`ExportIsReadable`), `Restored` (`AllOrNothing`), `QuietIsWhole`
(`QuietExportIsWhole`).

The assumptions are the `ASSUME`s of the modules, on the constants alone; TLC
evaluates them in the runs.

Only model-checked: liveness, which is out of the prover's reach, as `ENABLED`
is: `ApprovalEnds`, and of `LeasesServe` the half that a pending turn is taken
up (on which turns a lease may stay behind is `LeasesHeld`). Every other
property of a run is proved.

## Not modelled

The sweep's limit of ten turns (the batch is whatever is pending); lock cycles
between a supersede, which updates in query order, and a worker's claim, in key
order, which the database ends by refusing one (`RollBack` for the worker);
`harness.checkpoint`, which has no caller. `src/docs/harness.md` says "No
leases" and "Nothing spawns a background worker"; the models follow `worker.py`,
which has both. The engine client's probe cache is stamped before the probe has
answered (`engine.py:264`), and a reader in between is told the answer before;
nothing that is stored depends on it. Extraction, ranking, embeddings, the
graph, the critic and evaluation are text processing and scoring without shared
state. The sensitivity of single records is in `Backup` only, as what an export
leaves out of its tables. The web console and the MCP servers present what the
services do. Migrations run once, by one process.

## Plan

What is left, in this order:

1. An abstract specification of the approval queue, an action that is offered,
   decided once and done at most once, that `StagedActions` implements; and one
   of `Review`, in which an approval is a single step.
2. The composition of `Access` and `OAuth`, so that `resolvable` is what `Access`
   resolves and not any set of tokens.
3. The properties of `Turns` as theorems of serial sessions, through
   `SerialImplements`.
