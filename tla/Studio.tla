-------------------------------- MODULE Studio --------------------------------
(***************************************************************************)
(* Intelligence Studio (api/brain/studio_api.py, studio.py): one interview *)
(* whose answers become a source, and one draft whose sections cite        *)
(* canonical knowledge.  They do not interact, and MaxDocuments = 1 lets a *)
(* behaviour have one or the other.                                        *)
(*                                                                         *)
(* Every request is a database session of its own: it reads what is        *)
(* committed at that moment, and commits later what it makes of that.      *)
(* Completing an interview commits twice, the source and then the mark,    *)
(* with a call to the retrieval engine in between.                         *)
(***************************************************************************)
EXTENDS Naturals, Sequences, FiniteSetsExt

CONSTANTS Question, Answer,
          NoAnswer,    \* the empty response text
          Section, Item,
          Type, TypeOf,  \* the kinds of knowledge
          Request,     \* bound: requests in flight
          MaxDocuments,  \* bound: interviews and drafts
          MaxSources,  \* bound: transcripts captured
          MaxEdits     \* bound: commits of citations

ASSUME StudioAssumption ==
  /\ NoAnswer \notin Answer
  /\ TypeOf \in [Item -> Type]
  /\ IsFiniteSet(Question) /\ IsFiniteSet(Section)
  /\ MaxDocuments \in 1..2
  /\ MaxSources \in Nat /\ MaxEdits \in Nat
  /\ Question \cap Section = {}

VARIABLES interview,  \* interview_sessions.status and source_id
          question,   \* its interview_questions
          sources,    \* the transcripts captured from it, oldest first
          draft,      \* whether there is a draft
          section,    \* the ordinals of its draft_sections
          gone,       \* the sections that were deleted
          citation,   \* their draft_citations, each with the edit that made it
          edits,      \* how many commits have made citations
          seen,       \* history: which rows the maker of a row had read
          request     \* per request: where its handler is and what it has read

interviewVars == <<interview, question, sources>>
draftVars     == <<draft, section, gone, citation, edits>>
studioVars == <<interviewVars, draftVars, seen, request>>

NoSource == 0
\* Ordinal 0 stands for a row that is not there, or not any more.
Unasked == [ordinal |-> 0, response |-> NoAnswer, extracted |-> FALSE]

Response   == Answer \cup {NoAnswer}
Transcript == UNION {[Q -> Answer] : Q \in SUBSET Question}
Citation   == [item : Item, edit : 1..MaxEdits]
AtRest     == [at |-> "idle"]
IsAt(s, stage) == request[s].at = stage
Goes(s, to)    == request' = [request EXCEPT ![s] = to]

Handler ==
  {AtRest}
  \cup [at : {"numbering", "reading"}]
  \cup [at : {"asking"}, ordinal : 1..(Cardinality(Question) + 1), seen : SUBSET Question]
  \cup [at : {"answering"}, on : Question, was : Response, answer : Response]
  \cup [at : {"transcribed"}, answers : Transcript]
  \cup [at : {"captured"}, answers : Transcript, source : 1..MaxSources]
  \cup [at : {"placing"}, ordinal : 1..(Cardinality(Section) + 1), seen : SUBSET Section]
  \cup [at : {"citing", "deleting"}, on : Section, old : SUBSET Citation]

StudioTypeOK ==
  /\ interview \in [status : {"none", "drafting", "completed"}, source : NoSource..MaxSources]
  /\ question \in [Question -> [ordinal : 0..Cardinality(Question), response : Response,
                                extracted : BOOLEAN]]
  /\ sources \in Seq(Transcript) /\ Len(sources) <= MaxSources
  /\ draft \in BOOLEAN
  /\ section \in [Section -> 0..Cardinality(Section)] /\ gone \subseteq Section
  /\ citation \in [Section -> SUBSET Citation]
  /\ edits \in 0..MaxEdits
  /\ seen \in [question : [Question -> SUBSET Question],
               section : [Section -> SUBSET Section],
               edit : [1..MaxEdits -> SUBSET (Section \X (1..MaxEdits))]]
  /\ request \in [Request -> Handler]

StudioInit ==
  /\ interview = [status |-> "none", source |-> NoSource]
  /\ question = [q \in Question |-> Unasked]
  /\ sources = <<>>
  /\ draft = FALSE
  /\ section = [x \in Section |-> 0] /\ gone = {}
  /\ citation = [x \in Section |-> {}]
  /\ edits = 0
  /\ seen = [question |-> [q \in Question |-> {}],
             section |-> [x \in Section |-> {}],
             edit |-> [n \in 1..MaxEdits |-> {}]]
  /\ request = [s \in Request |-> AtRest]

-----------------------------------------------------------------------------
(* Handlers that begin by loading the interview and looking at its status. *)

MoreToCome == MaxDocuments = 2 \/ (interview.status = "none" /\ ~draft)

CreateInterview(s) ==
  /\ IsAt(s, "idle") /\ interview.status = "none" /\ MoreToCome
  /\ interview' = [interview EXCEPT !.status = "drafting"]
  /\ UNCHANGED <<question, sources, draftVars, seen, request>>

LoadAny(s, purpose) ==                     \* slip: no look at the status
  /\ IsAt(s, "idle") /\ interview.status # "none"
  /\ Goes(s, [at |-> purpose])
  /\ UNCHANGED <<interviewVars, draftVars, seen>>

LoadOpen(s, purpose) ==
  /\ IsAt(s, "idle") /\ interview.status = "drafting"
  /\ Goes(s, [at |-> purpose])
  /\ UNCHANGED <<interviewVars, draftVars, seen>>

Asked == {q \in Question : question[q].ordinal > 0}

\* One after the highest in use, 1 when there is none.
Counted(ordinals, rows) == Cardinality(rows) + 1   \* slip: one after their number
NextOrdinal(ordinals, rows) == 1 + Max({0} \cup ordinals)

ReadOrdinal(s) ==
  /\ IsAt(s, "numbering")
  /\ Goes(s, [at |-> "asking", seen |-> Asked,
              ordinal |-> NextOrdinal({question[q].ordinal : q \in Asked}, Asked)])
  /\ UNCHANGED <<interviewVars, draftVars, seen>>

InsertQuestion(s, q) ==
  /\ IsAt(s, "asking") /\ q \notin Asked
  /\ question' = [question EXCEPT ![q].ordinal = request[s].ordinal]
  /\ seen' = [seen EXCEPT !.question[q] = request[s].seen]
  /\ Goes(s, AtRest)
  /\ UNCHANGED <<interview, sources, draftVars>>

\* A response is taken whatever the interview's status; it may be blank.
LoadForResponse(s, q, answer) ==
  /\ IsAt(s, "idle") /\ q \in Asked
  /\ Goes(s, [at |-> "answering", on |-> q, was |-> question[q].response, answer |-> answer])
  /\ UNCHANGED <<interviewVars, draftVars, seen>>

\* Nothing is written when the text is the one that was loaded.
CommitResponse(s) ==
  /\ IsAt(s, "answering")
  /\ question' = IF request[s].answer = request[s].was THEN question
                 ELSE [question EXCEPT ![request[s].on].response = request[s].answer]
  /\ Goes(s, AtRest)
  /\ UNCHANGED <<interview, sources, draftVars, seen>>

-----------------------------------------------------------------------------
(* Completing an interview.                                                *)

Responded == {q \in Asked : question[q].response # NoAnswer}

ReadAnswers(s) ==
  /\ IsAt(s, "reading") /\ Responded # {}
  /\ Goes(s, [at |-> "transcribed", answers |-> [q \in Responded |-> question[q].response]])
  /\ UNCHANGED <<interviewVars, draftVars, seen>>

NothingToExtract(s) ==
  /\ IsAt(s, "reading") /\ Responded = {}
  /\ Goes(s, AtRest)
  /\ UNCHANGED <<interviewVars, draftVars, seen>>

\* The transcript becomes a source, which is committed, proposals and all.
CommitSource(s) ==
  /\ IsAt(s, "transcribed") /\ Len(sources) < MaxSources
  /\ sources' = Append(sources, request[s].answers)
  /\ Goes(s, [at |-> "captured", answers |-> request[s].answers, source |-> Len(sources) + 1])
  /\ UNCHANGED <<interview, question, draftVars, seen>>

\* What the list of interviews reports of this one.
Counts == [question_count  |-> Cardinality(Asked),
           response_count  |-> Cardinality(Responded),
           extracted_count |-> Cardinality({q \in Asked : question[q].extracted})]

\* Only the questions it transcribed.
Everything(answers) == Asked               \* slip: "mark all questions as extracted"
Extracted(answers) == DOMAIN answers

CompletedMisspelt == "complete"            \* slip: a word no test knows
Completed == "completed"

\* The second commit: it looks at no status, and a later one overwrites.
MarkCompleted(s) ==
  LET done == Extracted(request[s].answers)
  IN /\ IsAt(s, "captured")
     /\ interview' = [status |-> Completed, source |-> request[s].source]
     /\ question' = [q \in Question |->
                       [question[q] EXCEPT !.extracted = @ \/ q \in done]]
     /\ Goes(s, AtRest)
     /\ UNCHANGED <<sources, draftVars, seen>>

-----------------------------------------------------------------------------
(* Writing a draft.                                                        *)

Made     == {x \in Section : section[x] > 0}
Unmade   == Section \ (Made \cup gone)
NewEdit  == edits + 1
\* A draft shows its sections by ordinal, each with its citations.
ListedBefore(x, y) == section[x] < section[y]
Cites(K) == {[item |-> k, edit |-> NewEdit] : k \in K}

CreateDraft(s) ==
  /\ IsAt(s, "idle") /\ ~draft /\ MoreToCome
  /\ draft' = TRUE
  /\ UNCHANGED <<interviewVars, section, gone, citation, edits, seen, request>>

\* A section for each kind of knowledge among the items, in one commit.
Assemble(s, K) ==
  /\ IsAt(s, "idle") /\ ~draft /\ MoreToCome /\ K # {} /\ edits < MaxEdits
  /\ \E kinds \in [Unmade -> Type \cup {"none"}] :
       LET used == {x \in Unmade : kinds[x] # "none"}
       IN /\ {kinds[x] : x \in used} = {TypeOf[k] : k \in K}
          /\ \A x, y \in used : kinds[x] = kinds[y] => x = y
          /\ \E place \in [used -> 1..Cardinality(used)] :
               /\ \A x, y \in used : place[x] = place[y] => x = y
               /\ section' = [x \in Section |-> IF x \in used THEN place[x] ELSE section[x]]
               /\ seen' = [seen EXCEPT !.section =
                    [x \in Section |-> IF x \in used
                                       THEN {y \in used : place[y] < place[x]} ELSE @[x]]]
          /\ citation' = [x \in Section |->
               IF x \in used THEN Cites({k \in K : TypeOf[k] = kinds[x]}) ELSE citation[x]]
  /\ draft' = TRUE /\ edits' = NewEdit
  /\ UNCHANGED <<interviewVars, gone, request>>

LoadDraft(s) ==
  /\ IsAt(s, "idle") /\ draft
  /\ Goes(s, [at |-> "placing", seen |-> Made,
              ordinal |-> NextOrdinal({section[x] : x \in Made}, Made)])
  /\ UNCHANGED <<interviewVars, draftVars, seen>>

InsertSection(s, x, K) ==
  /\ IsAt(s, "placing") /\ x \in Unmade /\ edits < MaxEdits
  /\ section' = [section EXCEPT ![x] = request[s].ordinal]
  /\ citation' = [citation EXCEPT ![x] = Cites(K)]
  /\ edits' = NewEdit
  /\ seen' = [seen EXCEPT !.section[x] = request[s].seen]
  /\ Goes(s, AtRest)
  /\ UNCHANGED <<interviewVars, draft, gone>>

\* An update or a deletion, and the citations it is to remove.
LoadSection(s, x, purpose) ==
  /\ IsAt(s, "idle") /\ x \in Made
  /\ Goes(s, [at |-> purpose, on |-> x, old |-> citation[x]])
  /\ UNCHANGED <<interviewVars, draftVars, seen>>

\* What an update deletes: the rows it read, and none that came since.
OnlyDropped(old, K) == {c \in old : c.item \notin K}   \* slip: keeps what stays cited
Removed(old, K) == old

CommitCitations(s, K) ==
  LET x == request[s].on
      old == request[s].old
  IN /\ IsAt(s, "citing") /\ x \in Made /\ edits < MaxEdits
     /\ citation' = [citation EXCEPT ![x] = (@ \ Removed(old, K)) \cup Cites(K)]
     /\ edits' = NewEdit
     /\ seen' = [seen EXCEPT !.edit[NewEdit] = {<<x, c.edit>> : c \in old}]
     /\ Goes(s, AtRest)
     /\ UNCHANGED <<interviewVars, draft, section, gone>>

CommitDelete(s) ==
  LET x == request[s].on
  IN /\ IsAt(s, "deleting") /\ citation[x] \subseteq request[s].old
     /\ section' = [section EXCEPT ![x] = 0] /\ gone' = gone \cup {x}
     /\ citation' = [citation EXCEPT ![x] = {}]
     /\ Goes(s, AtRest)
     /\ UNCHANGED <<interviewVars, draft, edits, seen>>

\* The section is gone, or has citations the deletion has not read: the
\* foreign key refuses, and everything is rolled back.
Refused(s) ==
  /\ \/ IsAt(s, "citing") /\ request[s].on \notin Made
     \/ IsAt(s, "deleting") /\ ~(citation[request[s].on] \subseteq request[s].old)
  /\ Goes(s, AtRest)
  /\ UNCHANGED <<interviewVars, draftVars, seen>>

\* The process stops, or a client goes away, before the next commit.
Dies(s) ==
  /\ ~IsAt(s, "idle")
  /\ Goes(s, AtRest)
  /\ UNCHANGED <<interviewVars, draftVars, seen>>

Interviews(s) ==
  \/ CreateInterview(s)
  \/ \E purpose \in {"numbering", "reading"} : LoadOpen(s, purpose)
  \/ ReadOrdinal(s)
  \/ \E q \in Question : InsertQuestion(s, q)
  \/ \E q \in Question, answer \in Response : LoadForResponse(s, q, answer)
  \/ CommitResponse(s) \/ ReadAnswers(s) \/ NothingToExtract(s)
  \/ CommitSource(s) \/ MarkCompleted(s)

Drafts(s) ==
  \/ CreateDraft(s) \/ LoadDraft(s)
  \/ \E K \in SUBSET Item :
       Assemble(s, K) \/ CommitCitations(s, K) \/ \E x \in Section : InsertSection(s, x, K)
  \/ \E x \in Section, purpose \in {"citing", "deleting"} : LoadSection(s, x, purpose)
  \/ CommitDelete(s) \/ Refused(s)

StudioNext == \E s \in Request : Interviews(s) \/ Drafts(s) \/ Dies(s)

StudioSpec == StudioInit /\ [][StudioNext]_studioVars

-----------------------------------------------------------------------------
(* Properties.                                                             *)

\* What an interview says of itself is true, however completions overlapped
\* or died between their two commits: a completed one has the source it names,
\* every answer that source holds is marked extracted, and an answer is marked
\* only if some transcript holds it.
InterviewTold ==
  /\ interview.status = "completed" =>
       /\ interview.source \in 1..Len(sources)
       /\ \A q \in DOMAIN sources[interview.source] : question[q].extracted
  /\ \A q \in Question : question[q].extracted =>
       /\ interview.status = "completed"
       /\ \E n \in 1..Len(sources) : q \in DOMAIN sources[n]
  /\ interview.status = "completed" =>
       Counts.extracted_count >= Cardinality(DOMAIN sources[interview.source])

Completing == {"reading", "transcribed", "captured"}
Concluded ==
  /\ interview.status = "completed"
  /\ \A s \in Request : request[s].at \notin Completing

\* Once an interview is completed and no completion is under way, none ever
\* begins again: it is not captured twice, and keeps the source it names.
CompletedIsFinal ==
  [][Concluded => /\ Concluded'
                  /\ UNCHANGED <<interview, sources>>
                  /\ \A q \in Question : question'[q].extracted = question[q].extracted]_studioVars

\* A row follows every row its maker had seen, whatever was deleted since.
OrderKept ==
  /\ \A q \in Asked : \A p \in seen.question[q] : question[p].ordinal < question[q].ordinal
  /\ \A x \in Made : \A y \in seen.section[x] \cap Made : ListedBefore(y, x)

\* The citations an update has seen do not outlive it, and a section deleted
\* while another request cites it leaves no citation behind.
ReplacedIsGone ==
  /\ \A x \in Section, n \in 1..edits : \A c \in citation[x] : <<x, c.edit>> \notin seen.edit[n]
  /\ \A x \in Section \ Made : citation[x] = {}

\* Questions, sections and citations disagree only where requests overlapped.
SeenRespected == OrderKept /\ ReplacedIsGone
=============================================================================
