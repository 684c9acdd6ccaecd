--------------------------- MODULE LanguageServer ---------------------------
(***************************************************************************)
(* The language server (tools/lsp) between an editor and the analyzer      *)
(* (tools/analyzer): the session task that drains the events channel and   *)
(* schedules jobs, the worker task that runs one analyzer transaction at a *)
(* time, and the documents each of the three holds.                        *)
(*                                                                         *)
(* The text of a document is the number of the edit it comes from, 0 for   *)
(* what is on disk.  A view is what the analyzer analyses: the version and *)
(* text of every open document and of every other source of the project.   *)
(* Queries fall into kinds by what they need and what makes their answer   *)
(* obsolete.  About an open document: "point" (hover, definition: nothing  *)
(* does) and "versioned" (edits, decorations, highlights, the start of a   *)
(* call hierarchy: any change).  About any: "syntax" (symbols, folding: a  *)
(* change of their document), "project" (workspace symbols: any change)    *)
(* and "call" (incoming and outgoing calls of an item that an earlier      *)
(* answer prepared: any change since it was).                              *)
(***************************************************************************)
EXTENDS Naturals, Sequences, SequencesExt, Functions, FiniteSets, FiniteSetsExt

CONSTANTS
    Uris,
    Opened,         \* those the editor has opened before it sends anything else
    Requests,       \* the ids of the queries the editor may send
    Kinds,          \* the kinds they may be of
    EventCapacity,  \* ByteChannel::new(16) for events
    MaxDrained,     \* the 16 events of one turn of the session
    MaxMessages     \* bound: how much the editor sends before it falls silent

ASSUME OpenedAssumption == Opened \subseteq Uris /\ IsFiniteSet(Opened)
ASSUME KindsAssumption == 
    Kinds \subseteq {"point", "versioned", "syntax", "project", "call"}
ASSUME ChannelsAssumption ==
    EventCapacity \in Nat \ {0} /\ MaxDrained \in Nat \ {0} /\ MaxMessages \in Nat

VARIABLES
    documents,     \* Server::documents: the version and text of each
    serverPending, \* Server::pending
    active,        \* Server::active
    generation,    \* Server::generation
    revision,      \* Server::revision
    published,     \* Server::published
    shutdown,      \* Server::shutdown
    drained,       \* events handled in this turn, 0 while the session awaits one
    phase,         \* how far main() has come
    events,        \* the events channel: messages and replies
    jobChannel,    \* the jobs channel
    reply,         \* what the worker has to report
    buffers,       \* AnalyzerDocuments::documents
    sources,       \* the sources of Analyzer::model
    current,       \* Analyzer::revision
    editor,        \* the version of each document open in the editor
    sent,          \* how many messages it has sent
    asked,         \* the queries among them
    cancels,       \* the queries it has cancelled
    shown,         \* the view behind the diagnostics it shows for each document
    answers        \* the answers it has received to each query

scheduler == <<documents, serverPending, active, generation, revision, published, shutdown>>
channels == <<events, jobChannel, reply>>
analyzer == <<buffers, sources, current>>
sending == <<editor, sent, asked, cancels>>
serverVars == <<scheduler, drained, phase, channels, analyzer, sending, shown, answers>>

NoView == <<>>
IsQuery(job) == job.method = "query"
Positional == {"point", "versioned"}          \* computed from a text the server holds
Volatile == {"versioned", "project", "call"}  \* obsolete after any change
Settle(r, answer) == answers' = [answers EXCEPT ![r] = Append(@, answer)]

----------------------------------------------------------------------------
(* The queue of the server. *)

\* Mutant: an update may pass a query.
UpdateRunPastQueries(queue) ==
    {i \in DOMAIN queue : /\ queue[i].method = "update"
                          /\ \A k \in i .. Len(queue) : queue[k].method \in {"update", "query"}}

\* The document notifications at the end of queue that nothing else separates.
UpdateRun(queue) ==
    {i \in DOMAIN queue : \A k \in i .. Len(queue) : queue[k].method = "update"}

\* Mutant: the open flag of the merged update is lost.
QueueJobReplacing(queue, job) ==
    LET earlier == {i \in UpdateRun(queue) : queue[i].uri = job.uri}
    IN  IF job.method # "update" \/ earlier = {} THEN Append(queue, job)
        ELSE Append(RemoveAt(queue, Max(earlier)), job)

\* An update takes the place of the last one of its document in that run; the
\* analyzer still has to open the document if that one would have.
QueueJob(queue, job) ==
    LET earlier == {i \in UpdateRun(queue) : queue[i].uri = job.uri}
    IN  IF job.method # "update" \/ earlier = {} THEN Append(queue, job)
        ELSE LET i == Max(earlier)
             IN  Append(RemoveAt(queue, i), [job EXCEPT !.open = @ \/ queue[i].open])

\* A new workspace job replaces one that is last in the queue.
QueueWorkspace(queue, job) ==
    Append(IF queue # <<>> /\ Last(queue).method = "workspace" THEN Front(queue) ELSE queue, job)

\* The jobs are queued again, one by one, without the query r.
Withdraw(queue, r) ==
    LET again[n \in 0..Len(queue)] ==
          IF n = 0 THEN <<>>
          ELSE IF IsQuery(queue[n]) /\ queue[n].id = r THEN again[n - 1]
          ELSE QueueJob(again[n - 1], queue[n])
    IN  again[Len(queue)]

Asking(r, queue) ==
    {i \in DOMAIN queue : IsQuery(queue[i]) /\ queue[i].id = r /\ ~queue[i].cancelled}

\* Mutant: the active job is answered but not marked.
MarkCancelledNot(queue, ids) == queue

MarkCancelled(queue, ids) ==
    [i \in DOMAIN queue |->
        IF IsQuery(queue[i]) /\ queue[i].id \in ids THEN [queue[i] EXCEPT !.cancelled = TRUE]
        ELSE queue[i]]

----------------------------------------------------------------------------
(* The documents of the analyzer. *)

With(held, u, entry) == [v \in DOMAIN held \cup {u} |-> IF v = u THEN entry ELSE held[v]]

Opens(held, request) == request.open /\ request.uri \notin DOMAIN held
Changes(held, request) ==
    /\ ~request.open /\ request.uri \in DOMAIN held
    /\ request.version > held[request.uri].version

\* A request that does not fit what the analyzer holds changes nothing and is
\* answered all the same.
Apply(held, request) ==
    CASE request.method = "update" ->
            IF Opens(held, request) \/ Changes(held, request)
            THEN With(held, request.uri, [version |-> request.version, text |-> request.text])
            ELSE held
      [] request.method = "close" -> Restrict(held, DOMAIN held \ {request.uri})
      [] OTHER -> held

\* What the requests of queue make of the documents held.
Replay(held, queue) ==
    LET after[n \in 0..Len(queue)] ==
          IF n = 0 THEN held ELSE Apply(after[n - 1], queue[n])
    IN  after[Len(queue)]

View(held, files) ==
    [u \in DOMAIN held \cup files |->
        IF u \in DOMAIN held THEN held[u] ELSE [version |-> 0, text |-> 0]]
OpenIn(view) == Restrict(view, {u \in DOMAIN view : view[u].version # 0})

----------------------------------------------------------------------------
\* The server with the documents of Opened open, analysed and shown.
ServerInit ==
    LET opened == [u \in Opened |-> [version |-> 1, text |-> 1]]
        edits == Cardinality(Opened)
    IN
    /\ documents = opened /\ serverPending = <<>> /\ active = <<>>
    /\ generation = edits /\ revision = edits /\ published = Opened /\ shutdown = FALSE
    /\ drained = 0 /\ phase = "running"
    /\ events = <<>> /\ jobChannel = <<>> /\ reply = <<>>
    /\ buffers = opened /\ sources = {} /\ current = edits
    /\ editor = [u \in Opened |-> 1] /\ sent = 0 /\ asked = {} /\ cancels = {}
    /\ shown = [u \in Uris |-> IF u \in Opened THEN opened ELSE NoView]
    /\ answers = [r \in Requests |-> <<>>]

----------------------------------------------------------------------------
(* The editor, and read_input() behind it: a full channel keeps it waiting. *)

\* After a shutdown the protocol leaves the editor its queries and exit.
Closing == shutdown \/ \E i \in DOMAIN events : events[i].is = "shutdown"

Send(message) ==
    /\ phase = "running" /\ sent < MaxMessages /\ Len(events) < EventCapacity
    /\ Closing => message.is \in {"query", "exit", "end"}
    /\ sent' = IF message.is \in {"exit", "end"} THEN MaxMessages ELSE sent + 1
    /\ events' = Append(events, message)
    /\ UNCHANGED <<scheduler, drained, phase, jobChannel, reply, analyzer, shown, answers>>

SendOpen(u) ==
    /\ u \notin DOMAIN editor /\ editor' = With(editor, u, 1)
    /\ Send([is |-> "open", uri |-> u, version |-> 1])
    /\ UNCHANGED <<asked, cancels>>
SendChange(u) ==
    /\ u \in DOMAIN editor
    /\ \E version \in {editor[u], editor[u] + 1} :
          /\ editor' = [editor EXCEPT ![u] = version]
          /\ Send([is |-> "change", uri |-> u, version |-> version])
    /\ UNCHANGED <<asked, cancels>>
SendClose(u) ==
    /\ u \in DOMAIN editor /\ editor' = Restrict(editor, DOMAIN editor \ {u})
    /\ Send([is |-> "close", uri |-> u])
    /\ UNCHANGED <<asked, cancels>>
\* The item of a call query bears the generation of the answer it comes from.
SendQuery(r, kind, u) ==
    /\ r \notin asked /\ asked' = asked \cup {r}
    /\ \E prepared \in IF kind = "call" THEN 0..generation ELSE {0} :
          Send([is |-> "query", id |-> r, kind |-> kind, uri |-> u, prepared |-> prepared])
    /\ UNCHANGED <<editor, cancels>>
SendCancel(r) ==
    /\ r \in asked \ cancels /\ cancels' = cancels \cup {r}
    /\ Send([is |-> "cancel", id |-> r])
    /\ UNCHANGED <<editor, asked>>
SendOther(what) ==
    /\ Send([is |-> what]) /\ UNCHANGED <<editor, asked, cancels>>

----------------------------------------------------------------------------
(* handle(): the messages of the editor. *)

Take ==
    /\ phase = "running" /\ events # <<>> /\ drained < MaxDrained
    /\ events' = Tail(events) /\ drained' = drained + 1

Handle(what) ==
    /\ Take /\ Head(events).is = what
    /\ UNCHANGED <<revision, jobChannel, reply, analyzer, sending>>

\* Once it has answered a shutdown, the server answers to exit only.
Serve(what) == Handle(what) /\ ~shutdown /\ UNCHANGED <<shutdown, phase>>

EditDocument(u, version, open) ==
    /\ documents' = With(documents, u, [version |-> version, text |-> generation + 1])
    /\ generation' = generation + 1
    /\ serverPending' = QueueJob(serverPending,
          [method |-> "update", uri |-> u, version |-> version, open |-> open,
           text |-> generation + 1, generation |-> generation + 1])
    /\ UNCHANGED <<active, published, shown, answers>>

DidOpen ==
    LET m == Head(events) IN
    /\ Serve("open") /\ m.uri \notin DOMAIN documents
    /\ EditDocument(m.uri, m.version, TRUE)

DidChange ==
    LET m == Head(events) IN
    /\ Serve("change") /\ m.uri \in DOMAIN documents
    /\ m.version > documents[m.uri].version
    /\ EditDocument(m.uri, m.version, FALSE)

DidClose ==
    LET u == Head(events).uri IN
    /\ Serve("close") /\ u \in DOMAIN documents
    /\ generation' = generation + 1
    /\ serverPending' = Append(serverPending,
          [method |-> "close", uri |-> u, generation |-> generation + 1])
    /\ documents' = Restrict(documents, DOMAIN documents \ {u})
    /\ published' = published \ {u} /\ shown' = [shown EXCEPT ![u] = NoView]
    /\ UNCHANGED <<active, answers>>

\* initialized, didSave, didChangeWatchedFiles, didChangeWorkspaceFolders, reload
WorkspaceChanged ==
    /\ Serve("workspace") /\ generation' = generation + 1
    /\ serverPending' = QueueWorkspace(serverPending,
                      [method |-> "workspace", generation |-> generation + 1])
    /\ UNCHANGED <<documents, active, published, shown, answers>>

\* A positional query about a document that is not open.
AskNothing ==
    LET m == Head(events) IN
    /\ Serve("query") /\ m.kind \in Positional /\ m.uri \notin DOMAIN documents
    /\ Settle(m.id, "nothing")
    /\ UNCHANGED <<documents, serverPending, active, generation, published, shown>>

\* The calls of an item that was prepared before the last change.
AskStale ==
    LET m == Head(events) IN
    /\ Serve("query") /\ m.kind = "call" /\ m.prepared # generation
    /\ Settle(m.id, "modified")
    /\ UNCHANGED <<documents, serverPending, active, generation, published, shown>>

Ask ==
    LET m == Head(events) IN
    /\ Serve("query")
    /\ m.kind \in Positional => m.uri \in DOMAIN documents
    /\ m.kind = "call" => m.prepared = generation
    /\ serverPending' = Append(serverPending,
          [method |-> "query", id |-> m.id, kind |-> m.kind, uri |-> m.uri,
           text |-> IF m.kind \in Positional THEN documents[m.uri].text ELSE 0,
           generation |-> generation, cancelled |-> FALSE])
    /\ UNCHANGED <<documents, active, generation, published, shown, answers>>

AskTooLate ==
    /\ Handle("query") /\ shutdown /\ Settle(Head(events).id, "refused")
    /\ UNCHANGED <<documents, serverPending, active, generation, published, shutdown, phase, shown>>

CancelRequest ==
    LET r == Head(events).id IN
    /\ Serve("cancel")
    /\ serverPending' = Withdraw(serverPending, r)
    /\ active' = MarkCancelled(active, {r})
    /\ IF Asking(r, serverPending \o active) = {} THEN UNCHANGED answers
       ELSE Settle(r, "cancelled")
    /\ UNCHANGED <<documents, generation, published, shown>>

Shutdown ==
    /\ Handle("shutdown") /\ ~shutdown /\ shutdown' = TRUE
    /\ answers' = [r \in Requests |->
          IF Asking(r, serverPending \o active) = {} THEN answers[r]
          ELSE Append(answers[r], "closing")]
    /\ active' = MarkCancelled(active, Requests) /\ serverPending' = <<>>
    /\ UNCHANGED <<documents, generation, published, phase, shown>>

\* A notification that does not fit the document it names.
Misfit(m) ==
    \/ m.is = "open" /\ m.uri \in DOMAIN documents
    \/ m.is = "change" /\ m.uri \notin DOMAIN documents
    \/ m.is = "change" /\ m.uri \in DOMAIN documents /\ m.version <= documents[m.uri].version
    \/ m.is = "close" /\ m.uri \notin DOMAIN documents

\* Nothing but a query is answered after a shutdown.
Ignore ==
    /\ Handle(Head(events).is)
    /\ Head(events).is \notin {"query", "exit", "end", "reply"}
    /\ shutdown \/ Misfit(Head(events))
    /\ UNCHANGED <<scheduler, phase, shown, answers>>

\* exit, and the end of the input: an error unless a shutdown came first.
Exit(what) ==
    /\ Handle(what) /\ phase' = IF shutdown THEN "stopping" ELSE "failed"
    /\ UNCHANGED <<scheduler, shown, answers>>

----------------------------------------------------------------------------
(* complete(): the reply to the active job. *)

Job == active[1]
Result == Head(events)
\* Mutant: the generation of the job is not compared.
ObsoleteNever == FALSE

Obsolete == Job.generation # generation

\* What the reply is checked for before the job is looked at.
CompleteJob ==
    /\ Take /\ Result.is = "reply" /\ active # <<>>
    /\ active' = <<>> /\ revision' = Result.revision
    /\ UNCHANGED <<documents, serverPending, generation, shutdown, phase, jobChannel, reply,
                   analyzer, sending>>

\* Mutant: diagnostics of documents that have gone stay.
PublishKnown(view) ==
    LET known == DOMAIN documents \cup DOMAIN view
        Version(u) == IF u \in DOMAIN documents THEN documents[u].version ELSE 0
        Items(u) == IF u \in DOMAIN view /\ view[u].version = Version(u) THEN view ELSE NoView
    IN  /\ shown' = [u \in Uris |-> IF u \in known THEN Items(u) ELSE shown[u]]
        /\ published' = known

\* publish(): everything known is shown again, what is no longer known is cleared.
PublishView(view) ==
    LET known == DOMAIN documents \cup DOMAIN view
        Version(u) == IF u \in DOMAIN documents THEN documents[u].version ELSE 0
        Items(u) == IF u \in DOMAIN view /\ view[u].version = Version(u) THEN view ELSE NoView
    IN  /\ shown' = [u \in Uris |->
                        IF u \in known THEN Items(u)
                        ELSE IF u \in published THEN NoView ELSE shown[u]]
        /\ published' = known

CompleteStopped ==
    /\ CompleteJob /\ shutdown /\ UNCHANGED <<published, shown, answers>>

CompleteUpdate ==
    /\ CompleteJob /\ ~shutdown /\ ~IsQuery(Job)
    /\ IF Obsolete THEN UNCHANGED <<published, shown>> ELSE PublishView(Result.view)
    /\ UNCHANGED answers

\* The document a syntax query is about still has the text that was analysed.
SameText ==
    /\ Job.uri \in DOMAIN documents /\ Job.uri \in DOMAIN Result.view
    /\ documents[Job.uri].text = Result.view[Job.uri].text

Modified ==
    /\ Obsolete
    /\ Job.kind \in Volatile \/ (Job.kind = "syntax" /\ ~SameText)

CompleteQuery ==
    /\ CompleteJob /\ ~shutdown /\ IsQuery(Job)
    /\ IF Job.cancelled THEN UNCHANGED answers
       ELSE Settle(Job.id, IF Modified THEN "modified" ELSE "result")
    /\ UNCHANGED <<published, shown>>

\* Mutant: the limit of a turn leaves the loop before a job is chosen.
EndTurnWithoutJob ==
    /\ phase = "running" /\ drained # 0 /\ (events = <<>> \/ drained = MaxDrained)
    /\ drained' = 0
    /\ IF active # <<>> \/ shutdown \/ serverPending = <<>> \/ drained = MaxDrained
       THEN UNCHANGED <<serverPending, active, jobChannel>>
       ELSE /\ active' = <<Head(serverPending)>> /\ serverPending' = Tail(serverPending)
            /\ jobChannel' = Append(jobChannel,
                                    [job |-> Head(serverPending), revision |-> revision])
    /\ UNCHANGED <<documents, generation, revision, published, shutdown, phase, events, reply,
                   analyzer, sending, shown, answers>>

\* next_job(): the turn ends with the channel empty or after MaxDrained events.
EndTurn ==
    /\ phase = "running" /\ drained # 0 /\ (events = <<>> \/ drained = MaxDrained)
    /\ drained' = 0
    /\ IF active # <<>> \/ shutdown \/ serverPending = <<>>
       THEN UNCHANGED <<serverPending, active, jobChannel>>
       ELSE /\ active' = <<Head(serverPending)>> /\ serverPending' = Tail(serverPending)
            /\ jobChannel' = Append(jobChannel,
                                    [job |-> Head(serverPending), revision |-> revision])
    /\ UNCHANGED <<documents, generation, revision, published, shutdown, phase, events, reply,
                   analyzer, sending, shown, answers>>

----------------------------------------------------------------------------
(* analyze(), with one transaction of the analyzer for each job. *)

Transact ==
    LET request == jobChannel[1].job
        Moved == request.method = "workspace" \/ Apply(buffers, request) # buffers
    IN
    /\ phase \in {"running", "stopping"} /\ jobChannel # <<>> /\ reply = <<>>
    /\ jobChannel' = Tail(jobChannel)
    /\ buffers' = Apply(buffers, request)
    /\ IF request.method = "workspace" THEN sources' \in SUBSET Uris ELSE UNCHANGED sources
    /\ current' = IF Moved THEN current + 1 ELSE current
    /\ IF IsQuery(request) /\ jobChannel[1].revision # current
       THEN phase' = "failed" /\ UNCHANGED reply
       ELSE /\ UNCHANGED phase
            /\ reply' = <<[is |-> "reply", revision |-> current',
                           view |-> View(buffers', sources')]>>
    /\ UNCHANGED <<scheduler, drained, events, sending, shown, answers>>

Report ==
    /\ phase = "running" /\ reply # <<>> /\ Len(events) < EventCapacity
    /\ events' = Append(events, reply[1]) /\ reply' = <<>>
    /\ UNCHANGED <<scheduler, drained, phase, jobChannel, analyzer, sending, shown, answers>>

\* The channels are closed: what was sent is analysed, its reply is refused.
Stop ==
    /\ phase = "stopping" /\ (reply # <<>> \/ jobChannel = <<>>) /\ phase' = "stopped"
    /\ UNCHANGED <<scheduler, drained, channels, analyzer, sending, shown, answers>>

----------------------------------------------------------------------------
Editor ==
    \/ \E u \in Uris : SendOpen(u) \/ SendChange(u) \/ SendClose(u)
    \/ \E r \in Requests, k \in Kinds, u \in Uris : SendQuery(r, k, u)
    \/ \E r \in Requests : SendCancel(r)
    \/ \E what \in {"workspace", "shutdown", "exit", "end"} : SendOther(what)

Session ==
    \/ DidOpen \/ DidChange \/ DidClose \/ WorkspaceChanged
    \/ AskNothing \/ AskStale \/ Ask \/ AskTooLate \/ CancelRequest
    \/ Shutdown \/ Ignore \/ Exit("exit") \/ Exit("end")
    \/ CompleteStopped \/ CompleteUpdate \/ CompleteQuery
    \/ EndTurn

Worker == Transact \/ Report \/ Stop

ServerNext == Editor \/ Session \/ Worker

ServerSpec == ServerInit /\ [][ServerNext]_serverVars

\* The driver runs each task whose await is ready; the editor may fall silent.
\* A sender that waits for room is served in the order it came.
FairSpec == ServerSpec /\ WF_serverVars(Session) /\ SF_serverVars(Worker)

----------------------------------------------------------------------------
\* Every query the server has taken in is either waiting for its one answer or
\* has it, whatever merging, cancellation and shutdown do to the queues.
InTransit(r) == \E i \in DOMAIN events : events[i].is = "query" /\ events[i].id = r
AnsweredOnce ==
    \A r \in Requests :
        Len(answers[r]) + Cardinality(Asking(r, serverPending \o active))
            = (IF r \in asked /\ ~InTransit(r) THEN 1 ELSE 0)

\* The requests the analyzer has not executed bring its buffers to the documents
\* of the server: merging them, or queueing them again after a cancellation,
\* never leaves one that the analyzer would refuse without a word.
EditsReplayed ==
    ~shutdown =>
        Replay(Replay(buffers, [i \in DOMAIN jobChannel |-> jobChannel[i].job]), serverPending)
            = documents

\* A query runs on the text its positions were computed from, with the revision
\* the analyzer has: no later edit overtakes it and no earlier one is left behind.
QueryFaithful ==
    \A i \in DOMAIN jobChannel : IsQuery(jobChannel[i].job) =>
        /\ jobChannel[i].revision = current
        /\ jobChannel[i].job.kind \in Positional =>
              /\ jobChannel[i].job.uri \in DOMAIN buffers
              /\ buffers[jobChannel[i].job.uri].text = jobChannel[i].job.text

\* When nothing is left to analyse, the editor shows the diagnostics of exactly
\* what is open and of the project, and none for a document that has gone.
Settled ==
    /\ phase = "running" /\ ~shutdown
    /\ \A i \in DOMAIN (serverPending \o active) : IsQuery((serverPending \o active)[i])
DiagnosticsSettle ==
    Settled => LET view == View(documents, sources)
               IN  shown = [u \in Uris |-> IF u \in DOMAIN view THEN view ELSE NoView]

\* Diagnostics and answers that depend on the text leave the server only while
\* the text they were computed from is still the text of the editor's documents.
ReportsCurrent ==
    [][ /\ \A u \in Uris : shown'[u] \notin {shown[u], NoView} => OpenIn(shown'[u]) = documents
        /\ \A r \in Requests : answers'[r] = Append(answers[r], "result") =>
              /\ Job.kind \in Volatile => OpenIn(Result.view) = documents
              /\ Job.kind = "syntax" /\ Job.uri \in DOMAIN documents => SameText
      ]_serverVars

\* A query that was sent is answered, unless the server stops before it reads it.
QueriesAnswered ==
    \A r \in Requests : r \in asked ~> answers[r] # <<>> \/ phase # "running"
=============================================================================
