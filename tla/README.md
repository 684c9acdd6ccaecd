# Carven: a verification project

Carven is a language that compiles to C++20 (`src/src`), a runtime the generated
code runs on (`crafts/carven/runtime`), a standard library of native and source
crafts (`crafts/carven/std`), and tools that host, analyse and serve programs
(`src/tools`). The compiler is a batch program. What is hard to get right, and
hard to test, is the asynchronous runtime: coroutines, a task tree, cancellation,
scopes, timers and event sources, all sharing one single-threaded driver and a
handful of intrusive lists whose nodes live inside coroutine frames; the
operations of the operating system that the standard library puts on top of that
driver; the hosting mailbox that other threads post to; the one part that
persists something between runs, the incremental build; and the language server,
whose editor, session and analyzer each hold their own version of the documents.
These are what this project models.

## Inventory

| Part | State it keeps | Operations | What makes it correct |
| --- | --- | --- | --- |
| Execution core: `execution.hpp`, `child.hpp`, `timer.hpp`, `time.hpp` | work queue, timer list, cancellation subscriptions, dirty bit; per task a parent and a request; per operation a waiter; per scope a list of child slots | start, await, yield, sleep, start / observe / cancel / close a child, wait for the first ready child, close a scope, stop; poll, dispatch, advance, cancel and take the completion of a root | every suspended coroutine is woken exactly once, no cancellation is lost, children never outlive their scope, a root that is not finished can always be advanced |
| Composition and timeout: `composition.hpp`, `timeout.hpp` | slots, active set, fallback, decided output | `when_all`, `when_any`, `first_successful`, `timeout` | the outcome is the one the policy promises and does not change once committed; losers are closed before delivery |
| Byte channel: `std/channel` | bounded message queue, closed bit, parked requests | send, receive, try_send, try_receive, close | messages are neither lost, duplicated nor reordered; a close wakes and drains |
| Input queue and standard input: `runtime/io`, `std/io.cv` | prefetched bytes, end and error of the cursor, parked reads with their scanned prefix | read a chunk, a line or everything; fill; cancel | one byte goes to one read, in the order of the reads; what a read decides from a prefix is right for the whole text |
| Standard output: `std/io` | remaining bytes, descriptor flags, busy bit | write, cancel | partial writes resume, writes never mix, flags are restored |
| TCP: `std/net` | sockets, directions in use, parked operations shared by several roots | read, write, write all, shut down, close | a direction belongs to one operation until its task resumes; byte counts are what happened on the stream |
| Processes: `std/process` | process number and exit status of a child, directions in use, handles, groups | spawn, read, write, wait, terminate, drop; spawn and wait in a group | every child is reaped once, its exit told truthfully, and no number signalled that was given away |
| Hosting: `tools/hosting` | session, mailbox shared with native threads, running host tasks, requests of services | call, post an event, take events, cancel, close, reload; register, launch, answer a request | an accepted event is run or cancelled, never forgotten; a cancel hook runs once |
| Incremental build: `std/build` | objects, dependency files, the product and their records on disk | validate, clear, compile in parallel, publish, link, record | a record never validates a stale object; what a build leaves is what a build from nothing would |
| Language server: `tools/lsp`, `tools/analyzer` | documents and generation of the session, its queue and the one active job; buffers, project sources and revision of the analyzer; what the editor was shown | open, change, close, workspace change, query, cancel, shutdown, exit; run one transaction, complete it, publish | a query is answered once and about the text it was asked of; merging and withdrawing jobs loses no edit; nothing obsolete is shown, and nothing stays that has gone |
| Static execution: `semantic/evaluation` | interpreter tasks, FIFO queue, scopes | the operations of the core at compile time | the same contract as the runtime |
| Compiler, tools, editors, pure crafts | | | sequential transformations, not modelled |

The parts meet in four ways. *Calls*: generated code awaits operations, which
call the driver. *Shared state*: every root, timer, child and event source hangs
in lists of the one driver. *Callbacks*: a publication, a timer or a source
calls back into a registration, which queues a work node; only
`dispatch_one` resumes source code. *Threads*: everything runs on the driver's
thread except the hosting mailbox, which other threads post to. A fifth way
leaves the process: compilers that a build started write files that later
builds read.

PROJECT.json lists every component with its status and every hazard with its
line.

## Modules

| Module | Models | Kind |
| --- | --- | --- |
| `Execution` | the execution core | state machine |
| `MCExecution` | the symmetry of its instances | model checking |
| `ExecutionProofs` | theorems about `Execution` | proofs |
| `Composition` | one activation of `compose()` on the guarantees of the core | state machine |
| `Timeout` | `timeout()`: extends `Composition` by a clock and a timer child | composed state machine |
| `CompositionProofs` | theorems about `Composition`, and about `Timeout` on the same invariant | proofs |
| `BoundedLog` | what a byte channel promises | abstract specification |
| `ByteChannel` | a channel, its parked requests, and the poll and dispatch of a driver two roots share | state machine, refines `BoundedLog` |
| `MCByteChannel` | the instance | model checking |
| `ByteChannelProofs` | theorems about `ByteChannel`, the refinement among them | proofs |
| `InputQueue` | the input cursor, the queue of parked reads and the records of `std::io` | component |
| `OutputWrite` | one asynchronous write at a time to the standard output | component |
| `StandardIO` | both as event sources of one driver, with the wait of `drive_root` | composed state machine |
| `MCStandardIO` | texts, requests and programs of the instance | model checking |
| `StandardIOProofs` | theorems about `StandardIO`: its output and its input | proofs |
| `Network` | reads and writes over connections, the `Network` that two roots share | state machine |
| `MCNetwork` | the instance | model checking |
| `NetworkProofs` | theorems about `Network` | proofs |
| `Processes` | children with pipes, groups of children, and the kernel's side of both | state machine |
| `MCProcesses` | the instance | model checking |
| `ProcessesProofs` | theorems about `Processes` | proofs |
| `HostSession` | a hosting session and its event mailbox | state machine |
| `HostRequests` | the asynchronous service requests of one hosted call | state machine |
| `HostingProofs` | theorems about `HostSession` and `HostRequests` | proofs |
| `BuildRecords` | one target of an incremental build over several builds, with edits and kills | state machine |
| `MCBuildRecords` | sources, includes and roots of the instance | model checking |
| `LanguageServer` | the editor, the session, the worker and the documents of the analyzer | state machine |
| `MCLanguageServer` | the instance | model checking |
| `ToolsProofs` | theorems about `BuildRecords` and `LanguageServer` | proofs |

Definitions that begin with a comment "Mutant" are not part of a specification:
each is a plausible bug, and PROJECT.json says which action it stands in for and
which property it must then break.

### Execution

A frame is one `AsyncOperation` coroutine. `status`, `completion` and `at` are its
promise and the awaiter it is suspended in, `waiter` is the one slot of
`OperationState`, `task`, `lineage` and `request` are the task tree, `scope` and
`children` a `ChildScope` with its intrusive list, `queue`, `timers`, `subs` and
`dirty` the members of the driver, in list order. `stage`, `active` and `current`
say where the thread is: with the host, in the two walks of `Driver::poll`, in
`dispatch_one`, or in a frame.

An action is what happens between two points where control can go elsewhere.
`Advance` begins `Root::advance`; `CancelSelection`, `CancelTimer`,
`CancellationsDelivered` and `ExpireTimer` are the entries `poll()` visits in
order; `DispatchFrame`, `DispatchDrainBlocked` and `DispatchDrainClosed` are the
node `dispatch_one` selects. A running frame does one operation of the runtime:
`Yield`, `Sleep`, `OpenScope`, `StartChild`, `CancelChild`, `Observe`,
`CloseChild`, `Select` (`WaitReadyAwaiter`), `CloseScope`, `Call`, `Stop`, or it
returns, in four ways that are the four arms of `OperationState::publish`. What a
source body does is left open: any operation in any order, restricted only by
what the awaiters assert.

### Composition and Timeout

`Composition` has the local state of one activation of `compose()`: the slots
(`ended`, `consumed`), the candidates that were not consumed, the committed
selection, the fallback and the decided output, for each of the four policies
and any number of inputs. Of the driver it keeps what `Execution` shows: nothing
runs while the composite does, and a poll delivers a pending request before
anything else is dispatched. The children publish in any order and with any
completion. `Timeout` adds the deadline arithmetic on bounded signed instants,
the timer child with the two walks of `TimerQueue::poll`, and the clock; its
composite is that of `Composition`, action by action.

### ByteChannel and BoundedLog

`BoundedLog` says what a channel promises: one log, delivered in order and once,
at most `Capacity` ahead, sealed by a close, and each operation takes effect at
one instant between its beginning and its end, or not at all when it was asked
to cancel. `ByteChannel` has what the code has: `Request` objects that attempt,
park as an event source of the driver, are polled, commit, are dispatched and
destroyed. `Linearizable` maps the parked and queued operations to the pending
ones of the log and the results to outcomes; the two history variables `log`
and `taken` exist for this mapping only.

### InputQueue, OutputWrite and StandardIO

`InputQueue` has the cursor (`pending`, `consumed`, `ended`, `failed`), the list
of parked reads with the prefix each has scanned, and the other end, which gives
the text in pieces. A read is parked (`StartRead`); `PollInput` is `Queue::poll`:
the reads that were asked to cancel leave, and the first of the others is tried
on what is pending and, when that does not decide it, once more after a fill. The
places `Taken` by the replies say which bytes each was given. `OutputWrite` has `output_busy`, the flags that were saved, the offset of
each write and the descriptor, which the other end drains or breaks.
`StandardIO` extends both by the list of event sources and the loop of
`drive_root`: a task runs, everything is polled, at most one task is resumed,
otherwise the thread blocks in the first source that has something to wait for,
for at most ten milliseconds when there are several.

### Network

A direction (`reading`, `writing`) is taken by `Start` and released when the
awaiter is destroyed in `Resume`; between the two the operation is in `list`, or
its completion is committed and queued. `Poll` is the walk over the list in one
poll of one root: it attempts the operations of all roots. `Complete` detaches
the root that ended, and the last one detaches the source. The kernel side counts
bytes: what arrived and was taken, what was sent and by whom, half-closed and
reset sockets. A `send` without room is refused or answers 0 (`idle`, chosen by
every attempt), which `write` reports and `write_all` calls `NoProgress`.
`Served` asks of every parked operation that can be served - bytes or an end to
read, room for a `write` or for the rest of a `write_all`, an error, a request to
cancel - that its task resumes; the holder of a direction is the only one to use
up its bytes or its room, so what could serve it stays.

### Processes

The kernel's side is explicit because the hazards are about it: a process number
has a holder, a child that ended keeps its number until `waitpid` takes it, and
then any other process may get it (`Reuse`). `pid` and `status` are the two
optional members of `State`; `handles`, `group` and the requests are who keeps a
`State` alive, and the last of them to go kills and reaps (`Drop`, `Destroy`).
A spawn whose socket cannot be made ready after the child was started kills and
reaps it as well (`SpawnFails`); one that fails earlier changes nothing.
`Scan` is one step of `wait_any`, which erases the child it reaped from its list;
its caller erases the same index of a list of its own.

### BuildRecords

The state is what is on disk (`content` of sources and headers, `object`, `deps`,
`state`, `product`, `pstate`), the compilers that run, and the locals of the
build: whether its compilation can be fingerprinted (`reusable`), the rounds of
`execute.cv` with `pending` and `completed`, and one call of `compile_objects`
with its jobs. A fingerprint is the data it covers, so the model has no
collisions. The content of an object is the version of each file it was made from.
The product has a flag of its own, which `Open` decides: the libraries and link
options of a target may keep its product from being reused where its objects are.
`ReadSources`, `WriteDeps` and `WriteObject` are the three moments of a compiler
that others can observe; they interleave with everything, also after the build
that started it was killed (`Crash`). `Edit` and `Delete` are the user.

Two history variables say what no build tool of this design can see. `disturbed`
has the objects whose sources were edited between the read of their compiler and
their record, or that a compiler of a killed build wrote in that window.
`spoiled` says that such a compiler wrote while the product was linked.
`quiet` says that nothing was edited and nobody but the compilers of this build
wrote since it began.

### HostSession and HostRequests

`HostSession` has the mailbox (`accepting`, `pending`), the subscriptions, the
tasks and invocations, the round-robin queue of calls, the loaded programs with
their counts, and the locals of `pump()`. `Post` is the critical section of
`HostEvent::post` on any thread; everything else is the session's thread. A
callback from the call that is being advanced may cancel tasks and revoke
subscriptions (`HostRuns`), and nothing else: the other controls are refused by
`dispatching`. `HostRequests` has the phase, hook and response of every mailbox
and the registration of the context they belong to. Its actions are the
critical sections of the mailbox mutex; a hook and a start callback are calls
out, between two of them, and may cancel the call they belong to.

### LanguageServer

`documents`, `serverPending` (the member `pending`), `active`, `generation`,
`revision`, `published` and `shutdown` are the fields of `Server`; `events` and
`jobChannel` are the two channels between session and worker. `Take` is one event
of a turn of `session()`; what it does to the server is the arm of `handle` or
`complete` that the message selects, and `EndTurn` is `next_job`, when the events
channel is empty or the turn has taken as many events as it may. `QueueJob` merges
a document notification into the run at the end of the queue, and `Withdraw`
queues everything again without the query that was cancelled. `Transact` is one
transaction of the analyzer: `Apply` is what `update` and `close` do to its
buffers, a workspace job finds any set of sources, and a query with another
revision ends the session. `Report` is the send of the reply, which waits for room
behind the messages of the editor.

The text of a document is the number of the edit it comes from. What the analyzer
says is the view it was computed from, so that `shown` has for every document the
view behind its diagnostics. A view is compared, not diagnosed. Queries differ in
what makes their answer obsolete in `complete`: nothing (hover, definition), a
change of their document (symbols, folding), or any change (edits, rename,
highlights, call hierarchies, decorations, completion, workspace symbols). Symbols
and folding, the symbols of the workspace and the calls of an item need no open
document and are always queued, except that the calls of an item prepared before
the last change are refused on arrival (`AskStale`); any other query about a
document that is not open is answered with nothing (`AskNothing`). That makes the
five `Kinds`. The editor is a legal client: it numbers versions upwards, though it
may repeat one, closes what it opened, cancels what it asked, and sends nothing
but queries and exit after a shutdown. The server starts with the documents of
`Opened` open, analysed and shown.

## What is checked

| Run | Instance | What it shows |
| --- | --- | --- |
| `execution_tree` | two roots on one driver and two frames that may be a child or a callee of any other; no sleeps | no child outlives its scope (`ChildrenInScope`); every suspended frame is woken from exactly one place and the assertions of the waiter slot and of the pump node hold (`WakesExact`, of `OneWake` and `WaiterProtocol`); `drive_root` never finds nothing to wait for (`NeverStranded`); a stop prevails over what other frames return (`StopPrevails`) |
| `execution_live` | a root and two frames, instants 0 and 1, fair | no request is missed by a parked sleep or selection, a cancellation beats an expiry seen by the same poll, every queued continuation runs, though bodies may yield for ever and the clock stand still |
| `composition` | up to three inputs, all policies, cooperative children | delivery after closing, truthful joins, the first completion wins a race, outcomes are final, losers close |
| `timeout` | instants 0 to 4, durations 0, 1, 2 and 4 | a deadline is neither early nor refused while it can be represented; a timeout ends although its operation would not |
| `channel` | two senders, two receivers, one `try_send`, capacity 2, two roots, fair | the channel implements the bounded log (`Linearizable`); the driver's lists of sources and continuations are exact and there is no false deadlock (`DriverServes`, of `SourcesAttached` and `NoFalseDeadlock`); no operation stays parked while it can go on (`NeverIgnored`) |
| `standard_io` | two reads, two writes, or one of each; three texts; fair | what a read decides is right for the whole text, no byte is lost or given twice, writes are whole and do not mix, flags are restored, neither source starves the other |
| `network` | two reads, two writes, or one of each, of two roots; fair | a direction is held by one operation while its socket is open, results are what happened on the streams, an operation that can be served is resumed whichever root it belongs to |
| `processes` | a child with pipes and two requests, or a group of three; three process numbers; fair | no other process is signalled and no child forgotten, exits are told truthfully, a wait for a child that ended returns |
| `session` | two tasks, one subscription, two programs, mailbox of 2, quantum 1, fair and cooperative | every accepted event and call is in exactly one place, programs live as long as their calls, neither calls nor events starve, stopped calls report their error, `close()` returns with everything settled |
| `requests` | three requests, two with a hook, two answers | a hook runs at most once and is never forgotten, a closed scope keeps no request |
| `build_records` | two sources, a header that asks for the second of them, two edits, one kill, three builds, two compilers at a time | a record the next build would believe is honest; a build that was left in peace leaves what a build from nothing would |
| `language_server` | two documents, one of them open, one query of any kind, four messages of any kind in any order, channels and turns of two events; fair | a query has one answer whatever cancellation and shutdown do to the queues (`AnsweredOnce`, `QueriesAnswered`); the analyzer ends with the documents of the server (`EditsReplayed`) and runs a query on the text it was asked of (`QueryFaithful`); what is shown settles (`DiagnosticsSettle`) and is never shown late (`ReportsCurrent`) |

Every action and disjunct is taken in some run. `CHECK_DEADLOCK FALSE` is set
throughout because all of these systems may stop: a root delivers its completion,
a session closes, every request is consumed, the number of builds is bounded, the
editor falls silent.

### Bounds and why they are enough

* *Frames.* Interference in the core is between one owner, the children of one
  scope, a child with a scope or call of its own, and another root on the same
  driver. Four frames of which two are roots give siblings that publish to one
  selection, a caller and its callee under a child, and two hosts that poll each
  other's frames. Sleeps are in `execution_live`, where they meet cancellations.
* *One scope at a time per activation.* Lexically nested scopes of one activation
  close in the order of their nesting, like the scopes of nested calls that the
  runs contain. `Frames` are not reused; a new activation is a new frame.
* *Clock.* `MaxTime` 1 has a deadline that is present and future at every poll.
  `MaxInstant` 4 stands for the largest 64-bit instant: sums of an instant and a
  duration fall below, on and beyond it.
* *Inputs.* Three inputs distinguish first, later and last in each policy.
* *Channel.* Capacity 2 has empty, full and between, and `try_send` meets each.
  Each request is awaited by a task of its own, so two senders and two receivers
  are as many concurrent operations of each kind as contend for one place. Each
  root has one of each (`SpreadSpec`): the other splits leave a root without one kind.
  At most two operations are asked to cancel (`MaxCancels`), of one kind or of both.
* *Texts.* The three texts end a line by LF, by CRLF, and by nothing after a CR
  that is content; limits are just below, at and above the lengths of the lines.
  Every cut of a text into pieces is taken.
* *Sockets and pipes.* Two bytes and room for one make a partial transfer and a
  transfer that must wait. Two operations per direction contend; one of each
  direction shares a close, a shutdown and a reset.
* *Children.* Three process numbers for a child and one foreign process leave
  numbers to be given away; a group of three has a first, a middle and a last.
* *Session.* `MailboxLimit` stands for 256 and is reached. `Quantum` is the
  caller's argument; with 1 every turn is a poll of its own. Finished tasks and
  freed programs are used again, so behaviours are not limited to two calls.
* *Builds.* A first build, a build that is killed or meets an edit, and a build
  that must recover are three. The header is included by one version of the first
  source only, so an edit changes what the rounds must discover; two edits change
  it and change it back.

* *Language server.* Merging needs two edits of one document with something
  between them, a lost edit one more that follows; with the query and its
  cancellation, or a close, these are four messages beyond the document that is
  open. A withdrawal that makes two updates merge needs a message more, when turns
have two events: that case is left to the proof, which has no bounds
(`EditsReachAnalyzer`). Two documents keep the merge of one apart from the other. Channels and
  turns of two events, for sixteen, are reached and end in the middle of a burst.

### Fairness

The runtime has one thread, so fairness is about who keeps calling. `FairSpec` of
`Execution` assumes that the host advances an unfinished root again and that
poll, dispatch and bodies come to their end, which is `drive_root`'s loop; bodies
may yield for ever. With two roots on one driver (`ByteChannel`) each is advanced
again and again. `CooperativeSpec` adds that a child that was asked to cancel
reaches an accepting point, as the language demands of loops that should be
cancellable; without a request a child may run for ever. `Timeout` adds that the
clock advances. In `StandardIO`, `Network` and `Processes` fairness is again the
loop of `drive_root`, with the resumption of a queued task in the order of the
ready list; the other ends, the children and the code of the tasks promise
nothing. In `LanguageServer` the session and the worker are tasks of
one driver and go on when they can; for the worker this is strong fairness,
because it waits for room in the events channel, which serves senders in the order
they came; the editor promises nothing. `HostSession` assumes a host that keeps
polling, and for the
properties of closing what `HostCall` demands (api.hpp: "Cancellation must
eventually finish through advance"). Callbacks, producers, revocations,
cancellations and reloads are never assumed to happen.

## What is proved

The theorems hold for every value of the constants, under the named assumptions
of the modules: `NoFrame` is no frame and roots are frames, `Count`, `MaxTime` and
`MaxInstant` are naturals, durations are in the range of instants, the capacity is
positive as `ByteChannel::new` asserts, senders are requests and no try is one,
hooked requests are requests, `None` is neither a request nor an answer nor a
result, `Foreign` and `Nobody` are no children, the line feed and the carriage
return are two bytes and `NoByte` is none, sizes and limits are naturals and a read
has a buffer, sources are no headers and the includes of a source are headers, the
documents that are open at first are finitely many, queries are of the five kinds,
and the events channel and a turn hold at least one event.

| Theorem | Says |
| --- | --- |
| `ExecutionProofs!TypeCorrect` | every variable of the core keeps its type |
| `ExecutionProofs!WakeExactlyOnce` | `WakesExact`: the lists of the driver hold every suspended frame once and nothing else |
| `ExecutionProofs!StructuredConcurrency` | `ChildrenInScope` |
| `ExecutionProofs!NoRootStranded` | `NeverStranded`: a host that waits has something to wait for |
| `ExecutionProofs!CancellationNotLost` | `NoLostCancellation` |
| `ExecutionProofs!CancellationFirst` | `CancellationBeatsExpiry` |
| `ExecutionProofs!StopsPrevail` | `StopPrevails` |
| `CompositionProofs!TypeCorrect`, `Joined`, `FirstWins`, `DeliversTruth`, `FirstFailure`, `StoppedUnconsumed`, `RequestFirst`, `OutcomeFinal`, `Closes` | all safety properties of `Composition`, and that the first failure is forwarded, a stopped child never consumed and nothing committed over a pending request |
| `CompositionProofs!NeverEarly` | `DeadlineExact`, of `Timeout` |
| `ByteChannelProofs!TypeCorrect`, `Ordered`, `NothingDoubled`, `EndRight`, `CommittedOnce` | types, `BufferIsLogSuffix`, `ExactlyOnce`, that End leaves nothing behind, `CommitOnce` |
| `ByteChannelProofs!Attached`, `NoneStranded`, `DriverServesAll` | `SourcesAttached`, `NoFalseDeadlock`, and both as `DriverServes` |
| `ByteChannelProofs!Linearization` | `ByteChannel` implements `BoundedLog` |
| `StandardIOProofs!Released`, `WritesWhole` | `OutputReleased`, `OutputWhole` |
| `StandardIOProofs!InputsWhole` | `InputWhole`: what a read decides from a prefix is right for the whole text, and no byte is lost, repeated or given out of order |
| `NetworkProofs!DirectionsHeld`, `StreamsKept` | `DirectionHeld`, `StreamsExact` |
| `ProcessesProofs!NumbersRight`, `ExitsTold` | `ChildOwned`, `ExitTruthful` |
| `HostingProofs!TasksHeld`, `ProgramsKept` | `EveryTaskHeld`, `ProgramsRetained`, of `HostSession` |
| `HostingProofs!TypeCorrect`, `HookOnce`, `HookRuns`, `AnsweredOnce`, `ScopeCloses`, `ProviderServed`, `DetachedUnreachable` | of `HostRequests`: types, the parts of `ProviderContract` and the whole, that one answer is delivered, and that a detached mailbox holds nothing |
| `ToolsProofs!RecordsAreHonest`, `BuildsAreTruthful`, `FailuresWait` | `RecordsHonest`, `BuildTruthful`, and that a build that ended has waited for its compilers |
| `ToolsProofs!AnswersOnce`, `EditsReachAnalyzer`, `QueriesFaithful`, `DiagnosticsCurrent`, `ReportsFromCurrent` | `AnsweredOnce`, `EditsReplayed`, `QueryFaithful`, `DiagnosticsSettle`, `ReportsCurrent`, of `LanguageServer` |

With these, every safety property that a run checks is a theorem. Type invariants are
proved where a proof needs them and therefore not run.

*Core: cancellations and stops.* `NoLostCancellation` is not inductive. It needs
that the task of a parked frame exists and was started (`KnownStarted`,
`StartedTasks`: otherwise a later start could put it below a cancelled parent), and
that the bit stays clear while `poll()` walks its lists (`PollClean`). When the
timers that are due are reached, `NoLostCancellation` then leaves no parked sleep
whose task was cancelled, which is `CancellationFirst`.

`StopPrevails` is read off `StopRight`: a frame that returned stopped has put its
stop into the request of its root, where the root's completion takes it. The
step that could break this is a stop below a root that was delivered already.
It cannot happen because the frame that runs is always below the root that is
being advanced, which is unfinished (`OneActive`), and that needs the shape of the
tree: a frame that was not started has no task (`Unborn`), what a scope holds or
an observer awaits is started and no root (`Below`), nobody waits for a root
(`RootsUnwaited`), a task has one root (`OneRoot`), and a caller shares the task of
its callee (`Callers`).

*Core: the lists.* `Wires` says of each list of the driver, each waiter slot and each
scope what its entries have to do with the awaiter their frame is suspended in. An
entry is linked once (`Linked`); what may wake a frame is what it is parked in
(`Parks`); a suspended frame is queued or armed and never both (`Woken`); a closing
scope has one drain (`Drains`); a child is a task of its own, in one scope, until it is
consumed (`Family`, `Kept`); an operation that is awaited is unfinished and belongs to
whoever waits (`Awaited`); and a frame that closed its scope or returned holds nothing
(`ScopesOpen`). One lemma per operation shows which entries it moves. `WakesExact` and
`ChildrenInScope` are read off. `NeverStranded` needs one argument more, because
a frame may wait for a frame that waits: frames wait only for frames that started
later (`Ages`, by numbering the starts), so of the waiting frames of a root the
youngest waits for a list of the driver and not for another frame.

*Composition.* `Progress` says for every policy that a committed selection is an
unconsumed child that ended or a pending request, and that a stopped child has
put its stop on the chain the composite reads. `Join`, `First` and `Fallback`
say what each policy has consumed so far; each theorem reads off one of them.
`Closes` needs that the composite leaves its scope through the close alone.
`Timeout` keeps this invariant because its steps are steps of `Composition` or
refusals, and adds `TimerRight`: an expired timer has passed a deadline that is
the checked sum.

*Channel.* `Settled` ties the result of an operation to how far it has come: it
has one from the attempt that completes it on. This is what keeps a source that
polls see again from taking effect twice, and with `BufferIsLogSuffix` and
`ExactlyOnce` it is inductive. The refinement maps initial states to initial
states and every step to the step of the log or a stutter. `Attached` follows
the two lists through each way an operation leaves or joins them. For
`NoneStranded`, `Walked` says of a poll in progress that while nothing is queued
every parked operation before the cursor is blocked: an attempt that changes the
channel, and so could unblock one that was passed, queues its own operation.

*Standard output and network.* The invariants tie the saved flags, or the
directions, to the state of the one operation that owns them, so the release in
the destructor of the awaiter finds what its construction took. The counts rest on
this: the bytes of a parked operation are the last on its stream and as many as it
counted (`Appended` of the network), because nobody else may append while it owns
the stream; a read that returned covers bytes which no other read covers, and every
byte that left a socket is covered (`Returned`).

*Standard input.* Two arguments meet in `InputInv`. The first is about one reply. The
pending bytes are the segment of the text after those that were consumed, and reach
to its end when the end is known (`Held`); what a read has scanned of them has no line
feed (`Progress`). On any such prefix `ready()` decides as it would on everything that
is left: a line that is found is the first line (`LineFound`), one that is too
long already is too long later (`LineOpen`), and only the end makes a last line
(`LineEnded`). The delicate case is a carriage return at the end of a prefix, which
counts against the limit only when the end is known. The second is about all of them
(`Queueing`, `Given`): the queue is the arrivals in their order without those that were
answered or cancelled, a poll answers the head alone, so the replies take disjoint
segments of the text, in the order of arrival, and between them all that was
consumed. `Kept` states the removal of the cancelled reads by their indices, as a
sequence that lists the remaining indices upwards; that there is such a sequence and
that it keeps the order is proved once (`KeptThins`).

*Processes.* The kernel's table and the two optional members of a `State` say the
same (`Held`, `Reachable`): a number is held by the child whose `State` knows it and has
no status yet, and every such `State` is live, by a handle, a group or a request. A
status is the exit there was (`Truthful`), and so is what a wait has answered
(`Answered`). `Grouped` keeps the list of a group and the list of its owner equal,
which is why the index that `wait_any` returns means the same child to both.

*Session.* A task is in one place: with its subscription in the mailbox, in the
round-robin queue, in the hands of `pump()`, or settled with a result. The step that
needs care is the `erase_if` of a subscription's events, from the middle of the
mailbox; it is followed as the restriction of the queue to the indices that remain.
A program stays loaded while a call holds it: `uses` is the cardinality of its calls,
and each step that begins or ends a call changes both by one.

*Requests.* `Installed`, `Told` and `Answered` say of each request what its phase
and its hook, the calls of the hook, and the answers have to do with each other;
`Scoped` says that every attached request is registered or in the loop that
detaches it.

*Builds.* `RecordsInv` follows one object: what its compiler has read equals the
sources until one is edited, and then the object is disturbed; so a record that is
collected lists the versions its object was made from. A compiler that reads
anew ends the disturbance, which is sound because the old record was cleared
before any job started (`Cleared`). `BuildInv` adds the rounds: what is complete
is up to date and what it asks for is complete or pending (`Complete`), an object
is kept for a record this round has confirmed (`Kept`) or is what its compiler made
of the sources (`Fetched`). When nothing is pending the complete objects are the
closure of the roots (`ClosureReached`), and the product belongs to them because it
was linked from them, in this build or when its record was written (`Linked`).

*Language server.* The four invariants rest on one another and are proved together
(`ServerInv`); TLC found it to hold on the instance of the run before it was proved.
The job that is active is in one place, the jobs channel, the reply of the worker
or the events channel, and nothing else is in transit (`Flight`).
`EditsReplayed` speaks of the end of the queue only, so it is not inductive when a job
is put at the end or a query is taken out of the middle. `Chained` keeps for every
document a path of its states, a step for each queued job, from what the analyzer will
hold when it is idle to what the server holds (`Leads`); a job that arrives extends
the path, an update that is merged replaces the step of the earlier one, which only
updates of other documents follow; a query that is withdrawn was a step in place,
and the updates it kept apart may then merge. While a query is queued the updates
before and after it do not, so the path passes through the text it was asked about:
this is `QueryFaithful`. `Ordered` says that the queue is in the order of generations,
so the newest job is last but for queries. Either the newest job is still queued or
active, or nothing but queries is and what is shown is the view of the documents
(`Showing`), which gives `DiagnosticsSettle`. `AsksOnce` says that a query the server took in
has been answered once or else is queued or active without having been cancelled, and
`Closed` that after shutdown nothing waits. Withdrawal and replay are recursive
functions over the queue; what the lemmas say of them is proved by the smallest
position where it fails.

### Only model-checked

Liveness and everything under fairness is out of the prover's reach: `QueuedRuns`,
`LosersClosed`, `TimeoutDelivers`, `NeverIgnored`, `SourcesServed`, `Served`,
`TurnsShared`, `CloseReturns`, `StoppedDrains`, `ExitObserved`, `QueriesAnswered`.

Induction with the predicate as a parameter is out of reach too, and with it what a
recursive definition computes for every input. Where an argument by induction was
needed it is put as one about a smallest element of a set of naturals, which the
library's theorem on well-founded relations gives without such a parameter; and
where the model erased from a sequence by `SelectSeq`, whose definition the provers
cannot open, the erasure is stated by the indices that remain.

## Not modelled

* C++ object lifetime as such: payloads, moves and destructors appear only where
  they change scheduling (a frame that is destroyed, a request that detaches).
* `Root::wait` and its deadlines: what it would find is a property
  (`NeverStranded`, `NoFalseDeadlock`), the blocking call itself is the operating
  system's.
* The status a poll of a session returns, loading and contract checks, the
  conversion of arguments: only their success or failure.
* A start callback that fails: the adapters of `service.hpp` always succeed, so
  `attach` never takes that branch for a source call.
* Windows: console input and the worker thread of its output, process handles,
  and its sockets.
* Resolving, connecting and listening, which hosts do before they adopt a socket.
* Of the build: several targets and their graph, link order, search
  inventories, command lines (a change of options is a change of the command part
  of a fingerprint and clears every record), the syntax of dependency files,
  and two builds of one directory at once. The reads of one batch of fingerprints
  are one moment. A failure to wait for a process, and a
  linker that outlives its build, are left out.
* Of the language server: the lifecycle before `initialized`, framing and decoding
  (a packet is one message), the output channel, watch registrations, settings,
  aliases of one file, a change without content, the arguments and contents of
  queries and the errors a query may return in place of a result (both are
  `"result"`), and an analyzer that dies.
* The components PROJECT.json lists as not modelled, with their reasons.

The share of the repository's lines that is mapped stays small: nine tenths of
it are the compiler, which turns one tree into the next, and the tools around it.
Their correctness is that of large sequential functions over unbounded data, which
a bounded instance does not reach and a transliteration would not explain.

## Plan

1. `StaticExecutor` (`semantic/evaluation`): the interpreter's scheduler, as a
   second implementation of the contract of the core.
2. The watch registrations of the language server, which the editor confirms or
   refuses in any order while `retire_watches` decides which of them still cover
   the project, and the aliases of one file that the analyzer holds apart.
3. Refinement of the core: an abstract task tree, in which a scope ends after its
   children and a frame is woken once, implemented by `Execution`. Its two properties are
   theorems; the mapping would let `Composition` use them by INSTANCE.
