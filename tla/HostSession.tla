---------------------------- MODULE HostSession ----------------------------
(***************************************************************************)
(* A hosting session (tools/hosting/src/session.cpp) and its event mailbox *)
(* (tools/hosting/src/event.cpp).                                          *)
(*                                                                         *)
(* Any thread may post an event: it enters a bounded mailbox under a mutex *)
(* and the poster gets a task.  Everything else belongs to the thread of   *)
(* the session: submitting calls, polling, cancelling tasks, revoking      *)
(* subscriptions, replacing programs and closing.  A poll alternates       *)
(* between taking an event and advancing the call at the head of a         *)
(* round-robin queue; the code of a call that is being advanced may call   *)
(* back and cancel tasks or revoke subscriptions, and nothing else.        *)
(*                                                                         *)
(* Source and compiled calls are abstracted to the answer of each advance. *)
(* A finished task whose handles were dropped is used again (Drop), which  *)
(* stands for the allocation of a new one, and so is a freed program.      *)
(***************************************************************************)
EXTENDS Naturals, Sequences, FiniteSets, SequencesExt

CONSTANTS
    Tasks,          \* HostTaskState objects
    Subscriptions,  \* HostEventState objects
    Programs,       \* HostLoadedProgram objects
    MailboxLimit,   \* 256 in HostEvent::post
    Quantum,        \* the largest quantum a poll is given, 256 while closing
    None

ASSUME LimitAssumption == MailboxLimit \in Nat \ {0} /\ Quantum \in Nat \ {0}

Statuses == {"Unused", "Runnable", "Waiting", "Finished"}
Results == {"Value", "Cancelled", "Error"}

ASSUME NoneAssumption == None \notin Tasks \cup Programs \cup Results

VARIABLES
    accepting,      \* HostEventQueue::accepting
    pending,        \* HostEventQueue::pending
    subscribed,     \* the subscriptions whose HostEventState::active is set
    subscriptions,  \* HostSessionState::subscriptions
    status,         \* HostTaskState::status, "Unused" before its allocation
    result,         \* HostTaskState::result
    requested,      \* the tasks with HostTaskState::cancellation_requested
    invocation,     \* the tasks whose HostTaskState::invocation is not null
    started,        \* HostInvocationState::started
    stopped,        \* the calls whose context recorded a stopped_error
    source,         \* the program a HostSourceCall runs, None when compiled
    active,         \* HostSessionState::active
    current,        \* the invocation pump() has taken out and is advancing
    programs,       \* HostSessionState::programs
    uses,           \* HostLoadedProgram::active
    latest,         \* HostSessionState::latest
    entry,          \* the program bound to the hosted entry, None when compiled
    preferEvent,    \* HostSessionState::prefer_event
    waiting,        \* pump(): advances in a row that answered Waiting
    quantum,        \* pump(): what is left of the quantum
    mode            \* what the thread of the session executes

mailbox == <<accepting, pending>>
registry == <<subscribed, subscriptions>>
task == <<status, result, requested>>
call == <<invocation, started, stopped, source>>
loaded == <<programs, latest, entry>>
turn == <<preferEvent, waiting, quantum>>
vars == <<mailbox, registry, task, call, active, current, loaded, uses, turn, mode>>

Queued == {e.task : e \in Range(pending)}
Advancing == {t \in Tasks : t = current}
Live == Range(active) \cup Advancing

\* pump() is between two turns of its loop.
Pumping == mode \in {"Poll", "Drain"} /\ current = None

\* Code of the host runs: its own, or a callback from the call being advanced.
HostRuns == mode = "Host" \/ current # None

-----------------------------------------------------------------------------
Init ==
    /\ accepting = TRUE /\ pending = <<>>
    /\ subscribed = {} /\ subscriptions = {}
    /\ status = [t \in Tasks |-> "Unused"]
    /\ result = [t \in Tasks |-> None]
    /\ requested = {} /\ invocation = {} /\ started = {} /\ stopped = {}
    /\ source = [t \in Tasks |-> None]
    /\ active = <<>> /\ current = None
    /\ latest \in Programs \cup {None} /\ entry \in {None, latest}
    /\ programs = {latest} \ {None}
    /\ uses = [p \in Programs |-> 0]
    /\ preferEvent = TRUE /\ waiting = 0 /\ quantum = 0
    /\ mode = "Host"

-----------------------------------------------------------------------------
(* The mailbox.  Each action is one critical section of its mutex.          *)

\* HostEvent::post, on any thread, at any moment.
Post(s, t) ==
    /\ accepting /\ s \in subscribed /\ Len(pending) < MailboxLimit
    /\ status[t] = "Unused"
    /\ status' = [status EXCEPT ![t] = "Runnable"]
    /\ pending' = Append(pending, [subscription |-> s, task |-> t])
    /\ UNCHANGED <<accepting, registry, result, requested, call, active, current, loaded,
                   uses, turn, mode>>

\* cancel_queued() for the tasks of some events.
CancelQueued(S) ==
    /\ status' = [t \in Tasks |-> IF t \in S THEN "Finished" ELSE status[t]]
    /\ result' = [t \in Tasks |-> IF t \in S THEN "Cancelled" ELSE result[t]]

\* The entries of a sequence at the indices I, in order.
Restriction(s, I) ==
    [n \in 1..Cardinality(I) |-> s[CHOOSE i \in I : Cardinality({j \in I : j <= i}) = n]]

\* HostEventState::cancel, with its std::erase_if.
Revoke(s) ==
    /\ subscribed' = subscribed \ {s}
    /\ pending' = Restriction(pending, {i \in DOMAIN pending : pending[i].subscription # s})
    /\ CancelQueued({e.task : e \in {d \in Range(pending) : d.subscription = s}})

-----------------------------------------------------------------------------
(* Programs.                                                                *)

\* Mutant: the running calls of a replaced program are forgotten.
CollectReplaced(held, bound, inUse) == held \cap bound

\* HostSessionState::collect_programs.
Collect(held, bound, inUse) == {p \in held : p \in bound \/ inUse[p] # 0}

\* A successful HostSession::reload.  A failed one changes nothing.
Reload(p) ==
    /\ mode = "Host" /\ p \in Programs \ programs
    /\ latest' = p
    /\ entry' \in {entry, p}
    /\ programs' = Collect(programs \cup {p}, {latest', entry'}, uses)
    /\ UNCHANGED <<mailbox, registry, task, call, active, current, uses, turn, mode>>

-----------------------------------------------------------------------------
(* Calls.                                                                   *)

\* What a name resolves to: the hosted entry or a function of the latest
\* program.
Bound(p) == p = entry \/ (p = latest /\ p # None)

\* HostSessionState::admit, once every argument was converted.
Admit(t, p) ==
    /\ Bound(p)
    /\ invocation' = invocation \cup {t}
    /\ source' = [source EXCEPT ![t] = p]
    /\ uses' = [q \in Programs |-> IF q = p THEN uses[q] + 1 ELSE uses[q]]
    /\ active' = Append(active, t)

\* HostSession::submit.  A submission that is refused changes nothing.
Submit(t, p) ==
    /\ mode = "Host" /\ status[t] = "Unused"
    /\ status' = [status EXCEPT ![t] = "Runnable"]
    /\ Admit(t, p)
    /\ UNCHANGED <<mailbox, registry, result, requested, started, stopped, current, loaded, turn, mode>>

\* HostInvocationState::cancel for some calls.
CancelCalls(S) ==
    /\ requested' = requested \cup S
    /\ status' = [t \in Tasks |-> IF t \in S \ requested THEN "Runnable" ELSE status[t]]

\* HostInvocationState::finish, with the destruction of the operation.
Finish(t, outcome) ==
    /\ status' = [status EXCEPT ![t] = "Finished"]
    /\ result' = [result EXCEPT ![t] = IF t \in stopped THEN "Error" ELSE outcome]
    /\ invocation' = invocation \ {t} /\ started' = started \ {t}
    /\ source' = [source EXCEPT ![t] = None]
    /\ uses' = [q \in Programs |-> IF q = source[t] THEN uses[q] - 1 ELSE uses[q]]

\* HostTask::cancel, from the host or from a callback.
CancelTask(t) ==
    /\ HostRuns /\ status[t] # "Unused" /\ result[t] = None
    /\ IF t \in invocation
       THEN CancelCalls({t})
       ELSE requested' = requested \cup {t} /\ UNCHANGED status
    /\ UNCHANGED <<mailbox, registry, result, call, active, current, loaded, uses, turn, mode>>

\* The last handle of a finished task is dropped and its state freed.
Drop(t) ==
    /\ status[t] = "Finished"
    /\ status' = [status EXCEPT ![t] = "Unused"]
    /\ result' = [result EXCEPT ![t] = None]
    /\ requested' = requested \ {t}
    /\ stopped' = stopped \ {t}
    /\ UNCHANGED <<mailbox, registry, invocation, started, source, active, current, loaded, uses,
                   turn, mode>>

-----------------------------------------------------------------------------
(* Subscriptions.                                                           *)

\* HostSession::subscribe, for an owner that is alive and the hosted entry.
Subscribe(s) ==
    /\ mode = "Host" /\ s \notin subscribed
    /\ subscribed' = subscribed \cup {s}
    /\ subscriptions' = (subscriptions \cap subscribed) \cup {s}
    /\ UNCHANGED <<mailbox, task, call, active, current, loaded, uses, turn, mode>>

\* HostSubscription::cancel, its destructor, or the end of the owner's life.
Unsubscribe(s) ==
    /\ HostRuns /\ s \in subscribed
    /\ Revoke(s)
    /\ UNCHANGED <<accepting, subscriptions, requested, call, active, current, loaded, uses,
                   turn, mode>>

-----------------------------------------------------------------------------
(* HostSessionState::pump.                                                  *)

\* HostSession::poll.
Poll ==
    /\ mode = "Host"
    /\ mode' = "Poll"
    /\ quantum' \in 1..Quantum
    /\ UNCHANGED <<mailbox, registry, task, call, active, current, loaded, uses, preferEvent,
                   waiting>>

EventTurn == (preferEvent \/ active = <<>>) /\ pending # <<>>

\* Mutant: events come first as long as there are some.
EventTakenFirst ==
    /\ quantum' = quantum - 1 /\ preferEvent' = TRUE /\ waiting' = 0
    /\ pending' = Tail(pending)

\* The bookkeeping around dispatch().
EventTaken ==
    /\ quantum' = quantum - 1 /\ preferEvent' = FALSE /\ waiting' = 0
    /\ pending' = Tail(pending)

\* HostSessionState::dispatch: the event was cancelled while it was queued.
DispatchCancelled ==
    /\ Pumping /\ quantum # 0 /\ EventTurn
    /\ LET event == Head(pending) IN
        /\ event.subscription \notin subscribed \/ event.task \in requested
        /\ CancelQueued({event.task})
    /\ EventTaken
    /\ UNCHANGED <<accepting, registry, requested, call, active, current, loaded, uses, mode>>

\* Its entry is looked up now, and its arguments are converted.
DispatchAdmitted(p) ==
    /\ Pumping /\ quantum # 0 /\ EventTurn
    /\ LET event == Head(pending) IN
        /\ event.subscription \in subscribed /\ event.task \notin requested
        /\ Admit(event.task, p)
    /\ EventTaken
    /\ UNCHANGED <<accepting, registry, task, started, stopped, current, loaded, mode>>

\* The lookup or a conversion fails.
DispatchRefused ==
    /\ Pumping /\ quantum # 0 /\ EventTurn
    /\ LET event == Head(pending) IN
        /\ event.subscription \in subscribed /\ event.task \notin requested
        /\ status' = [status EXCEPT ![event.task] = "Finished"]
        /\ result' = [result EXCEPT ![event.task] = "Error"]
    /\ EventTaken
    /\ UNCHANGED <<accepting, registry, requested, call, active, current, loaded, uses, mode>>

CallTurn == Pumping /\ quantum # 0 /\ ~EventTurn /\ active # <<>>

\* HostInvocationState::advance of a call cancelled before its first slice.
AdvanceCancelled ==
    /\ CallTurn
    /\ Head(active) \notin started /\ Head(active) \in requested
    /\ Finish(Head(active), "Cancelled")
    /\ active' = Tail(active)
    /\ programs' = Collect(programs, {latest, entry}, uses')
    /\ quantum' = quantum - 1 /\ preferEvent' = TRUE /\ waiting' = 0
    /\ UNCHANGED <<mailbox, registry, requested, stopped, current, latest, entry, mode>>

\* Mutant: a call never reacts to the error of its context.
StopIgnored(t) == FALSE

\* The context of t was stopped and t was not yet asked to end.
Stopping(t) == t \in stopped /\ t \notin requested

\* Otherwise the operation is advanced: control goes to the code of the call.
BeginAdvance ==
    /\ CallTurn
    /\ Head(active) \in started \/ Head(active) \notin requested
    /\ current' = Head(active) /\ active' = Tail(active)
    /\ started' = started \cup {Head(active)}
    /\ IF Stopping(Head(active)) THEN CancelCalls({Head(active)}) ELSE UNCHANGED <<requested, status>>
    /\ UNCHANGED <<mailbox, registry, result, invocation, stopped, source, loaded, uses, turn,
                   mode>>

\* HostContextAccess::stop: a slice of one call delivers a malformed response
\* to any call of the driver they share.
Stop(t) ==
    /\ current # None /\ t \in invocation \cap started
    /\ stopped' = stopped \cup {t}
    /\ UNCHANGED <<mailbox, registry, task, invocation, started, source, active, current, loaded,
                   uses, turn, mode>>

\* The operation answers Finished.
EndFinished(outcome) ==
    /\ current # None
    /\ Finish(current, outcome)
    /\ current' = None
    /\ programs' = Collect(programs, {latest, entry}, uses')
    /\ quantum' = quantum - 1 /\ preferEvent' = TRUE /\ waiting' = 0
    /\ UNCHANGED <<mailbox, registry, requested, stopped, active, latest, entry, mode>>

\* The call goes to the tail; the poll ends early when all calls wait.
Rotate ==
    /\ active' = Append(active, current) /\ current' = None
    /\ waiting' = IF status'[current] = "Waiting" THEN waiting + 1 ELSE 0
    /\ quantum' = IF waiting' >= Len(active') /\ pending = <<>> THEN 0 ELSE quantum - 1
    /\ preferEvent' = TRUE

\* The operation answers Runnable or Waiting.
EndUnfinished(progress) ==
    /\ current # None
    /\ IF Stopping(current)
       THEN CancelCalls({current})
       ELSE status' = [status EXCEPT ![current] = progress] /\ UNCHANGED requested
    /\ Rotate
    /\ UNCHANGED <<mailbox, registry, result, call, loaded, uses, mode>>

PumpEnds == Pumping /\ (quantum = 0 \/ (active = <<>> /\ pending = <<>>))

EndPoll ==
    /\ mode = "Poll" /\ PumpEnds
    /\ mode' = "Host" /\ quantum' = 0 /\ waiting' = 0
    /\ subscriptions' = subscriptions \cap subscribed
    /\ UNCHANGED <<mailbox, subscribed, task, call, active, current, loaded, uses, preferEvent>>

-----------------------------------------------------------------------------
(* HostSession::close.                                                      *)

\* Mutant: the queued events are dropped without a result.
CloseMailboxSilently ==
    /\ mode = "Host"
    /\ mode' = "Closing"
    /\ accepting' = FALSE /\ pending' = <<>>
    /\ UNCHANGED <<status, result, registry, requested, call, active, current, loaded, uses, turn>>

\* closed = true and HostEventQueue::close.
CloseMailbox ==
    /\ mode = "Host"
    /\ mode' = "Closing"
    /\ accepting' = FALSE /\ pending' = <<>>
    /\ CancelQueued(Queued)
    /\ UNCHANGED <<registry, requested, call, active, current, loaded, uses, turn>>

CloseSubscription(s) ==
    /\ mode = "Closing" /\ s \in subscriptions
    /\ Revoke(s)
    /\ subscriptions' = subscriptions \ {s}
    /\ UNCHANGED <<accepting, requested, call, active, current, loaded, uses, turn, mode>>

\* Mutant: the calls are drained without being asked to end.
CloseWithoutCancel ==
    /\ mode = "Closing" /\ subscriptions = {}
    /\ mode' = "Drain" /\ quantum' = 0
    /\ UNCHANGED <<mailbox, registry, task, call, active, current, loaded, uses,
                   preferEvent, waiting>>

CloseCalls ==
    /\ mode = "Closing" /\ subscriptions = {}
    /\ CancelCalls(Range(active))
    /\ mode' = "Drain" /\ quantum' = 0
    /\ UNCHANGED <<mailbox, registry, result, call, active, current, loaded, uses,
                   preferEvent, waiting>>

\* pump() is called again while there are active calls.
DrainOn ==
    /\ mode = "Drain" /\ PumpEnds /\ active # <<>>
    /\ quantum' = Quantum /\ waiting' = 0
    /\ UNCHANGED <<mailbox, registry, task, call, active, current, loaded, uses, preferEvent, mode>>

Drained ==
    /\ mode = "Drain" /\ PumpEnds /\ active = <<>>
    /\ mode' = "Closed"
    /\ latest' = None /\ entry' = None /\ programs' = {}
    /\ UNCHANGED <<mailbox, registry, task, call, active, current, uses, turn>>

-----------------------------------------------------------------------------
Dispatch ==
    \/ DispatchCancelled \/ DispatchRefused
    \/ \E p \in Programs \cup {None} : DispatchAdmitted(p)

End ==
    \/ \E r \in Results : EndFinished(r)
    \/ \E progress \in {"Runnable", "Waiting"} : EndUnfinished(progress)

Close == CloseMailbox \/ (\E s \in Subscriptions : CloseSubscription(s)) \/ CloseCalls

Next ==
    \/ \E s \in Subscriptions : Subscribe(s) \/ Unsubscribe(s)
    \/ \E s \in Subscriptions, t \in Tasks : Post(s, t)
    \/ \E t \in Tasks : CancelTask(t) \/ Drop(t) \/ Stop(t)
    \/ \E t \in Tasks, p \in Programs \cup {None} : Submit(t, p)
    \/ \E p \in Programs : Reload(p)
    \/ Poll \/ Dispatch \/ AdvanceCancelled \/ BeginAdvance \/ End \/ EndPoll
    \/ Close \/ DrainOn \/ Drained

Spec == Init /\ [][Next]_vars

\* The host keeps polling; each advance is bounded and nonblocking.
Pump == Poll \/ Dispatch \/ AdvanceCancelled \/ BeginAdvance \/ EndPoll
Fairness == WF_vars(Pump) /\ WF_vars(End)
FairSpec == Spec /\ Fairness

\* Cancellation must eventually finish through advance (HostCall).
Cooperates(t) ==
    current = t /\ t \in requested /\ \E r \in Results : EndFinished(r)
ClosingSpec ==
    /\ FairSpec
    /\ WF_vars((\E s \in Subscriptions : CloseSubscription(s)) \/ CloseCalls \/ DrainOn \/ Drained)
    /\ \A t \in Tasks : SF_vars(Cooperates(t))

-----------------------------------------------------------------------------
(* Properties.                                                              *)

\* The types of the variables.
TypeOK ==
    /\ accepting \in BOOLEAN
    /\ pending \in Seq([subscription : Subscriptions, task : Tasks])
    /\ subscribed \subseteq Subscriptions /\ subscriptions \subseteq Subscriptions
    /\ status \in [Tasks -> Statuses]
    /\ result \in [Tasks -> Results \cup {None}]
    /\ requested \subseteq Tasks /\ invocation \subseteq Tasks
    /\ started \subseteq Tasks /\ stopped \subseteq Tasks
    /\ source \in [Tasks -> Programs \cup {None}]
    /\ active \in Seq(Tasks) /\ current \in Tasks \cup {None}
    /\ programs \subseteq Programs /\ uses \in [Programs -> Nat]
    /\ latest \in Programs \cup {None} /\ entry \in Programs \cup {None}
    /\ preferEvent \in BOOLEAN /\ waiting \in Nat /\ quantum \in Nat
    /\ mode \in {"Host", "Poll", "Closing", "Drain", "Closed"}

Distinct(s) == \A i, j \in DOMAIN s : s[i] = s[j] => i = j

\* A task that was handed out and has no result is in exactly one place: the
\* mailbox, or the calls.  The borrow HostTask::cancel follows is set for the
\* second and never dangles (HostTaskState::invocation).
EveryTaskHeld ==
    /\ \A i, j \in DOMAIN pending : pending[i].task = pending[j].task => i = j
    /\ Distinct(active) /\ current \notin Range(active)
    /\ Queued \cap Live = {}
    /\ {t \in Tasks : status[t] \in {"Runnable", "Waiting"}} = Queued \cup Live
    /\ {t \in Tasks : result[t] # None} = {t \in Tasks : status[t] = "Finished"}
    /\ invocation = Live

\* A program outlives every call that was admitted to it, the binding of the
\* entry and its being the latest, over any replacements; and its count of
\* calls is exact, so that it is freed after them (collect_programs).
ProgramsRetained ==
    /\ {latest, entry} \cup {source[t] : t \in Live} \subseteq programs \cup {None}
    /\ \A p \in Programs : uses[p] = Cardinality({t \in Live : source[t] = p})

\* The polls are shared.  A call waiting for its turn gets it although events
\* are posted for ever, and a posted event is dispatched or cancelled although
\* the calls never end.
TurnsShared == \A t \in Tasks :
    /\ (t \in Range(active)) ~> (t \notin Range(active))
    /\ (t \in Queued) ~> (t \notin Queued)

\* close() returns when the calls it cancels come to their ends, and then every
\* task handed out has its result, no subscription can post and no call holds a
\* program.
Settled ==
    /\ \A t \in Tasks : status[t] \in {"Unused", "Finished"}
    /\ subscribed = {} /\ pending = <<>>
    /\ \A p \in Programs : uses[p] = 0
CloseReturns == (mode = "Closing") ~> (mode = "Closed" /\ Settled)

\* A call whose context was stopped, even during the slice of another call, is
\* asked to end, and when it does it reports the error whatever it answers.
StoppedDrains == \A t \in Tasks :
    (t \in stopped \cap invocation) ~> (status[t] = "Finished" /\ result[t] = "Error")

============================================================================
