----------------------------- MODULE Execution -----------------------------
(***************************************************************************)
(* The asynchronous execution core of the Carven runtime                   *)
(* (crafts/carven/runtime/execution/{execution,child,timer,time}.hpp).     *)
(*                                                                         *)
(* One single-threaded Driver serves every root that borrows it.  It owns  *)
(* a FIFO of work nodes, a list of parked timers, a list of cancellation   *)
(* subscriptions and a "dirty" bit that says a cancellation request was    *)
(* recorded since the last poll.  A host advances one root at a time:      *)
(* advance() polls the driver and then runs one work node of that root     *)
(* until the coroutine it resumes suspends.                                *)
(*                                                                         *)
(* A frame is one AsyncOperation coroutine.  A root and every lexical      *)
(* child get a TaskContext of their own, named here by the frame that owns *)
(* it; a directly awaited callee shares its caller's task.  What a source  *)
(* body does between two suspensions is left open: a running frame may     *)
(* take any of the operations the runtime offers, in any order.            *)
(***************************************************************************)
EXTENDS Naturals, Sequences, FiniteSets, SequencesExt

CONSTANTS
    Frames,      \* the coroutine frames a behaviour may use
    Roots,       \* the frames that are bodies of Root objects
    NoFrame,     \* the null frame
    Operations,  \* the runtime operations the source bodies of a run use
    MaxTime      \* bound on the clock

ASSUME FramesAssumption == Roots \subseteq Frames /\ NoFrame \notin Frames
ASSUME TimeAssumption == MaxTime \in Nat

VARIABLES
    status,      \* cold, live (started, not at final suspend), done, freed
    completion,  \* the outcome co_returned by the frame
    at,          \* the awaiter a suspended frame is parked in
    waiter,      \* OperationState::waiter, who is told of the completion
    task,        \* OperationState::task
    lineage,     \* a task and the tasks on its parent chain
    request,     \* TaskContext::request
    scope,       \* ChildScope::phase of the frame's scope
    children,    \* ChildScope::children, last registered first
    queue,       \* Driver::first .. last
    timers,      \* TimerQueue, in list order
    subs,        \* Driver::cancellation_first, in list order
    dirty,       \* Driver::cancellation_dirty
    stage,       \* how far the current Root::advance call has come
    active,      \* the root being advanced
    current,     \* the frame the thread is executing
    now          \* the steady clock

frameVars == <<status, completion, at>>
taskVars  == <<task, lineage, request>>
scopeVars == <<scope, children>>
parkVars  == <<timers, subs>>
hostVars  == <<stage, active, current>>
vars == <<frameVars, waiter, taskVars, scopeVars, queue, parkVars, dirty,
          hostVars, now>>

-----------------------------------------------------------------------------
(* Work nodes, waiters and suspension points.                              *)

Resume(f) == [run |-> "resume", of |-> f]   \* resume_node(f)
Pump(f)   == [run |-> "pump",   of |-> f]   \* ChildScope::pump of f's scope
WorkNode  == [run : {"resume", "pump"}, of : Frames]

Unwaited        == [kind |-> "none",   of |-> NoFrame]
Transfer(f)     == [kind |-> "handle", of |-> f]   \* coroutine_handle of f
Wake(f)         == [kind |-> "resume", of |-> f]   \* WorkNode* that resumes f
Drain(f)        == [kind |-> "pump",   of |-> f]   \* WorkNode* that drains f's scope
Registration(f) == [kind |-> "select", of |-> f]   \* f's WaitReadyAwaiter
Waiter == {Unwaited} \cup [kind : {"handle", "resume", "pump", "select"}, of : Frames]

Running      == [point |-> "none", on |-> NoFrame]
Point(p)     == [point |-> p, on |-> NoFrame]
PointOn(p, c) == [point |-> p, on |-> c]
Points == [point : {"none", "start", "yield", "timer", "call", "observe",
                    "close", "select", "scope"},
           on    : Frames \cup {NoFrame}]

Timer == [of : Frames, deadline : 0..MaxTime]

Suspended(f) == status[f] = "live" /\ f # current

-----------------------------------------------------------------------------
(* Cancellation: intent is recorded on one task and read along the parent   *)
(* chain.                                                                   *)

CancelRequested(t) == \E a \in lineage[t] : request[a] # "None"
StopRequested(t)   == \E a \in lineage[t] : request[a] = "Stopped"

\* Mutant: a stop that stays local.
LocalRequestStop(t) ==
    /\ request' = [request EXCEPT ![t] = "Stopped"]
    /\ dirty' = (dirty \/ request[t] # "Stopped")

\* request_cancel on every task of T.
RequestCancel(T) ==
    /\ request' = [t \in Frames |->
                     IF t \in T /\ request[t] = "None" THEN "Cancelled" ELSE request[t]]
    /\ dirty' = (dirty \/ \E t \in T : request[t] = "None")

\* request_stop from task t: the root's request becomes Stopped.
RequestStop(t) ==
    /\ request' = [r \in Frames |->
                     IF r \in lineage[t] \cap Roots THEN "Stopped" ELSE request[r]]
    /\ dirty' = (dirty \/ \E r \in lineage[t] \cap Roots : request[r] # "Stopped")

\* Detaching a WaitReadyAwaiter: its registrations leave every candidate and
\* its cancellation subscription leaves the driver.
WithoutRegistrations(f) ==
    [c \in Frames |-> IF waiter[c] = Registration(f) THEN Unwaited ELSE waiter[c]]
WithoutSubscription(f) ==
    IF \E i \in DOMAIN subs : subs[i] = f
    THEN RemoveAt(subs, CHOOSE i \in DOMAIN subs : subs[i] = f)
    ELSE subs

-----------------------------------------------------------------------------
Init ==
    /\ status = [f \in Frames |-> "cold"]
    /\ completion = [f \in Frames |-> "none"]
    /\ at = [f \in Frames |-> Running]
    /\ waiter = [f \in Frames |-> Unwaited]
    /\ task = [f \in Frames |-> NoFrame]
    /\ lineage = [f \in Frames |-> {}]
    /\ request = [f \in Frames |-> "None"]
    /\ scope = [f \in Frames |-> "Closed"]
    /\ children = [f \in Frames |-> <<>>]
    /\ queue = <<>>
    /\ timers = <<>>
    /\ subs = <<>>
    /\ dirty = FALSE
    /\ stage = "host"
    /\ active = NoFrame
    /\ current = NoFrame
    /\ now = 0

-----------------------------------------------------------------------------
(* The host: Root construction, cancel, advance and take_completion.       *)

StartRoot(r) ==
    /\ stage = "host" /\ status[r] = "cold"
    /\ status' = [status EXCEPT ![r] = "live"]
    /\ at' = [at EXCEPT ![r] = Point("start")]
    /\ task' = [task EXCEPT ![r] = r]
    /\ lineage' = [lineage EXCEPT ![r] = {r}]
    /\ queue' = Append(queue, Resume(r))
    /\ UNCHANGED <<completion, waiter, request, scopeVars, parkVars, dirty, hostVars, now>>

CancelRoot(r) ==
    /\ stage = "host" /\ status[r] = "live"
    /\ RequestCancel({r})
    /\ UNCHANGED <<frameVars, waiter, task, lineage, scopeVars, queue, parkVars, hostVars, now>>

TakeCompletion(r) ==
    /\ stage = "host" /\ status[r] = "done"
    /\ status' = [status EXCEPT ![r] = "freed"]
    /\ completion' = [completion EXCEPT ![r] = IF StopRequested(r) THEN "stopped" ELSE @]
    /\ UNCHANGED <<at, waiter, taskVars, scopeVars, queue, parkVars, dirty, hostVars, now>>

\* Mutant: due timers are completed before cancellations are delivered.
AdvanceDueFirst(r) ==
    /\ stage = "host" /\ status[r] = "live"
    /\ active' = r /\ stage' = "due"
    /\ UNCHANGED <<frameVars, waiter, taskVars, scopeVars, queue, parkVars, dirty, current, now>>

Advance(r) ==
    /\ stage = "host" /\ status[r] = "live"
    /\ active' = r
    /\ stage' = IF dirty THEN "cancel" ELSE "due"
    /\ dirty' = FALSE
    /\ UNCHANGED <<frameVars, waiter, taskVars, scopeVars, queue, parkVars, current, now>>

-----------------------------------------------------------------------------
(* Driver::poll.  Each step finishes one registration of a list walk.      *)

FirstCancelledSelection(i) ==
    /\ i \in DOMAIN subs /\ CancelRequested(task[subs[i]])
    /\ \A j \in 1..(i - 1) : ~CancelRequested(task[subs[j]])

FirstCancelledTimer(i) ==
    /\ i \in DOMAIN timers /\ CancelRequested(task[timers[i].of])
    /\ \A j \in 1..(i - 1) : ~CancelRequested(task[timers[j].of])

NoCancelledSelection == \A i \in DOMAIN subs : ~CancelRequested(task[subs[i]])
NoCancelledTimer == \A i \in DOMAIN timers : ~CancelRequested(task[timers[i].of])

\* Mutant: a cancelled selection leaves the registrations of its candidates.
CancelSelectionAttached(i) ==
    /\ stage = "cancel" /\ FirstCancelledSelection(i)
    /\ subs' = RemoveAt(subs, i)
    /\ queue' = Append(queue, Resume(subs[i]))
    /\ UNCHANGED <<frameVars, waiter, taskVars, scopeVars, timers, dirty, hostVars, now>>

CancelSelection(i) ==
    /\ stage = "cancel" /\ FirstCancelledSelection(i)
    /\ waiter' = WithoutRegistrations(subs[i])
    /\ subs' = RemoveAt(subs, i)
    /\ queue' = Append(queue, Resume(subs[i]))
    /\ UNCHANGED <<frameVars, taskVars, scopeVars, timers, dirty, hostVars, now>>

CancelTimer(i) ==
    /\ stage = "cancel" /\ NoCancelledSelection /\ FirstCancelledTimer(i)
    /\ timers' = RemoveAt(timers, i)
    /\ queue' = Append(queue, Resume(timers[i].of))
    /\ UNCHANGED <<frameVars, waiter, taskVars, scopeVars, subs, dirty, hostVars, now>>

CancellationsDelivered ==
    /\ stage = "cancel" /\ NoCancelledSelection /\ NoCancelledTimer
    /\ stage' = "due"
    /\ UNCHANGED <<frameVars, waiter, taskVars, scopeVars, queue, parkVars, dirty,
                   active, current, now>>

TimerDue == timers # <<>> /\ Head(timers).deadline <= now

ExpireTimer ==
    /\ stage = "due" /\ TimerDue
    /\ timers' = Tail(timers)
    /\ queue' = Append(queue, Resume(Head(timers).of))
    /\ UNCHANGED <<frameVars, waiter, taskVars, scopeVars, subs, dirty, hostVars, now>>

-----------------------------------------------------------------------------
(* Driver::dispatch_one.                                                   *)

Owned(r, n) == r \in lineage[task[n.of]]

\* The first node of the advanced root.
Selected(i) ==
    /\ stage = "due" /\ ~TimerDue
    /\ i \in DOMAIN queue /\ Owned(active, queue[i])
    /\ \A j \in 1..(i - 1) : ~Owned(active, queue[j])

\* The thread continues f in its await_resume: an observed or closed child is
\* taken and discarded.
Continue(f, freed) ==
    /\ current' = f
    /\ at' = [at EXCEPT ![f] = Running]
    /\ status' = [c \in Frames |-> IF c \in freed THEN "freed" ELSE status[c]]

Discarded(f) == IF at[f].point \in {"observe", "close"} THEN {at[f].on} ELSE {}

DispatchFrame(i) ==
    /\ Selected(i) /\ queue[i].run = "resume"
    /\ queue' = RemoveAt(queue, i)
    /\ Continue(queue[i].of, Discarded(queue[i].of))
    /\ stage' = "run"
    /\ UNCHANGED <<completion, waiter, taskVars, scopeVars, parkVars, dirty, active, now>>

\* ChildScope::drain: slots are dropped from the head of the list up to the
\* first child that has not finished; without one the scope closes and its
\* owner's continuation is queued.
Unfinished(f, k) ==
    /\ k \in DOMAIN children[f] /\ status[children[f][k]] = "live"
    /\ \A j \in 1..(k - 1) : status[children[f][j]] # "live"

DispatchDrainBlocked(i, k) ==
    /\ Selected(i) /\ queue[i].run = "pump"
    /\ LET f == queue[i].of IN
         /\ Unfinished(f, k)
         /\ waiter' = [waiter EXCEPT ![children[f][k]] = Drain(f)]
         /\ status' = [c \in Frames |->
                         IF \E j \in 1..(k - 1) : children[f][j] = c THEN "freed" ELSE status[c]]
         /\ children' = [children EXCEPT ![f] = SubSeq(@, k, Len(@))]
    /\ queue' = RemoveAt(queue, i)
    /\ stage' = "host" /\ active' = NoFrame
    /\ UNCHANGED <<completion, at, taskVars, scope, parkVars, dirty, current, now>>

\* Mutants: drain looks at the first child only; drain forgets the owner.
DrainFirstOnly(i) ==
    /\ Selected(i) /\ queue[i].run = "pump"
    /\ LET f == queue[i].of IN
         /\ children[f] # <<>> => status[children[f][1]] # "live"
         /\ children' = [children EXCEPT ![f] = <<>>]
         /\ scope' = [scope EXCEPT ![f] = "Closed"]
         /\ queue' = Append(RemoveAt(queue, i), Resume(f))
    /\ stage' = "host" /\ active' = NoFrame
    /\ UNCHANGED <<frameVars, waiter, taskVars, parkVars, dirty, current, now>>
DrainForgetsOwner(i) ==
    /\ Selected(i) /\ queue[i].run = "pump"
    /\ LET f == queue[i].of IN
         /\ \A k \in DOMAIN children[f] : status[children[f][k]] # "live"
         /\ children' = [children EXCEPT ![f] = <<>>]
         /\ scope' = [scope EXCEPT ![f] = "Closed"]
    /\ queue' = RemoveAt(queue, i)
    /\ stage' = "host" /\ active' = NoFrame
    /\ UNCHANGED <<frameVars, waiter, taskVars, parkVars, dirty, current, now>>

DispatchDrainClosed(i) ==
    /\ Selected(i) /\ queue[i].run = "pump"
    /\ LET f == queue[i].of IN
         /\ \A k \in DOMAIN children[f] : status[children[f][k]] # "live"
         /\ status' = [c \in Frames |->
                         IF \E j \in DOMAIN children[f] : children[f][j] = c
                         THEN "freed" ELSE status[c]]
         /\ children' = [children EXCEPT ![f] = <<>>]
         /\ scope' = [scope EXCEPT ![f] = "Closed"]
         /\ queue' = Append(RemoveAt(queue, i), Resume(f))
    /\ stage' = "host" /\ active' = NoFrame
    /\ UNCHANGED <<completion, at, waiter, taskVars, parkVars, dirty, current, now>>

\* advance() returns Progress::Waiting.
NothingReady ==
    /\ stage = "due" /\ ~TimerDue
    /\ \A i \in DOMAIN queue : ~Owned(active, queue[i])
    /\ stage' = "host" /\ active' = NoFrame
    /\ UNCHANGED <<frameVars, waiter, taskVars, scopeVars, queue, parkVars, dirty, current, now>>

-----------------------------------------------------------------------------
(* What the running frame may do.  Awaits that do not suspend (a due or     *)
(* cancelled sleep, a selection with a finished candidate, a closed child)  *)
(* leave the state as it is and the frame goes on.                          *)

\* The frame parks and advance() returns to the host.
Park(f, p) ==
    /\ at' = [at EXCEPT ![f] = p]
    /\ current' = NoFrame
    /\ stage' = "host" /\ active' = NoFrame

Does(f, op) == current = f /\ stage = "run" /\ op \in Operations

\* Mutant: yield queues at the head.
YieldFirst(f) ==
    /\ Does(f, "yield")
    /\ queue' = <<Resume(f)>> \o queue
    /\ Park(f, Point("yield"))
    /\ UNCHANGED <<status, completion, waiter, taskVars, scopeVars, parkVars, dirty, now>>

Yield(f) ==
    /\ Does(f, "yield")
    /\ queue' = Append(queue, Resume(f))
    /\ Park(f, Point("yield"))
    /\ UNCHANGED <<status, completion, waiter, taskVars, scopeVars, parkVars, dirty, now>>

\* TimerQueue::insert walks past every deadline that is not later.
InsertTimer(f, deadline) ==
    \E i \in 1..(Len(timers) + 1) :
        /\ \A j \in 1..(i - 1) : timers[j].deadline <= deadline
        /\ i \in DOMAIN timers => timers[i].deadline > deadline
        /\ timers' = InsertAt(timers, i, [of |-> f, deadline |-> deadline])

\* Mutant: a sleep parks without reading the request.
SleepBlind(f, deadline) ==
    /\ Does(f, "sleep") /\ deadline > now
    /\ InsertTimer(f, deadline)
    /\ Park(f, Point("timer"))
    /\ UNCHANGED <<status, completion, waiter, taskVars, scopeVars, queue, subs, dirty, now>>

Sleep(f, deadline) ==
    /\ Does(f, "sleep")
    /\ ~CancelRequested(task[f]) /\ deadline > now
    /\ InsertTimer(f, deadline)
    /\ Park(f, Point("timer"))
    /\ UNCHANGED <<status, completion, waiter, taskVars, scopeVars, queue, subs, dirty, now>>

OpenScope(f) ==
    /\ Does(f, "scope") /\ scope[f] = "Closed"
    /\ scope' = [scope EXCEPT ![f] = "Open"]
    /\ UNCHANGED <<frameVars, waiter, taskVars, children, queue, parkVars, dirty, hostVars, now>>

StartChild(f, c) ==
    /\ Does(f, "scope") /\ scope[f] = "Open"
    /\ c \notin Roots /\ status[c] = "cold"
    /\ status' = [status EXCEPT ![c] = "live"]
    /\ at' = [at EXCEPT ![c] = Point("start")]
    /\ task' = [task EXCEPT ![c] = c]
    /\ lineage' = [lineage EXCEPT ![c] = lineage[task[f]] \cup {c}]
    /\ children' = [children EXCEPT ![f] = <<c>> \o @]
    /\ queue' = Append(queue, Resume(c))
    /\ UNCHANGED <<completion, waiter, request, scope, parkVars, dirty, hostVars, now>>

\* The children of f's scope that have not been consumed.
Held(f) == {c \in ToSet(children[f]) : status[c] \in {"live", "done"}}

CancelChild(f, c) ==
    /\ Does(f, "cancel") /\ c \in Held(f)
    /\ RequestCancel({c})
    /\ UNCHANGED <<frameVars, waiter, task, lineage, scopeVars, queue, parkVars, hostVars, now>>

ObserveDone(f, c) ==
    /\ Does(f, "observe") /\ c \in Held(f) /\ status[c] = "done"
    /\ status' = [status EXCEPT ![c] = "freed"]
    /\ UNCHANGED <<completion, at, waiter, taskVars, scopeVars, queue, parkVars, dirty,
                   hostVars, now>>

Observe(f, c) ==
    /\ Does(f, "observe") /\ c \in Held(f) /\ status[c] = "live"
    /\ waiter' = [waiter EXCEPT ![c] = Wake(f)]
    /\ Park(f, PointOn("observe", c))
    /\ UNCHANGED <<status, completion, taskVars, scopeVars, queue, parkVars, dirty, now>>

CloseDone(f, c) ==
    /\ Does(f, "close") /\ c \in Held(f) /\ status[c] = "done"
    /\ RequestCancel({c})
    /\ status' = [status EXCEPT ![c] = "freed"]
    /\ UNCHANGED <<completion, at, waiter, task, lineage, scopeVars, queue, parkVars,
                   hostVars, now>>

CloseChild(f, c) ==
    /\ Does(f, "close") /\ c \in Held(f) /\ status[c] = "live"
    /\ RequestCancel({c})
    /\ waiter' = [waiter EXCEPT ![c] = Wake(f)]
    /\ Park(f, PointOn("close", c))
    /\ UNCHANGED <<status, completion, task, lineage, scopeVars, queue, parkVars, now>>

\* WaitReadyAwaiter: every candidate carries a registration of f until one
\* finishes or, when the selection accepts cancellation, a request is seen.
Select(f, candidates, acceptCancellation) ==
    /\ Does(f, "select")
    /\ candidates # {} /\ candidates \subseteq Held(f)
    /\ \A c \in candidates : status[c] = "live"
    /\ acceptCancellation => ~CancelRequested(task[f])
    /\ waiter' = [c \in Frames |-> IF c \in candidates THEN Registration(f) ELSE waiter[c]]
    /\ subs' = IF acceptCancellation THEN <<f>> \o subs ELSE subs
    /\ Park(f, Point("select"))
    /\ UNCHANGED <<status, completion, taskVars, scopeVars, queue, timers, dirty, now>>

CloseScope(f, requestCancel) ==
    /\ Does(f, "scope") /\ scope[f] = "Open"
    /\ scope' = [scope EXCEPT ![f] = "Closing"]
    /\ RequestCancel(IF requestCancel THEN Held(f) ELSE {})
    /\ queue' = Append(queue, Pump(f))
    /\ Park(f, Point("scope"))
    /\ UNCHANGED <<status, completion, waiter, task, lineage, children, parkVars, now>>

\* AsyncOperation::Awaiter: the callee runs at once, on its caller's task.
Call(f, g) ==
    /\ Does(f, "call") /\ g \notin Roots /\ status[g] = "cold"
    /\ status' = [status EXCEPT ![g] = "live"]
    /\ waiter' = [waiter EXCEPT ![g] = Transfer(f)]
    /\ task' = [task EXCEPT ![g] = task[f]]
    /\ at' = [at EXCEPT ![f] = PointOn("call", g)]
    /\ current' = g
    /\ UNCHANGED <<completion, lineage, request, scopeVars, queue, parkVars, dirty,
                   stage, active, now>>

Stop(f) ==
    /\ Does(f, "stop")
    /\ RequestStop(task[f])
    /\ UNCHANGED <<frameVars, waiter, task, lineage, scopeVars, queue, parkVars, hostVars, now>>

-----------------------------------------------------------------------------
(* co_return: return_value records the completion, final_suspend publishes  *)
(* it to the waiter.  A frame returns only once its scope has closed.       *)

Finish(f, outcome) ==
    /\ current = f /\ stage = "run" /\ scope[f] = "Closed"
    /\ completion' = [completion EXCEPT ![f] = outcome]
    /\ IF outcome = "stopped"
       THEN "stop" \in Operations /\ RequestStop(task[f])
       ELSE UNCHANGED <<request, dirty>>

\* A root, or a child nobody waits for yet.
ReturnUnobserved(f, outcome) ==
    /\ Finish(f, outcome) /\ waiter[f].kind = "none"
    /\ status' = [status EXCEPT ![f] = "done"]
    /\ current' = NoFrame /\ stage' = "host" /\ active' = NoFrame
    /\ UNCHANGED <<at, waiter, task, lineage, scopeVars, queue, parkVars, now>>

ReturnToNode(f, outcome) ==
    /\ Finish(f, outcome) /\ waiter[f].kind \in {"resume", "pump"}
    /\ status' = [status EXCEPT ![f] = "done"]
    /\ waiter' = [waiter EXCEPT ![f] = Unwaited]
    /\ queue' = Append(queue, [run |-> waiter[f].kind, of |-> waiter[f].of])
    /\ current' = NoFrame /\ stage' = "host" /\ active' = NoFrame
    /\ UNCHANGED <<at, task, lineage, scopeVars, parkVars, now>>

\* The waiter is a selection: it commits, detaches and is queued once.
ReturnToSelection(f, outcome) ==
    /\ Finish(f, outcome) /\ waiter[f].kind = "select"
    /\ status' = [status EXCEPT ![f] = "done"]
    /\ waiter' = WithoutRegistrations(waiter[f].of)
    /\ subs' = WithoutSubscription(waiter[f].of)
    /\ queue' = Append(queue, Resume(waiter[f].of))
    /\ current' = NoFrame /\ stage' = "host" /\ active' = NoFrame
    /\ UNCHANGED <<at, task, lineage, scopeVars, timers, now>>

\* The waiter is the caller: control transfers to it and the callee is freed.
ReturnToCaller(f, outcome) ==
    /\ Finish(f, outcome) /\ waiter[f].kind = "handle"
    /\ waiter' = [waiter EXCEPT ![f] = Unwaited]
    /\ Continue(waiter[f].of, {f})
    /\ UNCHANGED <<task, lineage, scopeVars, queue, parkVars, stage, active, now>>

-----------------------------------------------------------------------------
\* poll() reads the clock once, so time stands still while it runs.
Tick ==
    /\ now < MaxTime /\ stage \in {"host", "run"}
    /\ now' = now + 1
    /\ UNCHANGED <<frameVars, waiter, taskVars, scopeVars, queue, parkVars, dirty, hostVars>>

HostNext == \E r \in Roots :
    StartRoot(r) \/ CancelRoot(r) \/ TakeCompletion(r) \/ Advance(r)

PollNext ==
    \/ \E i \in DOMAIN subs : CancelSelection(i)
    \/ \E i \in DOMAIN timers : CancelTimer(i)
    \/ CancellationsDelivered
    \/ ExpireTimer

DispatchNext ==
    \/ \E i \in DOMAIN queue :
         \/ DispatchFrame(i)
         \/ \E k \in DOMAIN children[queue[i].of] : DispatchDrainBlocked(i, k)
         \/ DispatchDrainClosed(i)
    \/ NothingReady

Outcomes == {"settled", "stopped"}

FrameNext == \E f \in Frames :
    \/ Yield(f)
    \/ \E deadline \in 1..MaxTime : Sleep(f, deadline)
    \/ OpenScope(f)
    \/ \E c \in Frames :
         StartChild(f, c) \/ Call(f, c) \/ CancelChild(f, c) \/ ObserveDone(f, c)
           \/ Observe(f, c) \/ CloseDone(f, c) \/ CloseChild(f, c)
    \/ \E candidates \in SUBSET Frames, accept \in BOOLEAN : Select(f, candidates, accept)
    \/ \E requestCancel \in BOOLEAN : CloseScope(f, requestCancel)
    \/ Stop(f)
    \/ \E outcome \in Outcomes :
         ReturnUnobserved(f, outcome) \/ ReturnToNode(f, outcome)
           \/ ReturnToSelection(f, outcome) \/ ReturnToCaller(f, outcome)

Next == HostNext \/ PollNext \/ DispatchNext \/ FrameNext \/ Tick

Spec == Init /\ [][Next]_vars

\* drive_root calls advance until the root completes, poll and dispatch run to
\* their end, and a body eventually suspends or returns.
FairSpec ==
    /\ Spec
    /\ \A r \in Roots : WF_vars(Advance(r))
    /\ WF_vars(PollNext) /\ WF_vars(DispatchNext) /\ WF_vars(FrameNext)

-----------------------------------------------------------------------------
(* Properties.                                                             *)

\* Every variable has its type: nodes, waiters and list entries name frames of
\* the system, and the thread executes a frame only inside dispatch_one.
TypeOK ==
    /\ status \in [Frames -> {"cold", "live", "done", "freed"}]
    /\ completion \in [Frames -> {"none", "settled", "stopped"}]
    /\ at \in [Frames -> Points]
    /\ waiter \in [Frames -> Waiter]
    /\ task \in [Frames -> Frames \cup {NoFrame}]
    /\ lineage \in [Frames -> SUBSET Frames]
    /\ request \in [Frames -> {"None", "Cancelled", "Stopped"}]
    /\ scope \in [Frames -> {"Open", "Closing", "Closed"}]
    /\ children \in [Frames -> Seq(Frames)]
    /\ queue \in Seq(WorkNode)
    /\ timers \in Seq(Timer)
    /\ subs \in Seq(Frames)
    /\ dirty \in BOOLEAN
    /\ stage \in {"host", "cancel", "due", "run"}
    /\ active \in Roots \cup {NoFrame}
    /\ current \in Frames \cup {NoFrame}
    /\ now \in 0..MaxTime

\* No cancellation is lost: a sleep or an accepting selection that is parked
\* while its task or an ancestor has been asked to stop is always known to the
\* driver, which still has the dirty bit set or is delivering it right now.
Parked == ToSet(subs) \cup {timers[i].of : i \in DOMAIN timers}
NoLostCancellation ==
    \A f \in Parked : CancelRequested(task[f]) => dirty \/ stage = "cancel"

\* A request and an expiry found by one poll select cancellation: no sleeper
\* is completed by its deadline after its task was asked to cancel.
CancellationBeatsExpiry ==
    [][ExpireTimer => ~CancelRequested(task[Head(timers).of])]_vars

\* How many places will resume f: queued nodes, waiters of the operation f
\* awaits, timers, a selection that has not committed, a scope that is closing.
Wakes(f) ==
    Cardinality({i \in DOMAIN queue : queue[i] = Resume(f)})
      + Cardinality({c \in Frames : waiter[c] \in {Transfer(f), Wake(f)}})
      + Cardinality({i \in DOMAIN timers : timers[i].of = f})
      + (IF \E c \in Frames : waiter[c] = Registration(f) THEN 1 ELSE 0)
      + (IF scope[f] = "Closing" THEN 1 ELSE 0)

\* A suspended coroutine is resumed exactly once: exactly one place will wake
\* it, and none will wake a frame that is running, finished or destroyed.
OneWake == \A f \in Frames : Wakes(f) = IF Suspended(f) THEN 1 ELSE 0

\* Structured concurrency: a child task that exists is held by the scope of an
\* activation that has not returned, and that scope has not closed.
ChildrenInScope == \A c \in Frames \ Roots :
    task[c] = c /\ status[c] \in {"live", "done"}
      => \E f \in Frames : /\ c \in ToSet(children[f])
                           /\ status[f] = "live" /\ scope[f] # "Closed"

\* The assertions of OperationState::wait and detail::destroy hold: when an
\* owner runs or its drain is queued, its children have no waiter left, and a
\* destroyed frame has none.  A closing scope has exactly one drain outstanding,
\* queued or waiting for a child, so its pump node is never linked twice.
WaiterProtocol ==
    /\ \A f \in Frames :
         f = current \/ (\E i \in DOMAIN queue : queue[i] = Pump(f))
           => \A c \in Held(f) : waiter[c] = Unwaited
    /\ \A c \in Frames : status[c] # "live" => waiter[c] = Unwaited
    /\ \A f \in Frames :
         Cardinality({i \in DOMAIN queue : queue[i] = Pump(f)})
           + Cardinality({c \in ToSet(children[f]) : waiter[c] = Drain(f)})
           = IF scope[f] = "Closing" THEN 1 ELSE 0

\* Both together: no frame can be lost and no intrusive node linked twice.
WakesExact == OneWake /\ WaiterProtocol

\* drive_root never waits for nothing: whenever the host has control, an
\* unfinished root has a queued node of its own or one of its tasks is in the
\* timer queue, so require_protocol(root.wait()) does not terminate the program.
NeverStranded == \A r \in Roots :
    stage = "host" /\ status[r] = "live"
      => \/ \E i \in DOMAIN queue : Owned(r, queue[i])
         \/ \E i \in DOMAIN timers : r \in lineage[task[timers[i].of]]

\* A stop anywhere in a root's tree is what the host receives, whatever the
\* other frames returned.
StopPrevails == \A r \in Roots :
    status[r] = "freed" /\ completion[r] # "stopped"
      => \A f \in Frames : task[f] # NoFrame /\ r \in lineage[task[f]]
                             => completion[f] # "stopped"

\* Every queued continuation runs: no yield loop, cancellation or drain keeps
\* the driver from reaching it.
QueuedRuns == \A f \in Frames :
    (\E i \in DOMAIN queue : queue[i] = Resume(f)) ~> (current = f)

=============================================================================
