---------------------------- MODULE ByteChannel ----------------------------
(***************************************************************************)
(* A byte channel and the event sources its parked operations are          *)
(* (crafts/carven/std/channel/native.cpp on Driver::attach, poll and       *)
(* dispatch_one of crafts/carven/runtime/execution/execution.hpp).         *)
(*                                                                         *)
(* A send or receive that cannot complete at once attaches its Request to  *)
(* the driver.  Every poll walks the attached sources, newest first, and   *)
(* tries each again; one that completes queues its continuation and stays  *)
(* attached until it is resumed, so polls may see it again.                *)
(*                                                                         *)
(* Each Request is awaited by a task of its own.  While the host or a      *)
(* resumed body has control it may call the synchronous operations, start  *)
(* further tasks and ask others to cancel.                                 *)
(***************************************************************************)
EXTENDS Naturals, Sequences, FiniteSets, SequencesExt

CONSTANTS
    Requests,   \* the send and receive operations of a behaviour
    Senders,    \* those that send; a sender's message carries its name
    Tries,      \* the messages try_send is called with
    Capacity,   \* State::capacity
    Roots,      \* roots that borrow the driver
    NoRoot      \* no root is being advanced

ASSUME SendersAssumption == Senders \subseteq Requests /\ Senders \cap Tries = {}
ASSUME CapacityAssumption == Capacity \in Nat \ {0}   \* ByteChannel::new asserts it
ASSUME RootsAssumption == NoRoot \notin Roots

VARIABLES
    buffer,     \* State::queue
    closed,     \* State::closed
    op,         \* how far each operation has come
    result,     \* Request::result
    asked,      \* operations whose task was asked to cancel
    root,       \* the root each task belongs to
    events,     \* Driver::events, newest first
    ready,      \* Driver::first .. last
    stage,      \* how far the current Root::advance call has come
    cursor,     \* the source Driver::poll visits next
    active,     \* the root being advanced
    log,        \* history: the accepted messages, in order
    taken       \* history: how many messages were delivered

channelVars == <<buffer, closed, log, taken>>
requestVars == <<op, result>>
driverVars == <<events, ready>>
advanceVars == <<stage, cursor, active>>
vars == <<channelVars, requestVars, asked, root, driverVars, advanceVars>>

Messages == Senders \cup Tries

NoOutcome == [kind |-> "none",      of |-> {}]
Sent      == [kind |-> "sent",      of |-> {}]
Refused   == [kind |-> "refused",   of |-> {}]
Data(m)   == [kind |-> "data",      of |-> {m}]
End       == [kind |-> "end",       of |-> {}]
Cancelled == [kind |-> "cancelled", of |-> {}]

\* The host or a resumed body has control.
InControl == stage \in {"host", "run"}

-----------------------------------------------------------------------------
Init ==
    /\ buffer = <<>> /\ closed = FALSE
    /\ op = [r \in Requests |-> "cold"]
    /\ result = [r \in Requests |-> NoOutcome]
    /\ asked = {}
    /\ root \in [Requests -> Roots]
    /\ events = <<>> /\ ready = <<>>
    /\ stage = "host" /\ cursor = 1 /\ active = NoRoot
    /\ log = <<>> /\ taken = 0

-----------------------------------------------------------------------------
(* Synchronous operations.                                                 *)

PushBack(m) == buffer' = Append(buffer, m) /\ log' = Append(log, m)
PopFront == buffer' = Tail(buffer) /\ taken' = taken + 1

Close ==
    /\ InControl
    /\ closed' = TRUE
    /\ UNCHANGED <<buffer, log, taken, requestVars, asked, root, driverVars, advanceVars>>

\* Each message of Tries is offered successfully once.
TrySend(m) ==
    /\ InControl
    /\ ~closed /\ Len(buffer) # Capacity
    /\ ~\E i \in DOMAIN log : log[i] = m
    /\ PushBack(m)
    /\ UNCHANGED <<closed, taken, requestVars, asked, root, driverVars, advanceVars>>

TryReceive ==
    /\ InControl
    /\ buffer # <<>> /\ PopFront
    /\ UNCHANGED <<closed, log, requestVars, asked, root, driverVars, advanceVars>>

-----------------------------------------------------------------------------
(* Request::attempt: the completion o of request r, or none.               *)

\* Mutant: a receiver ends before draining.
AttemptUndrained(r, o) ==
    \/ o = Cancelled /\ r \in asked /\ UNCHANGED <<buffer, log, taken>>
    \/ /\ r \notin asked /\ r \in Senders
       /\ \/ o = Sent /\ ~closed /\ Len(buffer) # Capacity /\ PushBack(r) /\ UNCHANGED taken
          \/ o = Refused /\ closed /\ UNCHANGED <<buffer, log, taken>>
    \/ /\ r \notin asked /\ r \notin Senders
       /\ \/ buffer # <<>> /\ ~closed /\ o = Data(Head(buffer)) /\ PopFront /\ UNCHANGED log
          \/ o = End /\ closed /\ UNCHANGED <<buffer, log, taken>>

Attempt(r, o) ==
    \/ o = Cancelled /\ r \in asked /\ UNCHANGED <<buffer, log, taken>>
    \/ /\ r \notin asked /\ r \in Senders
       /\ \/ o = Sent /\ ~closed /\ Len(buffer) # Capacity /\ PushBack(r) /\ UNCHANGED taken
          \/ o = Refused /\ closed /\ UNCHANGED <<buffer, log, taken>>
    \/ /\ r \notin asked /\ r \notin Senders
       /\ \/ buffer # <<>> /\ o = Data(Head(buffer)) /\ PopFront /\ UNCHANGED log
          \/ o = End /\ buffer = <<>> /\ closed /\ UNCHANGED <<buffer, log, taken>>

Attemptable(r) ==
    \/ r \in asked \/ closed
    \/ r \in Senders /\ Len(buffer) # Capacity
    \/ r \notin Senders /\ buffer # <<>>

\* The completions an attempt may have in this state.
Outcomes == {Sent, Refused, End, Cancelled} \cup {Data(m) : m \in ToSet(buffer)}

-----------------------------------------------------------------------------
(* Tasks.                                                                  *)

\* A root or a child whose body awaits the operation is started.
Spawn(r) ==
    /\ InControl /\ op[r] = "cold"
    /\ op' = [op EXCEPT ![r] = "queued"]
    /\ ready' = Append(ready, r)
    /\ UNCHANGED <<channelVars, result, asked, root, events, advanceVars>>

Cancel(r) ==
    /\ InControl /\ op[r] # "cold"
    /\ asked' = asked \cup {r}
    /\ UNCHANGED <<channelVars, requestVars, root, driverVars, advanceVars>>

-----------------------------------------------------------------------------
(* Root::advance: Driver::poll, then Driver::dispatch_one.                 *)

Advance(t) ==
    /\ stage = "host"
    /\ \E r \in Requests : root[r] = t /\ op[r] \notin {"cold", "returned"}
    /\ stage' = "poll" /\ active' = t
    /\ UNCHANGED <<channelVars, requestVars, asked, root, driverVars, cursor>>

Visiting(r) == stage = "poll" /\ cursor \in DOMAIN events /\ r = events[cursor]

\* Request::poll of the source under the cursor.
PollCommits(r, o) ==
    /\ Visiting(r) /\ op[r] = "parked"
    /\ Attempt(r, o)
    /\ op' = [op EXCEPT ![r] = "committed"]
    /\ result' = [result EXCEPT ![r] = o]
    /\ ready' = Append(ready, r)
    /\ cursor' = cursor + 1
    /\ UNCHANGED <<closed, asked, root, events, stage, active>>

\* Mutant: a pending source ends the walk.
PollStops(r) ==
    /\ Visiting(r) /\ (op[r] # "parked" \/ ~Attemptable(r))
    /\ stage' = "dispatch" /\ cursor' = 1
    /\ UNCHANGED <<channelVars, requestVars, asked, root, driverVars, active>>

PollPasses(r) ==
    /\ Visiting(r) /\ (op[r] # "parked" \/ ~Attemptable(r))
    /\ cursor' = cursor + 1
    /\ UNCHANGED <<channelVars, requestVars, asked, root, driverVars, stage, active>>

PollEnds ==
    /\ stage = "poll" /\ cursor \notin DOMAIN events
    /\ stage' = "dispatch" /\ cursor' = 1
    /\ UNCHANGED <<channelVars, requestVars, asked, root, driverVars, active>>

\* The first queued node of the active root.
Selected(i) ==
    /\ stage = "dispatch"
    /\ i \in DOMAIN ready /\ root[ready[i]] = active
    /\ \A j \in 1..(i - 1) : root[ready[j]] # active

\* The body starts: the operation completes without suspending ...
StartCompletes(i, o) ==
    /\ Selected(i) /\ op[ready[i]] = "queued"
    /\ Attempt(ready[i], o)
    /\ op' = [op EXCEPT ![ready[i]] = "returned"]
    /\ result' = [result EXCEPT ![ready[i]] = o]
    /\ ready' = RemoveAt(ready, i)
    /\ stage' = "run"
    /\ UNCHANGED <<closed, asked, root, events, cursor, active>>

StartParks(i) ==
    /\ Selected(i) /\ op[ready[i]] = "queued" /\ ~Attemptable(ready[i])
    /\ op' = [op EXCEPT ![ready[i]] = "parked"]
    /\ events' = <<ready[i]>> \o events
    /\ ready' = RemoveAt(ready, i)
    /\ stage' = "host" /\ active' = NoRoot
    /\ UNCHANGED <<channelVars, result, asked, root, cursor>>

\* Mutant: the destructor leaves the source attached.
StillAttached(r) == events

Detached(r) ==
    IF \E k \in DOMAIN events : events[k] = r
    THEN RemoveAt(events, CHOOSE k \in DOMAIN events : events[k] = r)
    ELSE events

\* A committed operation is resumed: its Request is destroyed and detached.
Resume(i) ==
    /\ Selected(i) /\ op[ready[i]] = "committed"
    /\ op' = [op EXCEPT ![ready[i]] = "returned"]
    /\ events' = Detached(ready[i])
    /\ ready' = RemoveAt(ready, i)
    /\ stage' = "run"
    /\ UNCHANGED <<channelVars, result, asked, root, cursor, active>>

\* The body that ran returns.
Return ==
    /\ stage = "run"
    /\ stage' = "host" /\ active' = NoRoot
    /\ UNCHANGED <<channelVars, requestVars, asked, root, driverVars, cursor>>

NothingReady ==
    /\ stage = "dispatch"
    /\ \A i \in DOMAIN ready : root[ready[i]] # active
    /\ stage' = "host" /\ active' = NoRoot
    /\ UNCHANGED <<channelVars, requestVars, asked, root, driverVars, cursor>>

-----------------------------------------------------------------------------
Calls ==
    \/ Close \/ TryReceive
    \/ \E m \in Tries : TrySend(m)
    \/ \E r \in Requests : Spawn(r) \/ Cancel(r)

Poll ==
    \/ \E r \in ToSet(events) : PollPasses(r) \/ \E o \in Outcomes : PollCommits(r, o)
    \/ PollEnds

Dispatch ==
    \/ \E i \in DOMAIN ready :
         \/ \E o \in Outcomes : StartCompletes(i, o)
         \/ StartParks(i) \/ Resume(i)
    \/ NothingReady

Next == Calls \/ Poll \/ Dispatch \/ Return \/ \E t \in Roots : Advance(t)

Spec == Init /\ [][Next]_vars

\* The host advances each of its roots again and again, poll and dispatch run
\* to their end, and a body suspends or returns.
Fairness ==
    /\ \A t \in Roots : SF_vars(Advance(t))
    /\ WF_vars(Poll) /\ WF_vars(Dispatch) /\ WF_vars(Return)

-----------------------------------------------------------------------------
(* Properties.                                                             *)

\* Every variable has its type.
TypeOK ==
    /\ buffer \in Seq(Messages) /\ closed \in BOOLEAN
    /\ op \in [Requests -> {"cold", "queued", "parked", "committed", "returned"}]
    /\ result \in [Requests -> {NoOutcome, Sent, Refused, End, Cancelled}
                                 \cup {Data(m) : m \in Messages}]
    /\ asked \subseteq Requests
    /\ root \in [Requests -> Roots]
    /\ events \in Seq(Requests) /\ ready \in Seq(Requests)
    /\ stage \in {"host", "poll", "dispatch", "run"}
    /\ cursor \in Nat \ {0}
    /\ active \in Roots \cup {NoRoot}
    /\ log \in Seq(Messages) /\ taken \in Nat

\* The buffer is what was accepted and not delivered: nothing is lost, doubled
\* or reordered on the way, and it never outgrows its capacity.
BufferIsLogSuffix ==
    /\ taken <= Len(log) /\ buffer = SubSeq(log, taken + 1, Len(log))
    /\ Len(buffer) <= Capacity

\* Every delivered message reached at most one receiver and every message in
\* the log is of a sender that was told so: a cancelled or refused operation
\* leaves nothing behind, a committed one is not undone by a late request.
ExactlyOnce ==
    /\ \A r \in Senders : result[r] = Sent <=> \E i \in DOMAIN log : log[i] = r
    /\ \A i, j \in DOMAIN log : log[i] = log[j] => i = j
    /\ \A r, s \in Requests : result[r] = result[s] /\ result[r].kind = "data" => r = s
    /\ \A r \in Requests, m \in Messages :
         result[r] = Data(m) => \E i \in 1..taken : log[i] = m

\* A receiver that got End was right: nothing is or will be left to receive.
EndIsFinal ==
    (\E r \in Requests : result[r] = End) => closed /\ buffer = <<>>

\* The driver knows exactly the operations that are suspended: the attached
\* sources are the parked and the committed ones, once each, and a committed
\* one has exactly one continuation queued.
Once(s) == \A i, j \in DOMAIN s : s[i] = s[j] => i = j
SourcesAttached ==
    /\ Once(events) /\ ToSet(events) = {r \in Requests : op[r] \in {"parked", "committed"}}
    /\ Once(ready) /\ ToSet(ready) = {r \in Requests : op[r] \in {"queued", "committed"}}

\* Root::wait never finds nothing to wait for while an operation could go on:
\* after a complete poll, an empty queue means that every parked operation is
\* really blocked.  drive_root would otherwise terminate a live program.
NoFalseDeadlock ==
    stage = "dispatch" /\ ready = <<>>
      => \A r \in Requests : op[r] = "parked" => ~Attemptable(r)

\* Both together: the driver wakes exactly the operations it should and no live
\* program is terminated for want of one.
DriverServes == SourcesAttached /\ NoFalseDeadlock

\* A completion that was committed by one poll is neither replaced nor dropped
\* by a later poll, a cancellation or a close before its task is resumed.
CommitOnce ==
    [][\A r \in Requests : result[r] # NoOutcome => result'[r] = result[r]]_vars

\* The channel implements the bounded log: an operation starts when its task is
\* spawned and takes effect in the attempt that completes it.
Log == INSTANCE BoundedLog WITH
    pending <- {r \in Requests : op[r] \in {"queued", "parked"}},
    outcome <- result
Linearizable == Log!Spec

\* No operation stays parked while it could always go on: polls visit every
\* source, whatever newer sources do.
NeverIgnored ==
    \A r \in Requests : []<>~(op[r] = "parked" /\ Attemptable(r))
=============================================================================
