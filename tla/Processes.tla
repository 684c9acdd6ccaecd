----------------------------- MODULE Processes -----------------------------
(***************************************************************************)
(* std::process on a POSIX system (crafts/carven/std/process/native.cpp):  *)
(* child processes with a socket to their standard streams, the reads,     *)
(* writes and waits over them, and groups of children that inherit the     *)
(* streams of the program.                                                 *)
(*                                                                         *)
(* A child is known by its process number only, and the number is free for *)
(* any other process as soon as the child has been reaped.  Handles and    *)
(* operations share the State of a child; the last of them destroys it.    *)
(* The streams are counted in bytes.                                       *)
(***************************************************************************)
EXTENDS Naturals, Sequences, SequencesExt, FiniteSets

CONSTANTS
    Children,   \* State objects
    Requests,   \* Request objects
    On,         \* the child each of them is for
    Kind,       \* "Read", "Write" or "Wait"
    Size,       \* how many bytes a write sends
    Pids,       \* process numbers
    Programs,   \* which children and requests a program uses
    Output,     \* how many bytes a child writes at most
    Room,       \* how many bytes wait for a child that does not read
    Foreign,    \* a process that is no child of this program
    Nobody      \* no process has the number

Killed == 137
Statuses == {0, Killed}

ASSUME RequestsAssumption ==
    /\ On \in [Requests -> Children] /\ Kind \in [Requests -> {"Read", "Write", "Wait"}]
    /\ Size \in Nat /\ Output \in Nat /\ Room \in Nat
ASSUME NamesAssumption == Foreign \notin Children /\ Nobody \notin Children \cup {Foreign}
ASSUME ProgramsAssumption == Programs \subseteq SUBSET (Children \cup Requests)

VARIABLES
    holder,     \* who has a process number
    alive,      \* the children that run
    exit,       \* how each child ended, as a set of at most one status
    harmed,     \* history: the processes that were signalled by mistake
    output,     \* bytes a child wrote that were not received
    input,      \* bytes sent that the child has not read
    fresh,      \* the children that can still be spawned
    pid,        \* State::pid, as a set
    status,     \* State::status, as a set
    closed,     \* State::input_closed
    busy,       \* State::reading, writing and waiting: the requests that hold them
    handles,    \* the children the tasks have a handle of
    op,         \* how far each request has come
    offset,     \* Request::offset
    completion, \* Request::completion
    asked,      \* the requests whose task was asked to cancel
    events,     \* Driver::events, newest first
    group,      \* Group::children
    callers,    \* what the owner of the group keeps beside them
    told,       \* history: the exits the owner was told of
    scan,       \* the index wait_any looks at
    stage       \* how far the loop of drive_root has come

kernel == <<holder, alive, exit, harmed>>
streams == <<output, input>>
state == <<fresh, pid, status, closed, handles>>
request == <<busy, op, offset, completion, asked, events>>
groups == <<group, callers, told, scan>>
vars == <<kernel, streams, state, request, groups, stage>>

None == [code |-> "None", count |-> 0]
Result(code, count) == [code |-> code, count |-> count]

Init ==
    /\ \E program \in Programs :
         /\ fresh = program \cap Children
         /\ op = [r \in Requests |-> IF r \in program THEN "none" ELSE "returned"]
    /\ holder = [k \in Pids |-> Nobody] /\ alive = {} /\ harmed = {}
    /\ exit = [p \in Children |-> {}] /\ pid = [p \in Children |-> {}]
    /\ status = [p \in Children |-> {}]
    /\ output = [p \in Children |-> 0] /\ input = [p \in Children |-> 0]
    /\ closed = {} /\ handles = {} /\ busy = {}
    /\ offset = [r \in Requests |-> 0] /\ completion = [r \in Requests |-> None]
    /\ asked = {} /\ events = <<>>
    /\ group = <<>> /\ callers = <<>> /\ scan = 1
    /\ told = [p \in Children |-> {}]
    /\ stage = "run"

-----------------------------------------------------------------------------
(* The children and the rest of the system.                                 *)

Exits(p) ==
    /\ p \in alive
    /\ alive' = alive \ {p} /\ exit' = [exit EXCEPT ![p] = {0}]
    /\ UNCHANGED <<holder, harmed, streams, state, request, groups, stage>>

Writes(p) ==
    /\ p \in alive \ ToSet(group) /\ output[p] < Output
    /\ output' = [output EXCEPT ![p] = @ + 1]
    /\ UNCHANGED <<kernel, input, state, request, groups, stage>>

Reads(p) ==
    /\ p \in alive /\ input[p] > 0
    /\ input' = [input EXCEPT ![p] = 0]
    /\ UNCHANGED <<kernel, output, state, request, groups, stage>>

\* Another process of the system takes a number that is free.
Reuse(k) ==
    /\ holder[k] = Nobody /\ \E p \in Children : k \in pid[p]
    /\ holder' = [holder EXCEPT ![k] = Foreign]
    /\ UNCHANGED <<alive, exit, harmed, streams, state, request, groups, stage>>

Outside ==
    \/ \E p \in Children : Exits(p) \/ Writes(p) \/ Reads(p)
    \/ \E k \in Pids : Reuse(k)

-----------------------------------------------------------------------------
(* The calls on process numbers.                                            *)

Owners(p) == {holder[k] : k \in pid[p]}

\* kill(pid, SIGKILL) on behalf of the children S.
Kill(S) ==
    LET struck == UNION {Owners(p) : p \in S}
    IN  /\ alive' = alive \ struck
        /\ exit' = [p \in Children |-> IF p \in struck \cap alive THEN {Killed} ELSE exit[p]]
        /\ harmed' = harmed \cup UNION {Owners(p) \ {p} : p \in S}

\* What waitpid(pid, WNOHANG) tells of child p: nothing, or an exit.
Exited(p) == UNION {exit[q] : q \in Owners(p) \cap Children}

\* poll_exit for the children S: one that has ended is reaped, and its status
\* retained.
PollExit(S) ==
    /\ holder' = [k \in Pids |->
         IF \E p \in S : status[p] = {} /\ Exited(p) # {} /\ k \in pid[p] THEN Nobody ELSE holder[k]]
    /\ status' = [p \in Children |-> IF p \in S /\ status[p] = {} THEN Exited(p) ELSE status[p]]

\* Its answer: the status that was retained, before the system is asked.
ExitAnswer(p) ==
    LET seen == IF status[p] # {} THEN status[p] ELSE Exited(p)
    IN  IF seen # {} THEN Result("Done", CHOOSE s \in seen : TRUE)
        ELSE IF Owners(p) \cap Children = {} THEN Result("Error", 0)
        ELSE None

\* State::~State for the children S: one that was not reaped is killed and
\* reaped.
Destroy(S) ==
    LET unreaped == {p \in S : status[p] = {}}
    IN  /\ Kill(unreaped)
        /\ holder' = [k \in Pids |->
             IF holder[k] \in Children /\ \E p \in unreaped : k \in pid[p] THEN Nobody ELSE holder[k]]

-----------------------------------------------------------------------------
(* Handles.                                                                 *)

Code == stage = "run"

\* posix_spawnp: the child gets a number nobody has.
Fork(p) ==
    /\ Code /\ p \in fresh
    /\ fresh' = fresh \ {p}
    /\ \E k \in Pids :
         /\ holder[k] = Nobody
         /\ holder' = [holder EXCEPT ![k] = p] /\ pid' = [pid EXCEPT ![p] = {k}]
    /\ alive' = alive \cup {p}
    /\ UNCHANGED <<exit, harmed, streams, status, closed, request, stage>>

Spawn(p) ==
    /\ Fork(p)
    /\ handles' = handles \cup {p}
    /\ UNCHANGED groups

\* The socket of a child that was spawned cannot be made ready for use: State and
\* child go before the caller has a handle.  The child ran meanwhile.  A spawn
\* that fails earlier leaves nothing.
SpawnFails(p) ==
    /\ Code /\ p \in fresh
    /\ fresh' = fresh \ {p}
    /\ \E k \in Pids : holder[k] = Nobody /\ pid' = [pid EXCEPT ![p] = {k}]
    /\ \E s \in Statuses : exit' = [exit EXCEPT ![p] = {s}]
    /\ UNCHANGED <<holder, alive, harmed, streams, status, closed, handles, request, groups, stage>>

\* The children whose State ends when the requests R and the handles H go.
LastOf(R, H) == {p \in {On[r] : r \in R} \cup H :
    /\ p \notin handles \ H /\ p \notin ToSet(group)
    /\ \A q \in Requests \ R : On[q] = p => op[q] \in {"none", "returned"}}

Drop(p) ==
    /\ Code /\ p \in handles
    /\ handles' = handles \ {p}
    /\ Destroy(LastOf({}, {p}))
    /\ UNCHANGED <<streams, fresh, pid, status, closed, request, groups, stage>>

\* Mutant: the status is not looked at.
TerminateBlindly(p) ==
    /\ Code /\ p \in handles
    /\ Kill({p})
    /\ UNCHANGED <<holder, streams, state, request, groups, stage>>

Terminate(p) ==
    /\ Code /\ p \in handles
    /\ Kill({q \in {p} : status[q] = {}})
    /\ UNCHANGED <<holder, streams, state, request, groups, stage>>

\* close_input; a child that has closed its end has seen the end of its input.
CloseInput(p) ==
    /\ Code /\ p \in handles \ closed
    /\ \A r \in busy : On[r] = p => Kind[r] # "Write"
    /\ closed' = closed \cup {p}
    /\ UNCHANGED <<kernel, streams, fresh, pid, status, handles, request, groups, stage>>

-----------------------------------------------------------------------------
(* Requests.                                                                *)

\* A cold operation holds the State of its child.
Create(r) ==
    /\ Code /\ op[r] = "none" /\ On[r] \in handles
    /\ op' = [op EXCEPT ![r] = "cold"]
    /\ UNCHANGED <<kernel, streams, state, busy, offset, completion, asked, events, groups, stage>>

Discard(r) ==
    /\ Code /\ op[r] = "cold"
    /\ op' = [op EXCEPT ![r] = "returned"]
    /\ Destroy(LastOf({r}, {}))
    /\ UNCHANGED <<streams, state, busy, offset, completion, asked, events, groups, stage>>

Cancel(r) ==
    /\ Code /\ op[r] \in {"cold", "parked", "queued"} /\ r \notin asked
    /\ asked' = asked \cup {r}
    /\ UNCHANGED <<kernel, streams, state, busy, op, offset, completion, events, groups, stage>>

Least(m, n) == IF m < n THEN m ELSE n

\* How many bytes an attempt of request r moves: recv() one buffer, send() what
\* the socket takes.
Moves(r) ==
    LET p == On[r]
    IN  IF Kind[r] = "Read" THEN output[p]
        ELSE IF Kind[r] = "Write" /\ p \in alive \ closed
             THEN Least(Size - offset[r], Room - input[p])
        ELSE 0

\* Request::attempt.  A child that has ended has closed its streams, and reset
\* them if it left input unread.
Attempt(r) ==
    LET p == On[r]
        n == Moves(r)
    IN  IF Kind[r] = "Wait" THEN ExitAnswer(p)
        ELSE IF Kind[r] = "Read"
             THEN IF n > 0 THEN Result("Done", n)
                  ELSE IF p \notin alive THEN Result(IF input[p] > 0 THEN "Error" ELSE "End", 0)
                  ELSE None
        ELSE IF offset[r] + n = Size THEN Result("Done", 0)
        ELSE IF p \notin alive \ closed THEN Result("Error", 0)
        ELSE None

\* What the attempts of the requests A do to the streams and the children.
Effects(A) ==
    /\ output' = [p \in Children |->
         IF \E r \in A : On[r] = p /\ Kind[r] = "Read" THEN 0 ELSE output[p]]
    /\ offset' = [r \in Requests |->
         IF r \in A /\ Kind[r] = "Write" THEN offset[r] + Moves(r) ELSE offset[r]]
    /\ input' = [p \in Children |->
         IF \E r \in A : On[r] = p /\ Kind[r] = "Write"
         THEN input[p] + Moves(CHOOSE r \in A : On[r] = p /\ Kind[r] = "Write") ELSE input[p]]

\* Request::suspend of a request that is refused at once.
Refusal(r) ==
    IF r \in asked THEN Result("Cancelled", 0)
    ELSE IF \E q \in busy : On[q] = On[r] /\ Kind[q] = Kind[r] THEN Result("Busy", 0)
    ELSE None

Returns(r, result) ==
    /\ op' = [op EXCEPT ![r] = "returned"]
    /\ completion' = [completion EXCEPT ![r] = result]

StartRefused(r) ==
    /\ Code /\ op[r] = "cold" /\ Refusal(r) # None
    /\ Returns(r, Refusal(r))
    /\ Destroy(LastOf({r}, {}))
    /\ UNCHANGED <<streams, state, busy, offset, asked, events, groups, stage>>

\* It completes at the first attempt.  After a wait that has, there is nothing
\* left to kill.
StartDone(r) ==
    /\ Code /\ op[r] = "cold" /\ Refusal(r) = None /\ Attempt(r) # None
    /\ Returns(r, Attempt(r))
    /\ Effects({r})
    /\ IF Kind[r] = "Wait"
       THEN PollExit({On[r]}) /\ UNCHANGED <<alive, exit, harmed>>
       ELSE Destroy(LastOf({r}, {})) /\ UNCHANGED status
    /\ UNCHANGED <<fresh, pid, closed, handles, busy, asked, events, groups, stage>>

\* Otherwise it becomes an event source of the driver.
Start(r) ==
    /\ Code /\ op[r] = "cold" /\ Refusal(r) = None /\ Attempt(r) = None
    /\ Effects({r})
    /\ busy' = busy \cup {r}
    /\ op' = [op EXCEPT ![r] = "parked"]
    /\ events' = <<r>> \o events
    /\ UNCHANGED <<kernel, state, completion, asked, groups, stage>>

-----------------------------------------------------------------------------
(* Groups.  The owner keeps its own list in the order of the children.      *)

GroupSpawn(p) ==
    /\ Fork(p)
    /\ group' = Append(group, p) /\ callers' = Append(callers, p)
    /\ UNCHANGED <<handles, told, scan>>

\* group_wait blocks the thread; wait_any looks at one child after the other.
GroupWait ==
    /\ Code /\ group # <<>>
    /\ stage' = "group" /\ scan' = 1
    /\ UNCHANGED <<kernel, streams, state, request, group, callers, told>>

\* Mutant: the last child takes the place of the one that ended.
EraseSwapping(s, i) == SubSeq([s EXCEPT ![i] = s[Len(s)]], 1, Len(s) - 1)

\* vector::erase.
Erase(s, i) == RemoveAt(s, i)

Scan ==
    LET p == group[scan]
    IN  /\ stage = "group"
        /\ PollExit({p})
        /\ IF ExitAnswer(p).code = "Done"
           THEN /\ group' = Erase(group, scan)
                /\ callers' = RemoveAt(callers, scan)
                /\ told' = [told EXCEPT ![callers[scan]] = {ExitAnswer(p).count}]
                /\ stage' = "run" /\ UNCHANGED scan
           ELSE /\ scan' = (scan % Len(group)) + 1
                /\ UNCHANGED <<group, callers, told, stage>>
        /\ UNCHANGED <<alive, exit, harmed, streams, fresh, pid, closed, handles, request>>

GroupDrop ==
    /\ Code /\ group # <<>>
    /\ Destroy(ToSet(group))
    /\ group' = <<>> /\ callers' = <<>>
    /\ UNCHANGED <<streams, state, request, told, scan, stage>>

-----------------------------------------------------------------------------
(* The driver.                                                              *)

EndTurn ==
    /\ Code /\ stage' = "poll"
    /\ UNCHANGED <<kernel, streams, state, request, groups>>

\* Request::poll of every source.
Poll ==
    LET answer(r) == IF r \in asked THEN Result("Cancelled", 0) ELSE Attempt(r)
        polled == {r \in Requests : op[r] = "parked"}
        done == {r \in polled : answer(r) # None}
    IN  /\ stage = "poll" /\ stage' = "dispatch"
        /\ Effects(polled \ asked)
        /\ PollExit({On[r] : r \in {q \in polled \ asked : Kind[q] = "Wait"}})
        /\ op' = [r \in Requests |-> IF r \in done THEN "queued" ELSE op[r]]
        /\ completion' = [r \in Requests |-> IF r \in done THEN answer(r) ELSE completion[r]]
        /\ UNCHANGED <<alive, exit, harmed, fresh, pid, closed, handles, busy, asked, events, groups>>

\* Driver::dispatch_one resumes the task of a request, which is destroyed.
Resume(r) ==
    /\ stage = "dispatch" /\ stage' = "run"
    /\ op[r] = "queued"
    /\ op' = [op EXCEPT ![r] = "returned"]
    /\ busy' = busy \ {r}
    /\ \E i \in DOMAIN events : events[i] = r /\ events' = RemoveAt(events, i)
    /\ Destroy(LastOf({r}, {}))
    /\ UNCHANGED <<streams, state, offset, completion, asked, groups>>

\* Another task of the program runs.
ResumeOther ==
    /\ stage = "dispatch" /\ stage' = "run"
    /\ UNCHANGED <<kernel, streams, state, request, groups>>

\* Driver::wait: nothing is ready, and the thread blocks in the newest source.
Block ==
    /\ stage = "dispatch" /\ events # <<>>
    /\ \A r \in Requests : op[r] # "queued"
    /\ stage' = "wait"
    /\ UNCHANGED <<kernel, streams, state, request, groups>>

Ready(r) ==
    LET p == On[r]
    IN  \/ Kind[r] = "Read" /\ (output[p] > 0 \/ p \notin alive)
        \/ Kind[r] = "Write" /\ (input[p] < Room \/ p \notin alive)

\* Mutant: a wait for an exit is not bounded.
UnboundedWait == Len(events) > 1

\* Several sources, or a wait for an exit, are looked at again after at most
\* ten milliseconds.
BoundedWait == Len(events) > 1 \/ Kind[events[1]] = "Wait"

Woken ==
    /\ stage = "wait" /\ stage' = "poll"
    /\ BoundedWait \/ Ready(events[1])
    /\ UNCHANGED <<kernel, streams, state, request, groups>>

\* Request::wait: poll(2) is interrupted, or fails.
Interrupted ==
    LET r == events[1]
    IN  /\ stage = "wait" /\ stage' = "poll"
        /\ \/ UNCHANGED request
           \/ /\ Kind[r] # "Wait"
              /\ completion' = [completion EXCEPT ![r] = Result("Error", 0)]
              /\ op' = [op EXCEPT ![r] = "queued"]
              /\ UNCHANGED <<busy, offset, asked, events>>
        /\ UNCHANGED <<kernel, streams, state, groups>>

Tasks ==
    \/ \E p \in Children : Drop(p) \/ Terminate(p) \/ CloseInput(p)
    \/ \E p \in Children : IF \E r \in Requests : On[r] = p THEN Spawn(p) \/ SpawnFails(p) ELSE GroupSpawn(p)
    \/ \E r \in Requests :
         Create(r) \/ Discard(r) \/ Cancel(r) \/ StartRefused(r) \/ StartDone(r) \/ Start(r)
    \/ GroupWait \/ GroupDrop

Driver == EndTurn \/ Poll \/ Block \/ Woken

Next == Outside \/ Tasks \/ Driver \/ Scan \/ Interrupted \/ ResumeOther \/ \E r \in Requests : Resume(r)

\* drive_root and wait_any loop, and a queued request is reached in the order
\* of the ready list.  Nothing is assumed of the children.
Spec == Init /\ [][Next]_vars
FairSpec ==
    /\ Spec
    /\ WF_vars(Driver) /\ WF_vars(Scan)
    /\ SF_vars(\E r \in Requests : Resume(r))

-----------------------------------------------------------------------------
(* Properties.                                                              *)

TypeOK ==
    /\ holder \in [Pids -> Children \cup {Foreign, Nobody}]
    /\ alive \subseteq Children /\ exit \in [Children -> SUBSET Statuses]
    /\ harmed \subseteq Children \cup {Foreign, Nobody}
    /\ output \in [Children -> 0..Output] /\ input \in [Children -> 0..Room]
    /\ fresh \subseteq Children /\ pid \in [Children -> SUBSET Pids]
    /\ status \in [Children -> SUBSET Statuses]
    /\ closed \subseteq Children /\ handles \subseteq Children /\ busy \subseteq Requests
    /\ op \in [Requests -> {"none", "cold", "parked", "queued", "returned"}]
    /\ offset \in [Requests -> Nat] /\ asked \subseteq Requests
    /\ events \in Seq(Requests) /\ group \in Seq(Children) /\ callers \in Seq(Children)
    /\ told \in [Children -> SUBSET Statuses] /\ scan \in Nat \ {0}
    /\ stage \in {"run", "group", "poll", "dispatch", "wait"}

\* The State of child p exists.
Live(p) ==
    \/ p \in handles \cup ToSet(group)
    \/ \E r \in Requests : On[r] = p /\ op[r] \in {"cold", "parked", "queued"}

\* No process other than the child is ever signalled, though its number is
\* given away as soon as it has been reaped; and no child is forgotten: one
\* that runs or waits to be reaped has a State that will do it.
ChildOwned ==
    /\ harmed = {}
    /\ \A k \in Pids : holder[k] \in Children => Live(holder[k]) /\ pid[holder[k]] = {k}

\* Everyone who asks how a child ended is told the truth, and the same: waits
\* before and after it was reaped, waits that were refused or cancelled in
\* between, and the owner of a group, whose list tells which child an index
\* means.  A wait never fails.
ExitTruthful ==
    /\ \A r \in Requests : Kind[r] = "Wait" /\ completion[r].code \notin {"None", "Busy", "Cancelled"} =>
         completion[r].code = "Done" /\ exit[On[r]] = {completion[r].count}
    /\ \A p \in Children : told[p] \subseteq exit[p] /\ status[p] \subseteq exit[p]

\* A wait for a child that has ended returns, whatever else the thread waits
\* for and however the child and the other requests behave.
ExitObserved == \A r \in Requests :
    (Kind[r] = "Wait" /\ op[r] = "parked" /\ On[r] \notin alive) ~> (op[r] = "returned")
============================================================================
