------------------------------ MODULE Network ------------------------------
(***************************************************************************)
(* std::net: the reads and writes over connections a host adopted          *)
(* (crafts/carven/std/net/native.cpp), and the Network that is the event   *)
(* source of every root the host drives on one driver.                     *)
(*                                                                         *)
(* A direction of a connection belongs to one operation from its start to  *)
(* its resumption.  An operation that the kernel cannot serve is linked    *)
(* into the Network, tried again by every poll, and unlinked with its      *)
(* completion; the poll of one root serves the operations of all of them.  *)
(* Streams are counted in bytes: what a read took and a write sent are     *)
(* positions.  Each operation is awaited by a task of its own.             *)
(***************************************************************************)
EXTENDS Naturals, Sequences, FiniteSets, FiniteSetsExt

CONSTANTS
    Connections,
    Requests,   \* Network::Awaiter objects
    On,         \* the connection each of them uses
    Kind,       \* "read", "write" or "write_all"
    Size,       \* the length of its buffer
    Root,       \* the root its task belongs to
    Programs,   \* which of them a program uses
    Roots,      \* the roots that are given the Network
    Arriving,   \* how many bytes the peer of each connection sends
    Room,       \* how many bytes it can be sent before it reads
    NoRoot

ASSUME RequestsAssumption ==
    /\ On \in [Requests -> Connections]
    /\ Kind \in [Requests -> {"read", "write", "write_all"}]
    /\ Size \in [Requests -> Nat] /\ \A r \in Requests : Kind[r] = "read" => Size[r] # 0
    /\ Root \in [Requests -> Roots] /\ Programs \subseteq SUBSET Requests
ASSUME PeersAssumption == Arriving \in [Connections -> Nat] /\ Room \in Nat
ASSUME RootsAssumption == NoRoot \notin Roots

VARIABLES
    open,       \* the connections whose socket is valid
    reading,    \* Connection::reading
    writing,    \* Connection::writing
    arrived,    \* bytes of the peer the kernel has received so far
    read,       \* of them, those that recv() has taken
    finished,   \* the peers that have shut down their sending side
    shut,       \* the sockets that have shut down theirs
    broken,     \* the sockets every transfer on fails
    room,       \* what send() can take now
    sent,       \* history: the writer of each byte sent
    list,       \* Network::first, newest first
    op,         \* how far each operation has come
    acquired,   \* Awaiter::acquired
    transferred,\* Awaiter::transferred
    completion, \* Awaiter::completion, with its byte count
    taken,      \* history: how many bytes were read before it was committed
    asked,      \* the operations whose task was asked to cancel
    roots,      \* the roots that have not completed
    attachments,\* EventSource::attachments of the Network
    stage,      \* how far the host has come
    active      \* the root it advances

connection == <<open, reading, writing>>
kernel == <<arrived, read, finished, shut, broken, room, sent>>
request == <<op, acquired, transferred, completion, taken>>
host == <<roots, attachments, stage, active>>
vars == <<connection, kernel, list, request, asked, host>>

None == [kind |-> "None", count |-> 0]
Success(n) == [kind |-> "Success", count |-> n]
System == [kind |-> "System", count |-> 0]
NoProgress == [kind |-> "NoProgress", count |-> 0]
Closed == [kind |-> "Closed", count |-> 0]
Conflict == [kind |-> "Conflict", count |-> 0]
Cancelled == [kind |-> "Cancelled", count |-> 0]

Init ==
    /\ open = Connections
    /\ reading = {} /\ writing = {}
    /\ arrived = [c \in Connections |-> 0]
    /\ read = [c \in Connections |-> 0]
    /\ finished = {} /\ shut = {} /\ broken = {}
    /\ room = [c \in Connections |-> Room]
    /\ sent = [c \in Connections |-> <<>>]
    /\ list = <<>>
    /\ \E program \in Programs :
         op = [r \in Requests |-> IF r \in program THEN "cold" ELSE "returned"]
    /\ acquired = {}
    /\ transferred = [r \in Requests |-> 0]
    /\ completion = [r \in Requests |-> None]
    /\ taken = [r \in Requests |-> 0]
    /\ asked = {}
    /\ roots = Roots /\ attachments = Cardinality(Roots) /\ stage = "host" /\ active = NoRoot

-----------------------------------------------------------------------------
(* The peers and the kernel.                                                *)

Arrive(c) ==
    /\ arrived[c] < Arriving[c] /\ c \notin finished
    /\ arrived' = [arrived EXCEPT ![c] = @ + 1]
    /\ UNCHANGED <<connection, read, finished, shut, broken, room, sent, list, request, asked, host>>

PeerFinishes(c) ==
    /\ c \notin finished
    /\ finished' = finished \cup {c}
    /\ UNCHANGED <<connection, arrived, read, shut, broken, room, sent, list, request, asked, host>>

PeerReads(c) ==
    /\ room[c] < Room
    /\ room' = [room EXCEPT ![c] = Room]
    /\ UNCHANGED <<connection, arrived, read, finished, shut, broken, sent, list, request, asked, host>>

PeerResets(c) ==
    /\ c \notin broken
    /\ broken' = broken \cup {c}
    /\ UNCHANGED <<connection, arrived, read, finished, shut, room, sent, list, request, asked, host>>

-----------------------------------------------------------------------------
(* Awaiter::attempt.  A transfer moves as much as it can; EINTR repeats it, *)
(* and a failure after a part of a buffer shows in the next attempt.        *)

Least(m, n) == IF m < n THEN m ELSE n
Unread(c) == arrived[c] - read[c]

\* How many bytes the attempt of request r moves.
Moves(r) ==
    LET c == On[r]
    IN  IF Kind[r] = "read" THEN IF c \in broken THEN 0 ELSE Least(Size[r], Unread(c))
        ELSE IF c \in broken \cup shut THEN 0 ELSE Least(Size[r] - transferred[r], room[c])

\* Its completion, None when it has to wait: a read ends with some bytes or the
\* end of the stream, write() with the first transfer, write_all() with the last.
\* A send() that finds no room is refused, or takes nothing and answers 0 if r is
\* in idle: a result for write(), a failure for write_all().
Attempt(r, idle) ==
    LET c == On[r]
        n == Moves(r)
    IN  IF Size[r] = 0 THEN Success(0)
        ELSE IF c \in broken \/ (Kind[r] # "read" /\ c \in shut) THEN System
        ELSE IF Kind[r] = "read" THEN IF n > 0 \/ c \in finished THEN Success(n) ELSE None
        ELSE IF transferred[r] + n = Size[r] \/ (Kind[r] = "write" /\ (n > 0 \/ r \in idle))
             THEN Success(transferred[r] + n)
        ELSE IF r \in idle THEN NoProgress ELSE None

\* What the attempts of the requests A do to the streams.  No two of them share
\* a direction of a connection.
Transfer(A) ==
    /\ read' = [c \in Connections |->
         read[c] + SumSet({Moves(r) : r \in {q \in A : On[q] = c /\ Kind[q] = "read"}})]
    /\ sent' = [c \in Connections |->
         LET W == {r \in A : On[r] = c /\ Kind[r] # "read"}
         IN  IF W = {} THEN sent[c]
             ELSE LET w == CHOOSE w \in W : TRUE IN sent[c] \o [i \in 1..Moves(w) |-> w]]
    /\ room' = [c \in Connections |-> room[c] + Len(sent[c]) - Len(sent'[c])]
    /\ transferred' = [r \in Requests |->
         IF r \in A /\ Kind[r] = "write_all" THEN transferred[r] + Moves(r) ELSE transferred[r]]
    /\ UNCHANGED <<arrived, finished, shut, broken>>

-----------------------------------------------------------------------------
(* Operations of the host and of the tasks.                                 *)

\* Code of a task of the active root runs, or the host does.
Free(r) == stage = "run" /\ Root[r] = active
HostCode == stage \in {"host", "run"}

\* Connection::close, which also the destructor calls.
Close(c) ==
    /\ HostCode /\ c \in open
    /\ c \notin reading \cup writing
    /\ open' = open \ {c}
    /\ UNCHANGED <<reading, writing, kernel, list, request, asked, host>>

\* Connection::shutdown_send.
ShutdownSend(c) ==
    /\ HostCode /\ c \in open \ shut
    /\ c \notin writing
    /\ shut' = shut \cup {c}
    /\ UNCHANGED <<connection, arrived, read, finished, broken, room, sent, list, request, asked, host>>

\* Connection::reading or Connection::writing.
Direction(r) == IF Kind[r] = "read" THEN reading ELSE writing

\* Mutant: the direction may be in use.
RefusalUnchecked(r) ==
    IF r \in asked THEN Cancelled ELSE IF On[r] \notin open THEN Closed ELSE None

\* Awaiter::suspend of an operation that is refused at once.
Refusal(r) ==
    IF r \in asked THEN Cancelled
    ELSE IF On[r] \notin open THEN Closed
    ELSE IF On[r] \in Direction(r) THEN Conflict
    ELSE None

StartRefused(r) ==
    /\ Free(r) /\ op[r] = "cold" /\ Refusal(r) # None
    /\ op' = [op EXCEPT ![r] = "returned"]
    /\ completion' = [completion EXCEPT ![r] = Refusal(r)]
    /\ UNCHANGED <<connection, kernel, list, acquired, transferred, taken, asked, host>>

\* It completes at the first attempt: await_resume releases the direction.
StartDone(r, idle) ==
    /\ Free(r) /\ op[r] = "cold" /\ Refusal(r) = None /\ Attempt(r, idle) # None
    /\ Transfer({r})
    /\ op' = [op EXCEPT ![r] = "returned"]
    /\ completion' = [completion EXCEPT ![r] = Attempt(r, idle)]
    /\ taken' = IF Kind[r] = "read" THEN [taken EXCEPT ![r] = read[On[r]]] ELSE taken
    /\ UNCHANGED <<connection, list, acquired, asked, host>>

Hold(r) ==
    /\ reading' = IF Kind[r] = "read" THEN reading \cup {On[r]} ELSE reading
    /\ writing' = IF Kind[r] = "read" THEN writing ELSE writing \cup {On[r]}
    /\ acquired' = acquired \cup {r}

\* Otherwise it is linked.
Start(r) ==
    /\ Free(r) /\ op[r] = "cold" /\ Refusal(r) = None /\ Attempt(r, {}) = None
    /\ Transfer({r})
    /\ Hold(r)
    /\ list' = <<r>> \o list
    /\ op' = [op EXCEPT ![r] = "linked"]
    /\ UNCHANGED <<open, completion, taken, asked, host>>

Cancel(r) ==
    /\ HostCode /\ op[r] # "returned" /\ r \notin asked
    /\ asked' = asked \cup {r}
    /\ UNCHANGED <<connection, kernel, list, request, host>>

-----------------------------------------------------------------------------
(* The driver.                                                              *)

\* Mutant: an operation that was committed before is cancelled as well.
PolledCommitted == {r \in Requests : op[r] = "linked" \/ (op[r] = "queued" /\ r \in asked)}

\* The requests Network::poll walks over.
Polled == {r \in Requests : op[r] = "linked"}

\* Network::poll finds request r cancelled, completed by a failed wait, or
\* attempts it.
Answer(r, idle) ==
    IF r \in asked THEN Cancelled
    ELSE IF completion[r] # None THEN completion[r]
    ELSE Attempt(r, idle)

Poll(idle) ==
    LET done == {r \in Polled : Answer(r, idle) # None}
    IN  /\ Transfer({r \in Polled : r \notin asked /\ completion[r] = None})
        /\ list' = SelectSeq(list, LAMBDA r : r \notin done)
        /\ op' = [r \in Requests |-> IF r \in done THEN "queued" ELSE op[r]]
        /\ completion' = [r \in Requests |-> IF r \in done THEN Answer(r, idle) ELSE completion[r]]
        /\ taken' = [r \in Requests |-> IF r \in done /\ Kind[r] = "read" THEN read[On[r]] ELSE taken[r]]
        /\ UNCHANGED <<connection, acquired, asked>>

\* Root::advance of root a polls the sources that are attached.
Advance(a) ==
    /\ stage = "host" /\ a \in roots
    /\ IF attachments # 0 THEN \E idle \in SUBSET {r \in Polled : Kind[r] # "read"} : Poll(idle)
       ELSE UNCHANGED <<connection, kernel, list, request, asked>>
    /\ stage' = "dispatch" /\ active' = a
    /\ UNCHANGED <<roots, attachments>>

Release(r) ==
    /\ reading' = IF Kind[r] = "read" THEN reading \ {On[r]} ELSE reading
    /\ writing' = IF Kind[r] = "read" THEN writing ELSE writing \ {On[r]}
    /\ acquired' = acquired \ {r}

\* Driver::dispatch_one resumes a task of the active root: await_resume.
Resume(r) ==
    /\ stage = "dispatch" /\ Root[r] = active /\ op[r] = "queued"
    /\ op' = [op EXCEPT ![r] = "returned"]
    /\ Release(r)
    /\ stage' = "run"
    /\ UNCHANGED <<open, kernel, list, transferred, completion, taken, asked, roots, attachments, active>>

\* Another node of the root runs.
ResumeOther ==
    /\ stage = "dispatch" /\ stage' = "run"
    /\ UNCHANGED <<connection, kernel, list, request, asked, roots, attachments, active>>

NothingReady ==
    /\ stage = "dispatch"
    /\ \A r \in Requests : Root[r] = active => op[r] # "queued"
    /\ stage' = "host" /\ active' = NoRoot
    /\ UNCHANGED <<connection, kernel, list, request, asked, roots, attachments>>

EndTurn ==
    /\ stage = "run" /\ stage' = "host" /\ active' = NoRoot
    /\ UNCHANGED <<connection, kernel, list, request, asked, roots, attachments>>

\* Mutant: the first root that ends takes the Network with it.
DetachEntirely == attachments' = 0

\* Driver::detach: the source leaves the list with the last root.
Detach == attachments' = attachments - 1

\* A root whose tasks have all returned completes: Root::take_completion.
Complete(a) ==
    /\ stage = "host" /\ a \in roots
    /\ \A r \in Requests : Root[r] = a => op[r] \in {"cold", "returned"}
    /\ roots' = roots \ {a} /\ Detach
    /\ UNCHANGED <<connection, kernel, list, request, asked, stage, active>>

\* Network::wait_ready: poll(2) fails for all the sockets in the list; the next
\* poll delivers it.  Otherwise waiting changes nothing.
WaitFails ==
    /\ stage = "host" /\ list # <<>>
    /\ completion' = [r \in Requests |-> IF op[r] = "linked" THEN System ELSE completion[r]]
    /\ UNCHANGED <<connection, kernel, list, op, acquired, transferred, taken, asked, host>>

Outside == \E c \in Connections :
    Arrive(c) \/ PeerFinishes(c) \/ PeerReads(c) \/ PeerResets(c)

Code ==
    \/ \E c \in Connections : Close(c) \/ ShutdownSend(c)
    \/ \E r \in Requests :
         StartRefused(r) \/ Start(r) \/ Cancel(r) \/ \E idle \in SUBSET {r} : StartDone(r, idle)

Driver ==
    \/ \E a \in Roots : Advance(a) \/ Complete(a)
    \/ \E r \in Requests : Resume(r)
    \/ ResumeOther \/ NothingReady \/ EndTurn \/ WaitFails

Next == Outside \/ Code \/ Driver

Spec == Init /\ [][Next]_vars

\* The host advances every root that has not completed again and again, and
\* every queued task is reached in the order of the ready list (Execution).
FairSpec ==
    /\ Spec
    /\ \A a \in Roots : SF_vars(Advance(a))
    /\ SF_vars(\E r \in Requests : Resume(r))
    /\ WF_vars(ResumeOther \/ NothingReady \/ EndTurn)

-----------------------------------------------------------------------------
(* Properties.                                                              *)

TypeOK ==
    /\ open \subseteq Connections /\ reading \subseteq Connections /\ writing \subseteq Connections
    /\ arrived \in [Connections -> Nat] /\ read \in [Connections -> Nat]
    /\ finished \subseteq Connections /\ shut \subseteq Connections /\ broken \subseteq Connections
    /\ room \in [Connections -> Nat] /\ sent \in [Connections -> Seq(Requests)]
    /\ list \in Seq(Requests)
    /\ op \in [Requests -> {"cold", "linked", "queued", "returned"}]
    /\ acquired \subseteq Requests /\ transferred \in [Requests -> Nat]
    /\ completion \in [Requests -> [kind : {"None", "Success", "System", "NoProgress", "Closed",
                                              "Conflict", "Cancelled"}, count : Nat]]
    /\ taken \in [Requests -> Nat] /\ asked \subseteq Requests
    /\ roots \subseteq Roots /\ attachments \in Nat
    /\ stage \in {"host", "dispatch", "run"} /\ active \in Roots \cup {NoRoot}

\* A direction of a connection belongs to exactly one operation from its start
\* to its resumption, also while its completion is queued, and while it does
\* the socket stays open: no operation reads or writes a descriptor that was
\* closed and may be another file by now, and a close is possible again as
\* soon as the operations have returned.
DirectionHeld ==
    /\ acquired = {r \in Requests : op[r] \in {"linked", "queued"}}
    /\ \A r, q \in acquired :
         On[r] = On[q] /\ (Kind[r] = "read") = (Kind[q] = "read") => r = q
    /\ reading = {On[r] : r \in {q \in acquired : Kind[q] = "read"}}
    /\ writing = {On[r] : r \in {q \in acquired : Kind[q] # "read"}}
    /\ reading \cup writing \subseteq open

Sent(r) == {i \in DOMAIN sent[On[r]] : sent[On[r]][i] = r}

\* Operations report what happened to the streams.  Every byte that was taken
\* from a socket was returned by one successful read, cancelled or not between
\* its commitment and its resumption; the end is reported after all of them.
\* A write reports the bytes it sent, and one that did not succeed has sent
\* nothing; the bytes of a write_all are together and complete if it succeeds.
StreamsExact ==
    /\ \A c \in Connections :
         LET R == {r \in Requests : On[r] = c /\ Kind[r] = "read" /\ completion[r].kind = "Success"}
         IN  \A i \in 1..read[c] : \E r \in R : i - taken[r] \in 1..completion[r].count
    /\ \A r \in Requests : LET result == completion[r] IN
         /\ Kind[r] = "read" /\ result = Success(0) => taken[r] = arrived[On[r]]
         /\ Kind[r] # "read" /\ result.kind = "Success" => Cardinality(Sent(r)) = result.count
         /\ Kind[r] = "write" /\ result.kind # "Success" => Sent(r) = {}
         /\ Kind[r] = "write_all" /\ result.kind = "Success" => result.count = Size[r]
         /\ \A i, j \in Sent(r) : i..j \subseteq Sent(r)

\* A parked operation that was asked to cancel, or that its socket can serve -
\* with bytes or the end of the stream for a read, with room for a write() or for
\* the rest of a write_all(), with a failure for either - is resumed, whichever
\* root it belongs to and whatever other roots have ended.
Servable(r) ==
    \/ r \in asked \/ On[r] \in broken
    \/ Kind[r] = "read" /\ (Unread(On[r]) > 0 \/ On[r] \in finished)
    \/ Kind[r] = "write" /\ room[On[r]] > 0
    \/ Kind[r] = "write_all" /\ room[On[r]] >= Size[r] - transferred[r]
Served == \A r \in Requests : (op[r] = "linked" /\ Servable(r)) ~> (op[r] = "returned")
============================================================================
