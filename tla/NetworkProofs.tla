--------------------------- MODULE NetworkProofs ---------------------------
(***************************************************************************)
(* DirectionHeld and StreamsExact for every set of connections, operations *)
(* and roots.  The first is inductive once op is known to be a function:   *)
(* the refusals of suspend() keep a direction to one operation, and a poll *)
(* only moves operations between the two states that hold one.  The second *)
(* rests on it: the attempts of one poll never meet in a direction.        *)
(***************************************************************************)
EXTENDS Network, FiniteSetTheorems, TLAPS

Held ==
    /\ op \in [Requests -> {"cold", "linked", "queued", "returned"}]
    /\ DirectionHeld

\* No operation holds a direction at first.
LEMMA InitHeld == Init => Held
<1> SUFFICES ASSUME Init PROVE Held OBVIOUS
<1>1. op \in [Requests -> {"cold", "returned"}]
    BY DEF Init
<1>2. {r \in Requests : op[r] \in {"linked", "queued"}} = {}
    BY <1>1
<1> QED BY <1>1, <1>2 DEF Init, Held, DirectionHeld

\* The steps that neither start nor resume an operation and close nothing.
LEMMA StaysHeld ==
    ASSUME Held, UNCHANGED <<open, reading, writing, acquired>>,
           op' \in [Requests -> {"cold", "linked", "queued", "returned"}],
           \A r \in Requests : op'[r] \in {"linked", "queued"} <=> op[r] \in {"linked", "queued"}
    PROVE  Held'
BY DEF Held, DirectionHeld

\* A linked operation takes the direction nobody holds.
LEMMA StartHeld == ASSUME Held, NEW r \in Requests, Start(r) PROVE Held'
<1>1. /\ op[r] = "cold" /\ op' = [op EXCEPT ![r] = "linked"]
      /\ On[r] \in open /\ On[r] \notin Direction(r)
      /\ Hold(r) /\ open' = open
    BY DEF Start, Refusal, None, Cancelled, Closed, Conflict
<1>2. acquired' = acquired \cup {r} /\ r \notin acquired
    BY <1>1 DEF Hold, Held, DirectionHeld
<1>3. \A q \in acquired : On[q] = On[r] => (Kind[q] = "read") # (Kind[r] = "read")
    BY <1>1 DEF Direction, Held, DirectionHeld
<1>4. acquired' = {q \in Requests : op'[q] \in {"linked", "queued"}}
    BY <1>1, <1>2 DEF Held, DirectionHeld
<1>5. \A q, s \in acquired' : On[q] = On[s] /\ (Kind[q] = "read") = (Kind[s] = "read") => q = s
    BY <1>2, <1>3 DEF Held, DirectionHeld
<1>6. reading' = {On[q] : q \in {s \in acquired' : Kind[s] = "read"}}
    BY <1>1, <1>2 DEF Hold, Held, DirectionHeld
<1>7. writing' = {On[q] : q \in {s \in acquired' : Kind[s] # "read"}}
    BY <1>1, <1>2 DEF Hold, Held, DirectionHeld
<1>8. reading' \cup writing' \subseteq open'
    BY <1>1 DEF Hold, Held, DirectionHeld
<1> QED BY <1>1, <1>4, <1>5, <1>6, <1>7, <1>8 DEF Held, DirectionHeld

\* await_resume gives back the one direction its operation holds.
LEMMA ResumeHeld == ASSUME Held, NEW r \in Requests, Resume(r) PROVE Held'
<1>1. op[r] = "queued" /\ op' = [op EXCEPT ![r] = "returned"] /\ Release(r) /\ open' = open
    BY DEF Resume
<1>2. acquired' = acquired \ {r} /\ r \in acquired
    BY <1>1 DEF Release, Held, DirectionHeld
<1>3. \A q \in acquired' : On[q] = On[r] => (Kind[q] = "read") # (Kind[r] = "read")
    BY <1>2 DEF Held, DirectionHeld
<1>4. acquired' = {q \in Requests : op'[q] \in {"linked", "queued"}}
    BY <1>1, <1>2 DEF Held, DirectionHeld
<1>5. reading' = {On[q] : q \in {s \in acquired' : Kind[s] = "read"}}
    BY <1>1, <1>2, <1>3 DEF Release, Held, DirectionHeld
<1>6. writing' = {On[q] : q \in {s \in acquired' : Kind[s] # "read"}}
    BY <1>1, <1>2, <1>3 DEF Release, Held, DirectionHeld
<1>7. reading' \cup writing' \subseteq open'
    BY <1>1 DEF Release, Held, DirectionHeld
<1> QED BY <1>1, <1>2, <1>4, <1>5, <1>6, <1>7 DEF Held, DirectionHeld

\* Only a connection no operation uses is closed.
LEMMA CloseHeld == ASSUME Held, NEW c \in Connections, Close(c) PROVE Held'
<1>1. c \notin reading \cup writing /\ open' = open \ {c} /\ UNCHANGED <<reading, writing, op, acquired>>
    BY DEF Close, request
<1> QED BY <1>1 DEF Held, DirectionHeld

\* A poll moves operations between the two states that hold a direction.
LEMMA PollHeld == ASSUME Held, NEW idle, Poll(idle) PROVE Held'
<1> DEFINE done == {r \in Polled : Answer(r, idle) # None}
<1>1. op' = [r \in Requests |-> IF r \in done THEN "queued" ELSE op[r]]
      /\ UNCHANGED <<open, reading, writing, acquired>>
    BY DEF Poll, connection
<1>2. \A r \in done : op[r] = "linked"
    BY DEF Polled
<1> HIDE DEF done
<1>3. op' \in [Requests -> {"cold", "linked", "queued", "returned"}]
    BY <1>1 DEF Held
<1>4. \A r \in Requests : op'[r] \in {"linked", "queued"} <=> op[r] \in {"linked", "queued"}
    BY <1>1, <1>2
<1> QED BY <1>1, <1>3, <1>4, StaysHeld

\* An operation that returns at once never held its direction.
LEMMA ReturnsHeld ==
    ASSUME Held, NEW r \in Requests, StartRefused(r) \/ \E idle : StartDone(r, idle)
    PROVE  Held'
<1>1. op[r] = "cold" /\ op' = [op EXCEPT ![r] = "returned"]
      /\ UNCHANGED <<open, reading, writing, acquired>>
    BY DEF StartRefused, StartDone, connection
<1>2. op' \in [Requests -> {"cold", "linked", "queued", "returned"}]
    BY <1>1 DEF Held
<1>3. \A q \in Requests : op'[q] \in {"linked", "queued"} <=> op[q] \in {"linked", "queued"}
    BY <1>1 DEF Held
<1> QED BY <1>1, <1>2, <1>3, StaysHeld

\* Every step keeps the directions held.
LEMMA NextHeld == Held /\ [Next]_vars => Held'
<1> SUFFICES ASSUME Held, [Next]_vars PROVE Held' OBVIOUS
<1>0. ASSUME UNCHANGED <<open, reading, writing, acquired, op>> PROVE Held'
    BY <1>0 DEF Held, DirectionHeld
<1>1. CASE UNCHANGED vars
    BY <1>0, <1>1 DEF vars, connection, request
<1>2. CASE Outside
    BY <1>0, <1>2 DEF Outside, Arrive, PeerFinishes, PeerReads, PeerResets, connection, request
<1>3. CASE \E c \in Connections : Close(c) \/ ShutdownSend(c)
    <2>1. ASSUME NEW c \in Connections, ShutdownSend(c) PROVE Held'
        BY <1>0, <2>1 DEF ShutdownSend, connection, request
    <2> QED BY <1>3, <2>1, CloseHeld
<1>4. CASE \E r \in Requests :
              StartRefused(r) \/ Start(r) \/ Cancel(r) \/ \E idle \in SUBSET {r} : StartDone(r, idle)
    <2>1. ASSUME NEW r \in Requests, Cancel(r) PROVE Held'
        BY <1>0, <2>1 DEF Cancel, connection, request
    <2> QED BY <1>4, <2>1, ReturnsHeld, StartHeld
<1>5. CASE \E a \in Roots : Advance(a) \/ Complete(a)
    <2>1. ASSUME NEW a \in Roots, Advance(a) PROVE Held'
        <3>1. CASE \E idle : Poll(idle)
            BY <3>1, PollHeld
        <3>2. CASE UNCHANGED <<connection, kernel, list, request, asked>>
            BY <1>0, <3>2 DEF connection, request
        <3> QED BY <2>1, <3>1, <3>2 DEF Advance
    <2>2. ASSUME NEW a \in Roots, Complete(a) PROVE Held'
        BY <1>0, <2>2 DEF Complete, connection, request
    <2> QED BY <1>5, <2>1, <2>2
<1>6. CASE \E r \in Requests : Resume(r)
    BY <1>6, ResumeHeld
<1>7. CASE ResumeOther \/ NothingReady \/ EndTurn
    BY <1>0, <1>7 DEF ResumeOther, NothingReady, EndTurn, connection, request
<1>8. CASE WaitFails
    BY <1>0, <1>8 DEF WaitFails, connection
<1> QED BY <1>1, <1>2, <1>3, <1>4, <1>5, <1>6, <1>7, <1>8 DEF Next, Code, Driver

\* For any connections, operations and roots: a direction of a connection belongs to one
\* operation from its start to its resumption, and its socket stays open that long.
THEOREM DirectionsHeld == Spec => []DirectionHeld
<1>1. Spec => []Held
    BY InitHeld, NextHeld, PTL DEF Spec
<1>2. Held => DirectionHeld
    BY DEF Held
<1> QED BY <1>1, <1>2, PTL

-----------------------------------------------------------------------------
(* StreamsExact.  Beside what the property says of a completion, the        *)
(* invariant follows an operation up to it: what a cold or linked write has *)
(* sent is what it counted, and it ends the stream of its connection, which *)
(* nobody else may append to while it holds the direction.                  *)

\* A sum over one number, for the operation that has a direction, and over none.
LEMMA SumNone == SumSet({}) = 0
<1> DEFINE x(s) == CHOOSE y \in s : TRUE
<1> DEFINE Adds(f) == f = [s \in SUBSET {} |-> IF s = {} THEN 0 ELSE x(s) + f[s \ {x(s)}]]
<1>1. \A f : Adds(f) => f[{}] = 0
    OBVIOUS
<1>2. Adds([s \in SUBSET {} |-> 0])
    OBVIOUS
<1>3. \E f : Adds(f)
    BY <1>2
<1> QED BY <1>1, <1>3, Zenon DEF SumSet, FoldSet, MapThenFoldSet

\* A sum over one number is that number.
LEMMA SumOne == ASSUME NEW n \in Nat PROVE SumSet({n}) = n
<1> DEFINE x(s) == CHOOSE y \in s : TRUE
<1> DEFINE Adds(f) == f = [s \in SUBSET {n} |-> IF s = {} THEN 0 ELSE x(s) + f[s \ {x(s)}]]
<1> DEFINE it == [s \in SUBSET {n} |-> IF s = {} THEN 0 ELSE n]
<1>1. \A s \in SUBSET {n} : s # {} => x(s) = n /\ s \ {x(s)} = {}
    OBVIOUS
<1>2. Adds(it)
    <2>1. it[{}] = 0 OBVIOUS
    <2>2. \A s \in SUBSET {n} : s # {} => it[s] = n OBVIOUS
    <2>3. it = [s \in SUBSET {n} |-> it[s]] OBVIOUS
    <2> HIDE DEF it, x
    <2>4. \A s \in SUBSET {n} : s # {} => it[s] = x(s) + it[s \ {x(s)}]
        BY <1>1, <2>1, <2>2
    <2> QED BY <2>1, <2>3, <2>4
<1>3. ASSUME NEW f, Adds(f) PROVE f[{n}] = n
    <2> HIDE DEF x
    <2>1. f[{}] = 0
        BY <1>3
    <2>2. f[{n}] = x({n}) + f[{n} \ {x({n})}]
        BY <1>3
    <2>3. x({n}) = n /\ {n} \ {x({n})} = {}
        BY <1>1
    <2> HIDE DEF Adds
    <2> QED BY <2>1, <2>2, <2>3
<1> HIDE DEF it
<1>4. \E f : Adds(f)
    BY <1>2
<1> QED BY <1>3, <1>4, Zenon DEF SumSet, FoldSet, MapThenFoldSet

Results == [kind : {"None", "Success", "System", "NoProgress", "Closed", "Conflict", "Cancelled"},
            count : Nat]

Counted ==
    /\ arrived \in [Connections -> Nat] /\ read \in [Connections -> Nat]
    /\ room \in [Connections -> Nat] /\ sent \in [Connections -> Seq(Requests)]
    /\ transferred \in [Requests -> Nat] /\ taken \in [Requests -> Nat]
    /\ completion \in [Requests -> Results]
    /\ \A c \in Connections : read[c] <= arrived[c]
    /\ \A r \in Requests : transferred[r] <= Size[r]

\* Every byte that left a socket is in the result of a read.
Returned ==
    \A c \in Connections : \A i \in 1..read[c] : \E r \in Requests :
        /\ On[r] = c /\ Kind[r] = "read" /\ completion[r].kind = "Success"
        /\ i - taken[r] \in 1..completion[r].count

Followed ==
    \A r \in Requests :
        /\ op[r] \in {"cold", "linked"} => completion[r].kind # "Success"
        /\ Kind[r] = "read" => Sent(r) = {}
        /\ Kind[r] = "read" /\ completion[r] = Success(0)
             => On[r] \in finished /\ taken[r] = arrived[On[r]]

\* The writes, before and after their completion.
Appended ==
    \A r \in Requests : Kind[r] # "read" =>
        /\ op[r] = "cold" => Sent(r) = {}
        /\ op[r] \in {"cold", "linked"} => Cardinality(Sent(r)) = transferred[r]
        /\ op[r] = "linked" => \A i \in Sent(r) : \A j \in i..Len(sent[On[r]]) : j \in Sent(r)
        /\ Kind[r] = "write" => transferred[r] = 0
        /\ completion[r].kind = "Success" => Cardinality(Sent(r)) = completion[r].count
        /\ Kind[r] = "write" /\ completion[r].kind # "Success" => Sent(r) = {}
        /\ Kind[r] = "write_all" /\ completion[r].kind = "Success" => completion[r].count = Size[r]
        /\ \A i, j \in Sent(r) : i..j \subseteq Sent(r)

Exact == Counted /\ Returned /\ Followed /\ Appended

\* The completions are told apart by their kinds.
LEMMA ResultKinds ==
    /\ None \in Results /\ System \in Results /\ NoProgress \in Results /\ Closed \in Results
    /\ Conflict \in Results /\ Cancelled \in Results
    /\ None.kind # "Success" /\ System.kind # "Success" /\ Closed.kind # "Success"
    /\ NoProgress.kind # "Success" /\ NoProgress # None
    /\ Conflict.kind # "Success" /\ Cancelled.kind # "Success" /\ System # None
    /\ \A n \in Nat : Success(n) \in Results /\ Success(n).kind = "Success" /\ Success(n).count = n
BY DEF Results, None, System, NoProgress, Closed, Conflict, Cancelled, Success

\* A request has sent finitely many bytes.
LEMMA SentFinite == ASSUME Counted, NEW r \in Requests PROVE IsFiniteSet(Sent(r))
<1>1. sent[On[r]] \in Seq(Requests)
    BY RequestsAssumption DEF Counted
<1>2. DOMAIN sent[On[r]] = 1..Len(sent[On[r]]) /\ Len(sent[On[r]]) \in Nat
    BY <1>1
<1>3. IsFiniteSet(1..Len(sent[On[r]]))
    BY <1>2, FS_Interval
<1> QED BY <1>2, <1>3, FS_Subset DEF Sent

\* Nothing is read, sent or completed at first.
LEMMA InitExact == Init => Exact
<1> SUFFICES ASSUME Init PROVE Exact OBVIOUS
<1>1. Counted
    BY PeersAssumption, RequestsAssumption, ResultKinds DEF Init, Counted
<1>2. \A r \in Requests : Sent(r) = {} /\ completion[r] = None /\ transferred[r] = 0
    BY RequestsAssumption DEF Init, Sent
<1>3. \A c \in Connections : read[c] = 0
    BY DEF Init
<1>4. Returned
    BY <1>3 DEF Returned
<1>5. Followed
    BY <1>2, ResultKinds DEF Followed
<1>6. Appended
    BY <1>2, ResultKinds, FS_EmptySet DEF Appended
<1> QED BY <1>1, <1>4, <1>5, <1>6 DEF Exact

\* The steps that move no bytes.
LEMMA QuietExact ==
    ASSUME Exact, UNCHANGED <<read, sent, transferred, taken>>,
           arrived' \in [Connections -> Nat], room' \in [Connections -> Nat],
           \A c \in Connections : read[c] <= arrived'[c] /\ (c \in finished => arrived'[c] = arrived[c]),
           finished \subseteq finished',
           completion' \in [Requests -> Results],
           \A r \in Requests :
              /\ op'[r] \in {op[r], "queued", "returned"}
              /\ \/ completion'[r] = completion[r]
                 \/ completion[r].kind # "Success" /\ completion'[r].kind # "Success"
    PROVE  Exact'
<1>1. Counted'
    BY DEF Exact, Counted
<1>2. \A r \in Requests :
         \/ completion'[r] = completion[r]
         \/ completion[r].kind # "Success" /\ completion'[r].kind # "Success"
    OBVIOUS
<1>3. Returned'
    <2> SUFFICES ASSUME NEW c \in Connections, NEW i \in 1..read[c]
                 PROVE  \E r \in Requests :
                            /\ On[r] = c /\ Kind[r] = "read" /\ completion'[r].kind = "Success"
                            /\ i - taken[r] \in 1..completion'[r].count
        BY DEF Returned
    <2>1. PICK r \in Requests :
              /\ On[r] = c /\ Kind[r] = "read" /\ completion[r].kind = "Success"
              /\ i - taken[r] \in 1..completion[r].count
        BY DEF Exact, Returned
    <2>2. completion'[r] = completion[r]
        BY <1>2, <2>1
    <2> QED BY <2>1, <2>2
<1>5. \A r \in Requests : Sent(r)' = Sent(r)
    BY DEF Sent
<1>4. Followed'
    <2> SUFFICES ASSUME NEW r \in Requests
                 PROVE  /\ op'[r] \in {"cold", "linked"} => completion'[r].kind # "Success"
                        /\ Kind[r] = "read" => Sent(r)' = {}
                        /\ Kind[r] = "read" /\ completion'[r] = Success(0)
                             => On[r] \in finished' /\ taken[r] = arrived'[On[r]]
        BY DEF Followed, Success
    <2>1. op'[r] \in {"cold", "linked"} => op[r] \in {"cold", "linked"}
        OBVIOUS
    <2>2. completion'[r] = Success(0) => completion[r] = Success(0)
        BY <1>2, ResultKinds
    <2> QED BY <1>2, <1>5, <2>1, <2>2, RequestsAssumption DEF Exact, Followed
<1>6. Appended'
    BY <1>2, <1>5 DEF Exact, Appended
<1> QED BY <1>1, <1>3, <1>4, <1>6 DEF Exact

\* An attempt moves no more than what has arrived, and no more than the rest
\* of its buffer and the room of the socket.
LEMMA MovesBound ==
    ASSUME Counted, NEW r \in Requests
    PROVE  /\ Moves(r) \in Nat
           /\ Kind[r] = "read" => read[On[r]] + Moves(r) <= arrived[On[r]]
           /\ Kind[r] # "read" => /\ transferred[r] + Moves(r) <= Size[r]
                                  /\ Moves(r) <= room[On[r]]
<1>1. /\ On[r] \in Connections /\ Size[r] \in Nat
      /\ read[On[r]] \in Nat /\ arrived[On[r]] \in Nat /\ read[On[r]] <= arrived[On[r]]
      /\ room[On[r]] \in Nat /\ transferred[r] \in Nat /\ transferred[r] <= Size[r]
    BY RequestsAssumption DEF Counted
<1> QED BY <1>1 DEF Moves, Least, Unread

\* What the attempts of requests in different directions do.
Alone(A) == \A r, q \in A : On[r] = On[q] /\ (Kind[r] = "read") = (Kind[q] = "read") => r = q

\* The bytes read from a connection grow by what its one reader moves.
LEMMA TransferReads ==
    ASSUME Counted, NEW A \in SUBSET Requests, Alone(A), Transfer(A), NEW c \in Connections
    PROVE  /\ (\A r \in A : On[r] = c => Kind[r] # "read") => read'[c] = read[c]
           /\ \A r \in A : On[r] = c /\ Kind[r] = "read" => read'[c] = read[c] + Moves(r)
<1> DEFINE R == {q \in A : On[q] = c /\ Kind[q] = "read"}
           N == {Moves(r) : r \in R}
<1>1. read'[c] = read[c] + SumSet(N) /\ read[c] \in Nat
    BY DEF Transfer, Counted
<1>2. ASSUME \A r \in A : On[r] = c => Kind[r] # "read" PROVE read'[c] = read[c]
    <2>1. N = {}
        BY <1>2
    <2> HIDE DEF N
    <2>2. SumSet(N) = 0
        BY <2>1, SumNone
    <2> QED BY <1>1, <2>2
<1>3. ASSUME NEW r \in A, On[r] = c, Kind[r] = "read" PROVE read'[c] = read[c] + Moves(r)
    <2>1. R = {r}
        BY <1>3 DEF Alone
    <2>2. N = {Moves(r)}
        BY <2>1
    <2> HIDE DEF N
    <2>3. SumSet(N) = Moves(r)
        BY <2>2, MovesBound, SumOne
    <2> QED BY <1>1, <2>3
<1> QED BY <1>2, <1>3

\* What a concatenation holds.
LEMMA Joined ==
    ASSUME NEW S, NEW s \in Seq(S), NEW t \in Seq(S)
    PROVE  /\ s \o t \in Seq(S) /\ Len(s \o t) = Len(s) + Len(t)
           /\ \A i \in 1..Len(s \o t) : (s \o t)[i] = IF i <= Len(s) THEN s[i] ELSE t[i - Len(s)]
OBVIOUS

\* The bytes sent over a connection are followed by those of its one writer.
LEMMA TransferWrites ==
    ASSUME Counted, NEW A \in SUBSET Requests, Alone(A), Transfer(A), NEW c \in Connections
    PROVE  /\ (\A r \in A : On[r] = c => Kind[r] = "read") => sent'[c] = sent[c]
           /\ \A r \in A : On[r] = c /\ Kind[r] # "read" =>
                /\ sent'[c] \in Seq(Requests)
                /\ Len(sent'[c]) = Len(sent[c]) + Moves(r)
                /\ \A i \in 1..Len(sent'[c]) : sent'[c][i] = IF i <= Len(sent[c]) THEN sent[c][i] ELSE r
<1> DEFINE W == {r \in A : On[r] = c /\ Kind[r] # "read"}
<1>1. sent'[c] = IF W = {} THEN sent[c]
                 ELSE LET w == CHOOSE w \in W : TRUE IN sent[c] \o [i \in 1..Moves(w) |-> w]
    BY DEF Transfer
<1>2. ASSUME \A r \in A : On[r] = c => Kind[r] = "read" PROVE sent'[c] = sent[c]
    BY <1>1, <1>2
<1>3. ASSUME NEW r \in A, On[r] = c, Kind[r] # "read"
      PROVE  /\ sent'[c] \in Seq(Requests)
             /\ Len(sent'[c]) = Len(sent[c]) + Moves(r)
             /\ \A i \in 1..Len(sent'[c]) : sent'[c][i] = IF i <= Len(sent[c]) THEN sent[c][i] ELSE r
    <2>1. W = {r}
        BY <1>3 DEF Alone
    <2>2. (CHOOSE w \in W : TRUE) = r
        BY <2>1
    <2>3. sent'[c] = sent[c] \o [i \in 1..Moves(r) |-> r]
        BY <1>1, <2>1, <2>2
    <2>4. Moves(r) \in Nat
        BY MovesBound
    <2>5. sent[c] \in Seq(Requests)
        BY DEF Counted
    <2> DEFINE t == [i \in 1..Moves(r) |-> r]
    <2>6. t \in Seq(Requests) /\ Len(t) = Moves(r) /\ \A i \in 1..Moves(r) : t[i] = r
        BY <2>4
    <2>7. sent'[c] = sent[c] \o t
        BY <2>3
    <2> HIDE DEF t
    <2>10. /\ sent[c] \o t \in Seq(Requests) /\ Len(sent[c] \o t) = Len(sent[c]) + Len(t)
           /\ \A i \in 1..Len(sent[c] \o t) :
                (sent[c] \o t)[i] = IF i <= Len(sent[c]) THEN sent[c][i] ELSE t[i - Len(sent[c])]
        BY <2>5, <2>6, Joined
    <2>8. /\ sent'[c] \in Seq(Requests) /\ Len(sent'[c]) = Len(sent[c]) + Len(t)
          /\ \A i \in 1..Len(sent'[c]) :
               sent'[c][i] = IF i <= Len(sent[c]) THEN sent[c][i] ELSE t[i - Len(sent[c])]
        BY <2>7, <2>10
    <2>9. ASSUME NEW i \in 1..Len(sent'[c])
          PROVE  sent'[c][i] = IF i <= Len(sent[c]) THEN sent[c][i] ELSE r
        <3>1. Len(sent[c]) \in Nat
            BY <2>5
        <3>2. i > Len(sent[c]) => i - Len(sent[c]) \in 1..Moves(r)
            BY <3>1, <2>4, <2>6, <2>8
        <3>3. i > Len(sent[c]) => t[i - Len(sent[c])] = r
            BY <3>2, <2>6
        <3> QED BY <2>8, <3>1, <3>3
    <2> QED BY <2>6, <2>8, <2>9
<1> QED BY <1>2, <1>3

\* A transfer keeps the counts within the streams and the buffers.
LEMMA TransferCounted ==
    ASSUME Counted, NEW A \in SUBSET Requests, Alone(A), Transfer(A),
           taken' \in [Requests -> Nat], completion' \in [Requests -> Results]
    PROVE  Counted'
<1>1. arrived' = arrived /\ \A r \in Requests : transferred[r] \in Nat /\ transferred[r] <= Size[r]
    BY DEF Transfer, Counted
<1>2. ASSUME NEW c \in Connections
      PROVE  /\ read'[c] \in Nat /\ read'[c] <= arrived[c]
             /\ sent'[c] \in Seq(Requests) /\ room'[c] \in Nat
    <2>1. read[c] \in Nat /\ arrived[c] \in Nat /\ read[c] <= arrived[c]
          /\ room[c] \in Nat /\ sent[c] \in Seq(Requests) /\ Len(sent[c]) \in Nat
        BY DEF Counted
    <2>2. read'[c] \in Nat /\ read'[c] <= arrived[c]
        <3>1. CASE \A r \in A : On[r] = c => Kind[r] # "read"
            BY <3>1, <2>1, TransferReads
        <3>2. CASE \E r \in A : On[r] = c /\ Kind[r] = "read"
            <4> PICK r \in A : On[r] = c /\ Kind[r] = "read"
                BY <3>2
            <4>1. read'[c] = read[c] + Moves(r)
                BY TransferReads
            <4>2. Moves(r) \in Nat /\ read[c] + Moves(r) <= arrived[c]
                BY MovesBound
            <4> QED BY <2>1, <4>1, <4>2
        <3> QED BY <3>1, <3>2
    <2>3. room'[c] = room[c] + Len(sent[c]) - Len(sent'[c])
        BY DEF Transfer
    <2>4. sent'[c] \in Seq(Requests) /\ room'[c] \in Nat
        <3>1. CASE \A r \in A : On[r] = c => Kind[r] = "read"
            <4>1. sent'[c] = sent[c]
                BY <3>1, TransferWrites
            <4> QED BY <2>1, <2>3, <4>1
        <3>2. CASE \E r \in A : On[r] = c /\ Kind[r] # "read"
            <4> PICK r \in A : On[r] = c /\ Kind[r] # "read"
                BY <3>2
            <4>1. sent'[c] \in Seq(Requests) /\ Len(sent'[c]) = Len(sent[c]) + Moves(r)
                BY TransferWrites
            <4>2. Moves(r) \in Nat /\ Moves(r) <= room[c]
                BY MovesBound
            <4> QED BY <2>1, <2>3, <4>1, <4>2
        <3> QED BY <3>1, <3>2
    <2> QED BY <2>2, <2>4
<1>3. read' \in [Connections -> Nat] /\ sent' \in [Connections -> Seq(Requests)]
      /\ room' \in [Connections -> Nat]
    <2>1. read' = [c \in Connections |-> read'[c]]
        BY DEF Transfer
    <2>2. sent' = [c \in Connections |-> sent'[c]]
        BY DEF Transfer
    <2> DEFINE left(c) == room[c] + Len(sent[c]) - Len(sent'[c])
    <2>4. room' = [c \in Connections |-> left(c)]
        BY DEF Transfer
    <2> HIDE DEF left
    <2>3. room' = [c \in Connections |-> room'[c]]
        BY <2>4
    <2> QED BY <1>2, <2>1, <2>2, <2>3
<1>4. ASSUME NEW r \in Requests PROVE transferred'[r] \in Nat /\ transferred'[r] <= Size[r]
    <2>1. transferred'[r] = IF r \in A /\ Kind[r] = "write_all"
                            THEN transferred[r] + Moves(r) ELSE transferred[r]
        BY DEF Transfer
    <2> QED BY <1>1, <2>1, MovesBound
<1>5. transferred' \in [Requests -> Nat]
    <2>1. transferred' = [r \in Requests |-> transferred'[r]]
        BY DEF Transfer
    <2> QED BY <1>4, <2>1
<1> QED BY <1>1, <1>2, <1>3, <1>4, <1>5 DEF Counted

\* A request's own bytes grow by what it moves, at the end of the stream, and
\* no other's do.
LEMMA TransferSent ==
    ASSUME Counted, NEW A \in SUBSET Requests, Alone(A), Transfer(A),
           NEW r \in Requests
    PROVE  LET L == Len(sent[On[r]]) IN
           /\ r \in A /\ Kind[r] # "read" =>
                         /\ Sent(r)' = Sent(r) \cup (L + 1 .. L + Moves(r))
                         /\ Len(sent[On[r]])' = L + Moves(r)
           /\ r \notin A \/ Kind[r] = "read" => Sent(r)' = Sent(r)
<1> DEFINE c == On[r]
           L == Len(sent[c])
<1>1. c \in Connections /\ sent[c] \in Seq(Requests) /\ L \in Nat /\ DOMAIN sent[c] = 1..L
    BY RequestsAssumption DEF Counted
<1>2. Sent(r) = {i \in 1..L : sent[c][i] = r} /\ Sent(r)' = {i \in DOMAIN sent'[c] : sent'[c][i] = r}
    BY <1>1 DEF Sent
<1>3. ASSUME NEW q \in A, On[q] = c, Kind[q] # "read"
      PROVE  /\ Len(sent'[c]) = L + Moves(q) /\ Moves(q) \in Nat
             /\ Sent(r)' = {i \in 1..L + Moves(q) : (IF i <= L THEN sent[c][i] ELSE q) = r}
    <2>1. /\ sent'[c] \in Seq(Requests) /\ Len(sent'[c]) = L + Moves(q)
          /\ \A i \in 1..Len(sent'[c]) : sent'[c][i] = IF i <= L THEN sent[c][i] ELSE q
        BY <1>1, <1>3, TransferWrites
    <2>2. DOMAIN sent'[c] = 1..L + Moves(q)
        BY <2>1
    <2> QED BY <1>2, <1>3, <2>1, <2>2, MovesBound
<1>4. ASSUME r \in A, Kind[r] # "read"
      PROVE  Sent(r)' = Sent(r) \cup (L + 1 .. L + Moves(r)) /\ Len(sent'[c]) = L + Moves(r)
    <2>1. /\ Len(sent'[c]) = L + Moves(r) /\ Moves(r) \in Nat
          /\ Sent(r)' = {i \in 1..L + Moves(r) : (IF i <= L THEN sent[c][i] ELSE r) = r}
        BY <1>3, <1>4
    <2> HIDE DEF L
    <2> QED BY <1>1, <1>2, <2>1
<1>5. ASSUME r \notin A \/ Kind[r] = "read" PROVE Sent(r)' = Sent(r)
    <2>1. CASE \A q \in A : On[q] = c => Kind[q] = "read"
        BY <1>1, <1>2, <2>1, TransferWrites
    <2>2. CASE \E q \in A : On[q] = c /\ Kind[q] # "read"
        <3> PICK q \in A : On[q] = c /\ Kind[q] # "read"
            BY <2>2
        <3>1. /\ Moves(q) \in Nat /\ q # r
              /\ Sent(r)' = {i \in 1..L + Moves(q) : (IF i <= L THEN sent[c][i] ELSE q) = r}
            BY <1>3, <1>5
        <3> HIDE DEF L
        <3> QED BY <1>1, <1>2, <3>1
    <2> QED BY <2>1, <2>2
<1> QED BY <1>4, <1>5

\* A read that waits or fails takes nothing; one that ends with nothing has
\* seen the end of the stream and everything before it.
LEMMA AttemptRead ==
    ASSUME Counted, NEW r \in Requests, NEW idle, Kind[r] = "read"
    PROVE  \/ Attempt(r, idle) \in {None, System} /\ Moves(r) = 0
           \/ /\ Attempt(r, idle) = Success(Moves(r))
              /\ Moves(r) = 0 => On[r] \in finished /\ read[On[r]] = arrived[On[r]]
<1>1. /\ On[r] \in Connections /\ Size[r] \in Nat /\ Size[r] # 0
      /\ read[On[r]] \in Nat /\ arrived[On[r]] \in Nat /\ read[On[r]] <= arrived[On[r]]
    BY RequestsAssumption DEF Counted
<1>2. CASE On[r] \in broken
    BY <1>1, <1>2 DEF Attempt, Moves
<1>3. CASE On[r] \notin broken
    <2>1. Moves(r) = Least(Size[r], Unread(On[r])) /\ Unread(On[r]) \in Nat
        BY <1>1, <1>3 DEF Moves, Unread
    <2>2. Attempt(r, idle) = IF Moves(r) > 0 \/ On[r] \in finished THEN Success(Moves(r)) ELSE None
        BY <1>1, <1>3 DEF Attempt
    <2>3. Moves(r) = 0 => Unread(On[r]) = 0
        BY <1>1, <2>1 DEF Least
    <2>4. Moves(r) \in Nat
        BY MovesBound
    <2> QED BY <1>1, <2>2, <2>3, <2>4 DEF Unread
<1> QED BY <1>2, <1>3

\* A write that fails sends nothing in that attempt, write() waits only if it
\* sent nothing, and a write_all ends with its whole buffer.
LEMMA AttemptWrite ==
    ASSUME Counted, NEW r \in Requests, NEW idle, Kind[r] # "read"
    PROVE  \/ Attempt(r, idle) = System /\ Moves(r) = 0
           \/ Attempt(r, idle) = NoProgress /\ Kind[r] = "write_all"
           \/ Attempt(r, idle) = None /\ (Kind[r] = "write" => Moves(r) = 0)
           \/ /\ Attempt(r, idle) = Success(transferred[r] + Moves(r))
              /\ Kind[r] = "write_all" => transferred[r] + Moves(r) = Size[r]
<1>1. /\ Size[r] \in Nat /\ transferred[r] \in Nat /\ transferred[r] <= Size[r]
      /\ Moves(r) \in Nat /\ transferred[r] + Moves(r) <= Size[r]
      /\ Kind[r] \in {"write", "write_all"}
    BY MovesBound, RequestsAssumption DEF Counted
<1>2. CASE Size[r] = 0
    <2>1. transferred[r] + Moves(r) = 0
        BY <1>1, <1>2
    <2> QED BY <1>2, <2>1 DEF Attempt
<1>3. CASE Size[r] # 0 /\ On[r] \in broken \cup shut
    BY <1>3 DEF Attempt, Moves
<1>4. CASE Size[r] # 0 /\ On[r] \notin broken \cup shut
    <2>1. Attempt(r, idle) =
              IF transferred[r] + Moves(r) = Size[r] \/ (Kind[r] = "write" /\ (Moves(r) > 0 \/ r \in idle))
              THEN Success(transferred[r] + Moves(r))
              ELSE IF r \in idle THEN NoProgress ELSE None
        BY <1>4 DEF Attempt
    <2> QED BY <1>1, <2>1
<1> QED BY <1>2, <1>3, <1>4

\* A step that attempts the requests A and may refuse or cancel others.
Attempts(A, idle) ==
    /\ A \subseteq Requests /\ Alone(A) /\ Transfer(A)
    /\ taken' \in [Requests -> Nat] /\ completion' \in [Requests -> Results]
    /\ \A r \in A :
         /\ op[r] \in {"cold", "linked"}
         /\ Attempt(r, idle) = None =>
              op'[r] = "linked" /\ completion'[r] = completion[r] /\ taken'[r] = taken[r]
         /\ Attempt(r, idle) # None =>
              /\ op'[r] \in {"queued", "returned"} /\ completion'[r] = Attempt(r, idle)
              /\ Kind[r] = "read" => taken'[r] = read[On[r]]
    /\ \A r \in Requests \ A :
         \/ op'[r] = op[r] /\ completion'[r] = completion[r] /\ taken'[r] = taken[r]
         \/ /\ op'[r] \in {"queued", "returned"}
            /\ completion[r].kind # "Success" /\ completion'[r].kind # "Success"
    /\ \A r \in A : \A q \in Requests \ A :
         On[q] = On[r] /\ Kind[q] # "read" /\ Kind[r] # "read" => op'[q] # "linked"

\* Attempts leave an end of stream behind all its bytes.
LEMMA AttemptsFollowed == ASSUME Exact, NEW A, NEW idle, Attempts(A, idle) PROVE Followed'
<1>1. UNCHANGED <<arrived, finished>>
    BY DEF Attempts, Transfer
<1> SUFFICES ASSUME NEW r \in Requests
             PROVE  /\ op'[r] \in {"cold", "linked"} => completion'[r].kind # "Success"
                    /\ Kind[r] = "read" => Sent(r)' = {}
                    /\ Kind[r] = "read" /\ completion'[r] = Success(0)
                         => On[r] \in finished /\ taken'[r] = arrived[On[r]]
    BY <1>1 DEF Followed, Success
<1>5. Kind[r] = "read" => Sent(r)' = {}
    BY TransferSent DEF Exact, Attempts, Followed
<1>2. CASE r \notin A
    <2>1. CASE op'[r] = op[r] /\ completion'[r] = completion[r] /\ taken'[r] = taken[r]
        BY <1>5, <2>1 DEF Exact, Followed
    <2>2. CASE op'[r] \in {"queued", "returned"} /\ completion'[r].kind # "Success"
        BY <1>5, <2>2, ResultKinds
    <2> QED BY <1>2, <2>1, <2>2 DEF Attempts
<1>3. CASE r \in A /\ Attempt(r, idle) = None
    <2>1. op[r] \in {"cold", "linked"} /\ completion'[r] = completion[r]
        BY <1>3 DEF Attempts
    <2> QED BY <1>5, <2>1, ResultKinds DEF Exact, Followed
<1>4. CASE r \in A /\ Attempt(r, idle) # None
    <2>1. op'[r] \in {"queued", "returned"} /\ completion'[r] = Attempt(r, idle)
          /\ (Kind[r] = "read" => taken'[r] = read[On[r]])
        BY <1>4 DEF Attempts
    <2>2. ASSUME Kind[r] = "read", Attempt(r, idle) = Success(0)
          PROVE  On[r] \in finished /\ read[On[r]] = arrived[On[r]]
        <3>1. Attempt(r, idle).kind = "Success" /\ Attempt(r, idle).count = 0
            BY <2>2, ResultKinds
        <3>2. Attempt(r, idle) = Success(Moves(r)) => Moves(r) = 0
            BY <3>1, ResultKinds, MovesBound DEF Exact
        <3> QED BY <2>2, <3>1, <3>2, AttemptRead, ResultKinds DEF Exact
    <2> QED BY <1>5, <2>1, <2>2
<1> QED BY <1>2, <1>3, <1>4

\* The bytes an attempt takes are in the result that it commits.
LEMMA AttemptsReturned == ASSUME Exact, NEW A, NEW idle, Attempts(A, idle) PROVE Returned'
<1> SUFFICES ASSUME NEW c \in Connections, NEW i \in 1..read'[c]
             PROVE  \E r \in Requests :
                        /\ On[r] = c /\ Kind[r] = "read" /\ completion'[r].kind = "Success"
                        /\ i - taken'[r] \in 1..completion'[r].count
    BY DEF Returned
<1>1. Counted /\ A \in SUBSET Requests /\ Alone(A) /\ Transfer(A) /\ read[c] \in Nat /\ Counted'
    BY TransferCounted DEF Exact, Attempts, Counted
<1>2. CASE i \in 1..read[c]
    <2>1. PICK r \in Requests :
              /\ On[r] = c /\ Kind[r] = "read" /\ completion[r].kind = "Success"
              /\ i - taken[r] \in 1..completion[r].count
        BY <1>2 DEF Exact, Returned
    <2>2. r \notin A
        BY <2>1 DEF Exact, Followed, Attempts
    <2>3. completion'[r] = completion[r] /\ taken'[r] = taken[r]
        BY <2>1, <2>2 DEF Attempts
    <2> QED BY <2>1, <2>3
<1>3. CASE i \notin 1..read[c]
    <2>1. read'[c] # read[c] /\ i > read[c]
        BY <1>1, <1>3
    <2>2. PICK r \in A : On[r] = c /\ Kind[r] = "read"
        BY <1>1, <2>1, TransferReads
    <2>3. read'[c] = read[c] + Moves(r) /\ r \in Requests /\ Moves(r) \in Nat
        BY <1>1, <2>2, TransferReads, MovesBound
    <2>4. Moves(r) # 0
        BY <1>1, <2>1, <2>3
    <2>5. Attempt(r, idle) = Success(Moves(r))
        BY <1>1, <2>2, <2>3, <2>4, AttemptRead
    <2>6. Attempt(r, idle) # None
        BY <2>3, <2>5, ResultKinds
    <2>7. completion'[r] = Success(Moves(r)) /\ taken'[r] = read[c]
        BY <2>2, <2>5, <2>6 DEF Attempts
    <2>8. completion'[r].kind = "Success" /\ completion'[r].count = Moves(r)
        BY <2>3, <2>7, ResultKinds
    <2>9. i - taken'[r] \in 1..Moves(r)
        BY <1>1, <2>1, <2>3, <2>7
    <2> QED BY <2>2, <2>3, <2>8, <2>9
<1> QED BY <1>2, <1>3

\* Attempts count the bytes they send and send them in one piece.
LEMMA AttemptsAppended == ASSUME Exact, NEW A, NEW idle, Attempts(A, idle) PROVE Appended'
<1>1. Counted /\ A \in SUBSET Requests /\ Alone(A) /\ Transfer(A)
    BY DEF Exact, Attempts
<1>2. ASSUME NEW r \in Requests PROVE
        /\ transferred'[r] = IF r \in A /\ Kind[r] = "write_all" THEN transferred[r] + Moves(r) ELSE transferred[r]
        /\ transferred[r] \in Nat /\ Moves(r) \in Nat
    BY <1>1, MovesBound DEF Transfer, Counted
<1> SUFFICES ASSUME NEW r \in Requests, Kind[r] # "read"
             PROVE  /\ op'[r] = "cold" => Sent(r)' = {}
                    /\ op'[r] \in {"cold", "linked"} => Cardinality(Sent(r)') = transferred'[r]
                    /\ op'[r] = "linked" =>
                         \A i \in Sent(r)' : \A j \in i..Len(sent[On[r]])' : j \in Sent(r)'
                    /\ Kind[r] = "write" => transferred'[r] = 0
                    /\ completion'[r].kind = "Success" => Cardinality(Sent(r)') = completion'[r].count
                    /\ Kind[r] = "write" /\ completion'[r].kind # "Success" => Sent(r)' = {}
                    /\ Kind[r] = "write_all" /\ completion'[r].kind = "Success"
                         => completion'[r].count = Size[r]
                    /\ \A i, j \in Sent(r)' : i..j \subseteq Sent(r)'
    BY DEF Appended
<1>3. CASE r \notin A
    <2>1. Sent(r)' = Sent(r) /\ transferred'[r] = transferred[r]
        BY <1>1, <1>2, <1>3, TransferSent
    <2>2. CASE op'[r] = op[r] /\ completion'[r] = completion[r] /\ taken'[r] = taken[r]
        <3>1. op'[r] = "linked" => sent'[On[r]] = sent[On[r]]
            <4> SUFFICES ASSUME op'[r] = "linked" PROVE sent'[On[r]] = sent[On[r]]
                OBVIOUS
            <4>1. \A q \in A : On[q] = On[r] => Kind[q] = "read"
                BY <1>3 DEF Attempts
            <4>2. On[r] \in Connections
                BY RequestsAssumption
            <4> QED BY <1>1, <4>1, <4>2, TransferWrites
        <3> QED BY <2>1, <2>2, <3>1 DEF Exact, Appended
    <2>3. CASE /\ op'[r] \in {"queued", "returned"}
               /\ completion[r].kind # "Success" /\ completion'[r].kind # "Success"
        BY <2>1, <2>3 DEF Exact, Appended
    <2> QED BY <1>3, <2>2, <2>3 DEF Attempts
<1>4. CASE r \in A
    <2> DEFINE L == Len(sent[On[r]])
               S == Sent(r)
               n == Moves(r)
    <2>1. L \in Nat /\ n \in Nat /\ S \subseteq 1..L
        <3>1. sent[On[r]] \in Seq(Requests)
            BY <1>1, RequestsAssumption DEF Counted
        <3> QED BY <1>2, <3>1 DEF Sent
    <2>2. Sent(r)' = S \cup (L + 1 .. L + n) /\ Len(sent[On[r]])' = L + n
        BY <1>1, <1>4, TransferSent
    <2>3. op[r] \in {"cold", "linked"} /\ completion[r].kind # "Success"
        BY <1>4 DEF Attempts, Exact, Followed
    <2>4. /\ Cardinality(S) = transferred[r]
          /\ Kind[r] = "write" => transferred[r] = 0 /\ S = {}
          /\ \A i \in S : \A j \in i..L : j \in S
          /\ \A i, j \in S : i..j \subseteq S
        BY <2>3 DEF Exact, Appended
    <2>5. IsFiniteSet(S)
        BY <1>1, SentFinite
    <2>d. /\ n = 0 => Sent(r)' = S
          /\ (Attempt(r, idle) = None => op'[r] = "linked" /\ completion'[r] = completion[r])
          /\ (Attempt(r, idle) # None => op'[r] \in {"queued", "returned"} /\ completion'[r] = Attempt(r, idle))
        BY <1>4, <2>1, <2>2 DEF Attempts
    <2>t. /\ Kind[r] = "write_all" => transferred'[r] = transferred[r] + n
          /\ Kind[r] # "write_all" => transferred'[r] = transferred[r]
          /\ transferred[r] \in Nat
          /\ Kind[r] \in {"write", "write_all"}
        BY <1>2, <1>4, RequestsAssumption
    <2>a. \/ Attempt(r, idle) = System /\ n = 0
          \/ Attempt(r, idle) = NoProgress /\ Kind[r] = "write_all"
          \/ Attempt(r, idle) = None /\ (Kind[r] = "write" => n = 0)
          \/ /\ Attempt(r, idle) = Success(transferred[r] + n)
             /\ Kind[r] = "write_all" => transferred[r] + n = Size[r]
        BY <1>1, AttemptWrite
    <2> HIDE DEF L, S, n
    <2>6. Cardinality(Sent(r)') = transferred[r] + n
        <3>1. IsFiniteSet(L + 1 .. L + n) /\ Cardinality(L + 1 .. L + n) = n
            BY <2>1, FS_Interval
        <3>2. S \cap (L + 1 .. L + n) = {}
            BY <2>1
        <3> DEFINE T == L + 1 .. L + n
        <3>4. IsFiniteSet(T) /\ Cardinality(T) = n /\ S \cap T = {} /\ Sent(r)' = S \cup T
            BY <2>2, <3>1, <3>2
        <3> HIDE DEF T
        <3>5. Cardinality(S \cup T) = Cardinality(S) + Cardinality(T) - Cardinality(S \cap T)
            BY <2>5, <3>4, FS_Union
        <3>3. Cardinality(Sent(r)') = Cardinality(S) + n - 0
            BY <3>4, <3>5, FS_EmptySet
        <3> QED BY <2>1, <2>4, <2>t, <3>3
    <2>7. \A i \in Sent(r)' : \A j \in i..L + n : j \in Sent(r)'
        <3> SUFFICES ASSUME NEW i \in Sent(r)', NEW j \in i..L + n PROVE j \in Sent(r)'
            OBVIOUS
        <3>1. i \in 1..L + n /\ (i <= L => i \in S)
            <4>1. CASE i \in S
                BY <2>1, <4>1
            <4>2. CASE i \in L + 1 .. L + n
                BY <2>1, <4>2
            <4> QED BY <2>2, <4>1, <4>2
        <3>2. CASE j <= L
            BY <2>1, <2>2, <2>4, <3>1, <3>2
        <3>3. CASE j > L
            BY <2>1, <2>2, <3>1, <3>3
        <3> QED BY <2>1, <3>1, <3>2, <3>3
    <2>8. \A i, j \in Sent(r)' : i..j \subseteq Sent(r)'
        <3> SUFFICES ASSUME NEW i \in Sent(r)', NEW j \in Sent(r)', NEW k \in i..j
                     PROVE  k \in Sent(r)'
            OBVIOUS
        <3>1. Sent(r)' \subseteq 1..L + n
            BY <2>1, <2>2
        <3>2. k \in i..L + n
            BY <2>1, <3>1
        <3> QED BY <2>7, <3>2
    <2>9. CASE Attempt(r, idle) = System /\ n = 0
        BY <2>9, <2>d, <2>t, <2>4, <2>8, ResultKinds
    <2>10. CASE Attempt(r, idle) = None /\ (Kind[r] = "write" => n = 0)
        BY <2>10, <2>d, <2>t, <2>2, <2>3, <2>4, <2>6, <2>7, <2>8, ResultKinds
    <2>11. CASE /\ Attempt(r, idle) = Success(transferred[r] + n)
                /\ Kind[r] = "write_all" => transferred[r] + n = Size[r]
        <3>1. transferred[r] + n \in Nat
            BY <2>1, <2>t
        <3>2. Attempt(r, idle).kind = "Success" /\ Attempt(r, idle).count = transferred[r] + n /\ Attempt(r, idle) # None
            BY <2>11, <3>1, ResultKinds
        <3> QED BY <2>11, <2>d, <2>t, <2>4, <2>6, <2>8, <3>2
    <2>12. CASE Attempt(r, idle) = NoProgress /\ Kind[r] = "write_all"
        BY <2>12, <2>d, <2>t, <2>8, ResultKinds
    <2> QED BY <2>9, <2>10, <2>11, <2>12, <2>a
<1> QED BY <1>3, <1>4

\* Attempts keep the invariant.
LEMMA AttemptsExact == ASSUME Exact, NEW A, NEW idle, Attempts(A, idle) PROVE Exact'
<1>1. Counted'
    BY TransferCounted DEF Exact, Attempts
<1> QED BY <1>1, AttemptsReturned, AttemptsFollowed, AttemptsAppended DEF Exact

\* Two operations never hold the same direction of a connection.
LEMMA HeldAlone ==
    ASSUME Held
    PROVE  \A r, q \in Requests :
             /\ op[r] \in {"linked", "queued"} /\ op[q] \in {"linked", "queued"}
             /\ On[r] = On[q] /\ (Kind[r] = "read") = (Kind[q] = "read")
             => r = q
BY DEF Held, DirectionHeld

\* suspend() refuses an operation whose direction another one holds.
LEMMA StartsAlone ==
    ASSUME Held, NEW r \in Requests, Refusal(r) = None
    PROVE  \A q \in Requests : op[q] \in {"linked", "queued"} /\ On[q] = On[r]
             => (Kind[q] = "read") # (Kind[r] = "read")
<1>1. On[r] \notin Direction(r)
    BY DEF Refusal, None, Cancelled, Closed, Conflict
<1> QED BY <1>1 DEF Direction, Held, DirectionHeld

\* An operation that starts is attempted at once.
LEMMA StartExact ==
    ASSUME Held, Exact, NEW r \in Requests, Start(r) \/ \E idle : StartDone(r, idle)
    PROVE  Exact'
<1>1. /\ op[r] = "cold" /\ Refusal(r) = None /\ Transfer({r})
      /\ completion \in [Requests -> Results] /\ taken \in [Requests -> Nat]
      /\ op \in [Requests -> {"cold", "linked", "queued", "returned"}]
    BY DEF Start, StartDone, Exact, Counted, Held
<1>2. \A q \in Requests \ {r} : Kind[q] # "read" /\ Kind[r] # "read" /\ On[q] = On[r] => op[q] # "linked"
    BY <1>1, StartsAlone
<1>3. CASE Start(r)
    <2>1. /\ op' = [op EXCEPT ![r] = "linked"] /\ UNCHANGED <<completion, taken>> /\ Attempt(r, {}) = None
        BY <1>3 DEF Start
    <2>2. Attempts({r}, {})
        BY <1>1, <1>2, <2>1 DEF Attempts, Alone
    <2> QED BY <2>2, AttemptsExact
<1>4. ASSUME NEW idle, StartDone(r, idle) PROVE Exact'
    <2>1. /\ op' = [op EXCEPT ![r] = "returned"] /\ completion' = [completion EXCEPT ![r] = Attempt(r, idle)]
          /\ taken' = IF Kind[r] = "read" THEN [taken EXCEPT ![r] = read[On[r]]] ELSE taken
          /\ Attempt(r, idle) # None
        BY <1>4 DEF StartDone
    <2>2. Attempt(r, idle) \in Results /\ read[On[r]] \in Nat
        <3>1. Moves(r) \in Nat /\ transferred[r] + Moves(r) \in Nat
            BY MovesBound DEF Exact, Counted
        <3>2. Counted /\ read[On[r]] \in Nat
            BY RequestsAssumption DEF Exact, Counted
        <3>3. \/ Attempt(r, idle) \in {None, System, NoProgress}
              \/ Attempt(r, idle) \in {Success(Moves(r)), Success(transferred[r] + Moves(r))}
            BY <3>2, AttemptRead, AttemptWrite
        <3>4. /\ Success(Moves(r)) \in Results /\ Success(transferred[r] + Moves(r)) \in Results
              /\ None \in Results /\ System \in Results /\ NoProgress \in Results
            BY <3>1, ResultKinds
        <3> QED BY <3>2, <3>3, <3>4
    <2>3. completion' \in [Requests -> Results] /\ taken' \in [Requests -> Nat]
        BY <1>1, <2>1, <2>2
    <2>4. /\ op'[r] = "returned" /\ completion'[r] = Attempt(r, idle)
          /\ Kind[r] = "read" => taken'[r] = read[On[r]]
        BY <1>1, <2>1
    <2>5. \A q \in Requests \ {r} : op'[q] = op[q] /\ completion'[q] = completion[q] /\ taken'[q] = taken[q]
        BY <1>1, <2>1
    <2>6. Attempts({r}, idle)
        BY <1>1, <1>2, <2>1, <2>3, <2>4, <2>5 DEF Attempts, Alone
    <2> QED BY <2>6, AttemptsExact
<1> QED BY <1>3, <1>4

\* A poll attempts the linked operations that nobody cancelled.
LEMMA PollExact == ASSUME Held, Exact, NEW idle, Poll(idle) PROVE Exact'
<1> DEFINE A == {r \in Polled : r \notin asked /\ completion[r] = None}
           done == {r \in Polled : Answer(r, idle) # None}
<1>1. /\ Transfer(A)
      /\ op' = [r \in Requests |-> IF r \in done THEN "queued" ELSE op[r]]
      /\ completion' = [r \in Requests |-> IF r \in done THEN Answer(r, idle) ELSE completion[r]]
      /\ taken' = [r \in Requests |-> IF r \in done /\ Kind[r] = "read" THEN read[On[r]] ELSE taken[r]]
    BY DEF Poll
<1>2. /\ completion \in [Requests -> Results] /\ taken \in [Requests -> Nat]
      /\ \A r \in Requests : read[On[r]] \in Nat
    BY RequestsAssumption DEF Exact, Counted
<1>3. \A r \in Polled : r \in Requests /\ op[r] = "linked" /\ completion[r].kind # "Success"
    BY DEF Polled, Exact, Followed
<1>4. A \in SUBSET Requests /\ Alone(A)
    BY <1>3, HeldAlone DEF Alone
<1>5. ASSUME NEW r \in Requests PROVE Attempt(r, idle) \in Results
    <2>1. Moves(r) \in Nat /\ transferred[r] + Moves(r) \in Nat
        BY MovesBound DEF Exact, Counted
    <2> QED BY <2>1, AttemptRead, AttemptWrite, ResultKinds DEF Exact
<1>6. ASSUME NEW r \in A
      PROVE  Answer(r, idle) = Attempt(r, idle) /\ (r \in done <=> Attempt(r, idle) # None)
    BY DEF Answer
<1>7. ASSUME NEW r \in Polled, r \notin A
      PROVE  r \in done /\ Answer(r, idle).kind # "Success" /\ Answer(r, idle) \in Results
    BY <1>2, <1>3, <1>7, ResultKinds DEF Answer, Cancelled, None
<1>8. \A r \in done : r \in Polled /\ Answer(r, idle) \in Results
    BY <1>3, <1>5, <1>6, <1>7
<1>9. \A r \in A : r \in Polled
    OBVIOUS
<1> HIDE DEF A, done
<1>10. completion' \in [Requests -> Results] /\ taken' \in [Requests -> Nat]
    BY <1>1, <1>2, <1>8
<1>11. \A r \in A :
         /\ op[r] \in {"cold", "linked"}
         /\ Attempt(r, idle) = None =>
              op'[r] = "linked" /\ completion'[r] = completion[r] /\ taken'[r] = taken[r]
         /\ Attempt(r, idle) # None =>
              /\ op'[r] \in {"queued", "returned"} /\ completion'[r] = Attempt(r, idle)
              /\ Kind[r] = "read" => taken'[r] = read[On[r]]
    BY <1>1, <1>3, <1>6, <1>9
<1>12. \A r \in Requests \ A :
         \/ op'[r] = op[r] /\ completion'[r] = completion[r] /\ taken'[r] = taken[r]
         \/ /\ op'[r] \in {"queued", "returned"}
            /\ completion[r].kind # "Success" /\ completion'[r].kind # "Success"
    BY <1>1, <1>3, <1>7, <1>8
<1>13. \A r \in A : \A q \in Requests \ A :
         On[q] = On[r] /\ Kind[q] # "read" /\ Kind[r] # "read" => op'[q] # "linked"
    BY <1>1, <1>3, <1>9, HeldAlone
<1>14. Attempts(A, idle)
    BY <1>1, <1>4, <1>10, <1>11, <1>12, <1>13 DEF Attempts
<1> QED BY <1>14, AttemptsExact

\* A step that leaves the streams and the operations alone.
LEMMA StillExact ==
    ASSUME Exact, UNCHANGED <<read, sent, transferred, taken, arrived, finished, room, completion, op>>
    PROVE  Exact'
<1>1. arrived \in [Connections -> Nat] /\ room \in [Connections -> Nat]
      /\ completion \in [Requests -> Results] /\ \A c \in Connections : read[c] <= arrived[c]
    BY DEF Exact, Counted
<1> QED BY <1>1, QuietExact

\* The peers and the network add bytes only before the end of a stream.
LEMMA OutsideExact == ASSUME Exact, Outside PROVE Exact'
<1>1. arrived \in [Connections -> Nat] /\ room \in [Connections -> Nat] /\ read \in [Connections -> Nat]
      /\ completion \in [Requests -> Results] /\ \A c \in Connections : read[c] <= arrived[c]
    BY DEF Exact, Counted
<1>2. ASSUME NEW c \in Connections, Arrive(c) PROVE Exact'
    <2>1. /\ arrived' = [arrived EXCEPT ![c] = arrived[c] + 1] /\ c \notin finished
          /\ UNCHANGED <<read, sent, transferred, taken, finished, room, completion, op>>
        BY <1>2 DEF Arrive, request
    <2>2. arrived' \in [Connections -> Nat]
          /\ \A d \in Connections : read[d] <= arrived'[d] /\ (d \in finished => arrived'[d] = arrived[d])
        BY <1>1, <2>1
    <2> QED BY <1>1, <2>1, <2>2, QuietExact
<1>3. ASSUME NEW c \in Connections, PeerFinishes(c) PROVE Exact'
    <2>1. /\ finished' = finished \cup {c}
          /\ UNCHANGED <<read, sent, transferred, taken, arrived, room, completion, op>>
        BY <1>3 DEF PeerFinishes, request
    <2> QED BY <1>1, <2>1, QuietExact
<1>4. ASSUME NEW c \in Connections, PeerReads(c) PROVE Exact'
    <2>1. /\ room' = [room EXCEPT ![c] = Room]
          /\ UNCHANGED <<read, sent, transferred, taken, arrived, finished, completion, op>>
        BY <1>4 DEF PeerReads, request
    <2>2. room' \in [Connections -> Nat]
        BY <1>1, <2>1, PeersAssumption
    <2> QED BY <1>1, <2>1, <2>2, QuietExact
<1>5. ASSUME NEW c \in Connections, PeerResets(c) PROVE Exact'
    BY <1>5, StillExact DEF PeerResets, request
<1> QED BY <1>2, <1>3, <1>4, <1>5 DEF Outside

\* An operation that is refused moves nothing.
LEMMA RefusedExact == ASSUME Exact, NEW r \in Requests, StartRefused(r) PROVE Exact'
<1>1. arrived \in [Connections -> Nat] /\ room \in [Connections -> Nat]
      /\ completion \in [Requests -> Results] /\ \A c \in Connections : read[c] <= arrived[c]
    BY DEF Exact, Counted
<1>2. /\ op[r] = "cold" /\ op' = [op EXCEPT ![r] = "returned"]
      /\ completion' = [completion EXCEPT ![r] = Refusal(r)] /\ Refusal(r) # None
      /\ UNCHANGED <<read, sent, transferred, taken, arrived, finished, room>>
    BY DEF StartRefused, kernel
<1>3. Refusal(r) \in Results /\ Refusal(r).kind # "Success"
    BY ResultKinds DEF Refusal
<1>4. completion[r].kind # "Success"
    BY <1>2 DEF Exact, Followed
<1>5. completion' \in [Requests -> Results]
    BY <1>1, <1>2, <1>3
<1>6. \A q \in Requests :
        /\ op'[q] \in {op[q], "queued", "returned"}
        /\ \/ completion'[q] = completion[q]
           \/ completion[q].kind # "Success" /\ completion'[q].kind # "Success"
    <2> SUFFICES ASSUME NEW q \in Requests PROVE
            /\ op'[q] \in {op[q], "queued", "returned"}
            /\ \/ completion'[q] = completion[q]
               \/ completion[q].kind # "Success" /\ completion'[q].kind # "Success"
        OBVIOUS
    <2>1. completion'[q] = IF q = r THEN Refusal(r) ELSE completion[q]
        BY <1>1, <1>2
    <2>2. op'[q] \in {op[q], "queued", "returned"}
        BY <1>2
    <2> QED BY <1>3, <1>4, <2>1, <2>2
<1> QED BY <1>1, <1>2, <1>5, <1>6, QuietExact

\* A resumption changes no result.
LEMMA ResumeExact == ASSUME Exact, NEW r \in Requests, Resume(r) PROVE Exact'
<1>1. arrived \in [Connections -> Nat] /\ room \in [Connections -> Nat]
      /\ completion \in [Requests -> Results] /\ \A c \in Connections : read[c] <= arrived[c]
    BY DEF Exact, Counted
<1>2. /\ op' = [op EXCEPT ![r] = "returned"]
      /\ UNCHANGED <<read, sent, transferred, taken, arrived, finished, room, completion>>
    BY DEF Resume, kernel
<1>3. \A q \in Requests : op'[q] \in {op[q], "queued", "returned"}
    BY <1>2
<1> QED BY <1>1, <1>2, <1>3, QuietExact

\* A failed wait gives its result to operations that have none.
LEMMA FailsExact == ASSUME Exact, WaitFails PROVE Exact'
<1>1. arrived \in [Connections -> Nat] /\ room \in [Connections -> Nat]
      /\ completion \in [Requests -> Results] /\ \A c \in Connections : read[c] <= arrived[c]
    BY DEF Exact, Counted
<1>2. /\ completion' = [r \in Requests |-> IF op[r] = "linked" THEN System ELSE completion[r]]
      /\ UNCHANGED <<read, sent, transferred, taken, arrived, finished, room, op>>
    BY DEF WaitFails, kernel
<1>3. completion' \in [Requests -> Results]
    BY <1>1, <1>2, ResultKinds
<1>4. \A r \in Requests : \/ completion'[r] = completion[r]
                          \/ completion[r].kind # "Success" /\ completion'[r].kind # "Success"
    BY <1>2, ResultKinds DEF Exact, Followed
<1> QED BY <1>1, <1>2, <1>3, <1>4, QuietExact

\* Every step keeps the streams exact.
LEMMA NextExact == Held /\ Exact /\ [Next]_vars => Exact'
<1> SUFFICES ASSUME Held, Exact, [Next]_vars PROVE Exact' OBVIOUS
<1>0. ASSUME UNCHANGED <<kernel, request>> PROVE Exact'
    BY <1>0, StillExact DEF kernel, request
<1>1. CASE UNCHANGED vars
    BY <1>0, <1>1 DEF vars
<1>2. CASE Outside
    BY <1>2, OutsideExact
<1>3. CASE \E c \in Connections : Close(c) \/ ShutdownSend(c)
    <2>1. ASSUME NEW c \in Connections, Close(c) PROVE Exact'
        BY <1>0, <2>1 DEF Close
    <2>2. ASSUME NEW c \in Connections, ShutdownSend(c) PROVE Exact'
        BY <2>2, StillExact DEF ShutdownSend, request
    <2> QED BY <1>3, <2>1, <2>2
<1>4. CASE \E r \in Requests :
              StartRefused(r) \/ Start(r) \/ Cancel(r) \/ \E idle \in SUBSET {r} : StartDone(r, idle)
    <2>1. ASSUME NEW r \in Requests, Cancel(r) PROVE Exact'
        BY <1>0, <2>1 DEF Cancel
    <2> QED BY <1>4, <2>1, RefusedExact, StartExact
<1>5. CASE \E a \in Roots : Advance(a) \/ Complete(a)
    <2>1. ASSUME NEW a \in Roots, Advance(a) PROVE Exact'
        <3>1. CASE \E idle : Poll(idle)
            BY <3>1, PollExact
        <3>2. CASE UNCHANGED <<connection, kernel, list, request, asked>>
            BY <1>0, <3>2
        <3> QED BY <2>1, <3>1, <3>2 DEF Advance
    <2>2. ASSUME NEW a \in Roots, Complete(a) PROVE Exact'
        BY <1>0, <2>2 DEF Complete
    <2> QED BY <1>5, <2>1, <2>2
<1>6. CASE \E r \in Requests : Resume(r)
    BY <1>6, ResumeExact
<1>7. CASE ResumeOther \/ NothingReady \/ EndTurn
    BY <1>0, <1>7 DEF ResumeOther, NothingReady, EndTurn
<1>8. CASE WaitFails
    BY <1>8, FailsExact
<1> QED BY <1>1, <1>2, <1>3, <1>4, <1>5, <1>6, <1>7, <1>8 DEF Next, Code, Driver

\* For any connections and operations: every byte taken from a socket is in the result of one
\* successful read, an end of stream is reported after all of them, and a write reports what it
\* sent, in one piece.
THEOREM StreamsKept == Spec => []StreamsExact
<1>1. Spec => [](Held /\ Exact)
    BY InitHeld, NextHeld, InitExact, NextExact, PTL DEF Spec
<1>2. Exact => StreamsExact
    <2> SUFFICES ASSUME Exact PROVE StreamsExact
        OBVIOUS
    <2>1. ASSUME NEW c \in Connections, NEW i \in 1..read[c]
          PROVE  \E r \in {q \in Requests : On[q] = c /\ Kind[q] = "read" /\ completion[q].kind = "Success"} :
                     i - taken[r] \in 1..completion[r].count
        BY DEF Exact, Returned
    <2>2. \A r \in Requests : Kind[r] = "read" /\ completion[r] = Success(0) => taken[r] = arrived[On[r]]
        BY DEF Exact, Followed
    <2>3. ASSUME NEW r \in Requests
          PROVE  /\ Kind[r] # "read" /\ completion[r].kind = "Success"
                      => Cardinality(Sent(r)) = completion[r].count
                 /\ Kind[r] = "write" /\ completion[r].kind # "Success" => Sent(r) = {}
                 /\ Kind[r] = "write_all" /\ completion[r].kind = "Success" => completion[r].count = Size[r]
                 /\ \A i, j \in Sent(r) : i..j \subseteq Sent(r)
        <3>1. CASE Kind[r] = "read"
            BY <3>1 DEF Exact, Followed
        <3>2. CASE Kind[r] # "read"
            BY <3>2 DEF Exact, Appended
        <3> QED BY <3>1, <3>2
    <2> QED BY <2>1, <2>2, <2>3 DEF StreamsExact
<1> QED BY <1>1, <1>2, PTL
=============================================================================
