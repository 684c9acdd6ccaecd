-------------------------- MODULE ExecutionProofs --------------------------
(* Theorems of Execution: types, no cancellation is lost, a stop prevails,  *)
(* every suspended frame is woken exactly once, children stay in scope, and *)
(* no root is stranded.                                                     *)
EXTENDS Execution, SequenceTheorems, FiniteSetTheorems, WellFoundedInduction, TLAPS

-----------------------------------------------------------------------------
(* Sequence operators the model is built from.                             *)

\* RemoveAt drops exactly the entry at i and keeps the order of the others.
LEMMA RemoveAtProperties ==
    ASSUME NEW S, NEW s \in Seq(S), NEW i \in DOMAIN s
    PROVE  /\ RemoveAt(s, i) \in Seq(S)
           /\ Len(RemoveAt(s, i)) = Len(s) - 1
           /\ \A j \in 1..(Len(s) - 1) :
                RemoveAt(s, i)[j] = IF j < i THEN s[j] ELSE s[j + 1]
<1>1. i \in 1..Len(s) /\ Len(s) \in Nat
  OBVIOUS
<1> DEFINE a == SubSeq(s, 1, i - 1)
           b == SubSeq(s, i + 1, Len(s))
<1>2. /\ a \in Seq(S) /\ Len(a) = i - 1
      /\ \A j \in 1..(i - 1) : a[j] = s[j]
  BY <1>1
<1>3. /\ b \in Seq(S) /\ Len(b) = Len(s) - i
      /\ \A j \in 1..(Len(s) - i) : b[j] = s[i + j]
  BY <1>1
<1> HIDE DEF a, b
<1>4. /\ a \o b \in Seq(S)
      /\ Len(a \o b) = Len(s) - 1
      /\ \A j \in 1..(Len(s) - 1) : (a \o b)[j] = IF j <= i - 1 THEN a[j] ELSE b[j - (i - 1)]
  <2>1. /\ a \o b \in Seq(S) /\ Len(a \o b) = Len(a) + Len(b)
        /\ \A j \in 1..(Len(a) + Len(b)) :
             (a \o b)[j] = IF j <= Len(a) THEN a[j] ELSE b[j - Len(a)]
    BY <1>2, <1>3, ConcatProperties
  <2>2. Len(a) = i - 1 /\ Len(a) + Len(b) = Len(s) - 1
    BY <1>1, <1>2, <1>3
  <2> QED
    BY <2>1, <2>2
<1>5. ASSUME NEW j \in 1..(Len(s) - 1)
      PROVE  (a \o b)[j] = IF j < i THEN s[j] ELSE s[j + 1]
  <2>1. CASE j < i
    <3>1. j <= i - 1 /\ j \in 1..(i - 1)
      BY <1>1, <2>1
    <3> QED
      BY <1>2, <1>4, <2>1, <3>1
  <2>2. CASE ~(j < i)
    <3>1. ~(j <= i - 1) /\ j - (i - 1) \in 1..(Len(s) - i) /\ i + (j - (i - 1)) = j + 1
      BY <1>1, <2>2
    <3> QED
      BY <1>3, <1>4, <2>2, <3>1
  <2> QED
    BY <2>1, <2>2
<1>6. RemoveAt(s, i) = a \o b
  BY DEF RemoveAt, a, b
<1> QED
  BY <1>4, <1>5, <1>6

\* Removing an entry from a list (a node unlinked by dispatch_one, a detached
\* registration) leaves no new entry and loses at most the one removed.
LEMMA RemoveAtElements ==
    ASSUME NEW S, NEW s \in Seq(S), NEW i \in DOMAIN s
    PROVE  /\ RemoveAt(s, i) \in Seq(S)
           /\ \A j \in DOMAIN RemoveAt(s, i) : \E k \in DOMAIN s : RemoveAt(s, i)[j] = s[k]
<1> DEFINE t == RemoveAt(s, i)
<1>1. /\ t \in Seq(S) /\ Len(t) = Len(s) - 1
      /\ \A j \in 1..(Len(s) - 1) : t[j] = IF j < i THEN s[j] ELSE s[j + 1]
  BY RemoveAtProperties
<1> HIDE DEF t
<1>2. ASSUME NEW j \in DOMAIN t
      PROVE  \E k \in DOMAIN s : t[j] = s[k]
  <2>1. j \in 1..(Len(s) - 1) /\ j \in DOMAIN s /\ j + 1 \in DOMAIN s
    BY <1>1
  <2> QED
    BY <1>1, <2>1
<1> QED
  BY <1>1, <1>2 DEF t

\* InsertAt keeps the entries before i, puts e at i and shifts the others.
LEMMA InsertAtProperties ==
    ASSUME NEW S, NEW s \in Seq(S), NEW e \in S, NEW i \in 1..(Len(s) + 1)
    PROVE  /\ InsertAt(s, i, e) \in Seq(S)
           /\ Len(InsertAt(s, i, e)) = Len(s) + 1
           /\ \A j \in 1..(Len(s) + 1) :
                InsertAt(s, i, e)[j] = IF j < i THEN s[j] ELSE IF j = i THEN e ELSE s[j - 1]
<1>1. i \in 1..(Len(s) + 1) /\ Len(s) \in Nat
  OBVIOUS
<1> DEFINE a == SubSeq(s, 1, i - 1)
           b == SubSeq(s, i, Len(s))
<1>2. /\ a \in Seq(S) /\ Len(a) = i - 1
      /\ \A j \in 1..(i - 1) : a[j] = s[j]
  BY <1>1
<1>3. /\ b \in Seq(S) /\ Len(b) = Len(s) - i + 1
      /\ \A j \in 1..(Len(s) - i + 1) : b[j] = s[i + j - 1]
  BY <1>1
<1> HIDE DEF a, b
<1>4. /\ <<e>> \in Seq(S) /\ Len(<<e>>) = 1 /\ <<e>>[1] = e
  OBVIOUS
<1>5. /\ a \o <<e>> \in Seq(S) /\ Len(a \o <<e>>) = i
      /\ \A j \in 1..i : (a \o <<e>>)[j] = IF j < i THEN a[j] ELSE e
  <2> DEFINE one == <<e>>
  <2>1. one \in Seq(S) /\ Len(one) = 1 /\ one[1] = e
    BY <1>4 DEF one
  <2> HIDE DEF one
  <2>2. /\ a \o one \in Seq(S) /\ Len(a \o one) = (i - 1) + 1
        /\ \A j \in 1..((i - 1) + 1) :
             (a \o one)[j] = IF j <= i - 1 THEN a[j] ELSE one[j - (i - 1)]
    <3>1. /\ a \o one \in Seq(S)
          /\ Len(a \o one) = Len(a) + Len(one)
          /\ \A j \in 1..(Len(a) + Len(one)) :
               (a \o one)[j] = IF j <= Len(a) THEN a[j] ELSE one[j - Len(a)]
      BY <1>2, <2>1, ConcatProperties
    <3> QED
      BY <1>2, <2>1, <3>1
  <2>3. (i - 1) + 1 = i
    BY <1>1
  <2>4. ASSUME NEW j \in 1..i
        PROVE  (a \o one)[j] = IF j < i THEN a[j] ELSE e
    <3>1. CASE j < i
      <4>1. j <= i - 1 /\ j \in 1..((i - 1) + 1)
        BY <1>1, <2>3, <3>1
      <4> QED
        BY <2>2, <3>1, <4>1
    <3>2. CASE j = i
      <4>1. j - (i - 1) = 1 /\ ~(j <= i - 1) /\ ~(j < i)
        BY <1>1, <3>2
      <4>2. j \in 1..((i - 1) + 1)
        BY <2>3
      <4>3. (a \o one)[j] = one[1]
        BY <2>2, <4>1, <4>2
      <4> QED
        BY <2>1, <4>1, <4>3
    <3>3. j < i \/ j = i
      BY <1>1
    <3> QED
      BY <3>1, <3>2, <3>3
  <2> QED
    BY <2>2, <2>3, <2>4 DEF one
<1> DEFINE c == a \o <<e>>
<1> HIDE DEF c
<1>6. c \in Seq(S) /\ Len(c) = i /\ \A j \in 1..i : c[j] = IF j < i THEN a[j] ELSE e
  BY <1>5 DEF c
<1>7. /\ c \o b \in Seq(S) /\ Len(c \o b) = Len(s) + 1
      /\ \A j \in 1..(Len(s) + 1) : (c \o b)[j] = IF j <= i THEN c[j] ELSE b[j - i]
  <2>1. i + (Len(s) - i + 1) = Len(s) + 1
    BY <1>1
  <2> QED
    BY <1>3, <1>6, <2>1, ConcatProperties
<1>8. ASSUME NEW j \in 1..(Len(s) + 1)
      PROVE  (c \o b)[j] = IF j < i THEN s[j] ELSE IF j = i THEN e ELSE s[j - 1]
  <2>1. CASE j < i
    <3>1. j <= i /\ j \in 1..i /\ j \in 1..(i - 1)
      BY <1>1, <2>1
    <3> QED
      BY <1>2, <1>6, <1>7, <2>1, <3>1
  <2>2. CASE j = i
    <3>1. j <= i /\ j \in 1..i /\ ~(j < i)
      BY <1>1, <2>2
    <3> QED
      BY <1>6, <1>7, <2>2, <3>1
  <2>3. CASE j > i
    <3>1. ~(j <= i) /\ ~(j < i) /\ j # i
      BY <1>1, <2>3
    <3>2. j - i \in 1..(Len(s) - i + 1) /\ i + (j - i) - 1 = j - 1
      BY <1>1, <2>3
    <3> QED
      BY <1>3, <1>7, <3>1, <3>2
  <2>4. j < i \/ j = i \/ j > i
    BY <1>1
  <2> QED
    BY <2>1, <2>2, <2>3, <2>4
<1>9. InsertAt(s, i, e) = c \o b
  BY DEF InsertAt, a, b, c
<1> QED
  BY <1>7, <1>8, <1>9

\* Inserting an entry in a list (a timer) loses no entry and adds that one only.
LEMMA InsertAtElements ==
    ASSUME NEW S, NEW s \in Seq(S), NEW e \in S, NEW i \in 1..(Len(s) + 1)
    PROVE  /\ InsertAt(s, i, e) \in Seq(S)
           /\ \A j \in DOMAIN InsertAt(s, i, e) :
                InsertAt(s, i, e)[j] = e \/ \E k \in DOMAIN s : InsertAt(s, i, e)[j] = s[k]
<1> DEFINE t == InsertAt(s, i, e)
<1>1. /\ t \in Seq(S) /\ Len(t) = Len(s) + 1
      /\ \A j \in 1..(Len(s) + 1) :
           t[j] = IF j < i THEN s[j] ELSE IF j = i THEN e ELSE s[j - 1]
  BY InsertAtProperties
<1> HIDE DEF t
<1>2. ASSUME NEW j \in DOMAIN t
      PROVE  t[j] = e \/ \E k \in DOMAIN s : t[j] = s[k]
  <2>1. j \in 1..(Len(s) + 1)
    BY <1>1
  <2>2. (j < i => j \in DOMAIN s) /\ (j > i => j - 1 \in DOMAIN s)
    BY <2>1
  <2>3. j < i \/ j = i \/ j > i
    BY <2>1
  <2> QED
    BY <1>1, <2>1, <2>2, <2>3
<1> QED
  BY <1>1, <1>2 DEF t

\* Appending an entry adds that entry only.
LEMMA AppendElements ==
    ASSUME NEW S, NEW s \in Seq(S), NEW e \in S
    PROVE  /\ Append(s, e) \in Seq(S)
           /\ \A j \in DOMAIN Append(s, e) :
                Append(s, e)[j] = e \/ \E k \in DOMAIN s : Append(s, e)[j] = s[k]
  OBVIOUS

\* Pushing an entry at the head adds that entry only.
LEMMA PushElements ==
    ASSUME NEW S, NEW s \in Seq(S), NEW e \in S
    PROVE  /\ <<e>> \o s \in Seq(S)
           /\ \A j \in DOMAIN (<<e>> \o s) :
                (<<e>> \o s)[j] = e \/ \E k \in DOMAIN s : (<<e>> \o s)[j] = s[k]
  OBVIOUS

\* A suffix of a list has only entries of the list.
LEMMA SuffixElements ==
    ASSUME NEW S, NEW s \in Seq(S), NEW k \in DOMAIN s
    PROVE  SubSeq(s, k, Len(s)) \in Seq(S)
  OBVIOUS

\* Dropping the head of a list (an expired timer) leaves entries of the list only.
LEMMA TailElements ==
    ASSUME NEW S, NEW s \in Seq(S), s # <<>>
    PROVE  /\ Tail(s) \in Seq(S)
           /\ Head(s) \in S /\ Head(s) = s[1] /\ 1 \in DOMAIN s
           /\ \A j \in DOMAIN Tail(s) : \E k \in DOMAIN s : Tail(s)[j] = s[k]
  OBVIOUS

-----------------------------------------------------------------------------
(* The inductive invariant.  A parked frame's task and its parent chain     *)
(* cannot change under it, because only cold frames are given a task.       *)

Started == {f \in Frames : status[f] # "cold"}

KnownStarted ==
    /\ \A i \in DOMAIN queue : queue[i].of \in Started
    /\ \A i \in DOMAIN timers : timers[i].of \in Started
    /\ \A i \in DOMAIN subs : subs[i] \in Started
    /\ \A c \in Frames : waiter[c] # Unwaited => waiter[c].of \in Started
    /\ \A f \in Frames : at[f].on # NoFrame => at[f].on \in Started
    /\ \A f \in Frames : \A k \in DOMAIN children[f] : children[f][k] \in Started
    /\ current # NoFrame => current \in Started

StartedTasks == \A f \in Started : task[f] \in Started

PollClean == stage \in {"cancel", "due"} => ~dirty

IInv == TypeOK /\ KnownStarted /\ StartedTasks /\ PollClean /\ NoLostCancellation

USE DEF vars, frameVars, taskVars, scopeVars, parkVars, hostVars

\* The initial state satisfies the invariant.
LEMMA InitIInv == Init => IInv
<1> SUFFICES ASSUME Init PROVE IInv
  OBVIOUS
<1>1. TypeOK
  <2>1. Running \in Points /\ Unwaited \in Waiter
    BY DEF Running, Points, Waiter
  <2>2. <<>> \in Seq(WorkNode) /\ <<>> \in Seq(Timer) /\ <<>> \in Seq(Frames)
    OBVIOUS
  <2>3. 0 \in 0..MaxTime
    BY TimeAssumption
  <2> QED
    BY <2>1, <2>2, <2>3 DEF Init, TypeOK
<1>2. DOMAIN queue = {} /\ DOMAIN timers = {} /\ DOMAIN subs = {}
  BY DEF Init
<1>3. KnownStarted /\ StartedTasks /\ PollClean
  BY <1>2 DEF Init, KnownStarted, StartedTasks, PollClean, Started, Unwaited, Running
<1>4. Parked = {}
  BY <1>2 DEF Parked, ToSet
<1> QED
  BY <1>1, <1>3, <1>4 DEF IInv, NoLostCancellation

\* The host's actions keep every variable in its type.
LEMMA HostType == TypeOK /\ HostNext => TypeOK'
<1> SUFFICES ASSUME TypeOK, NEW r \in Roots,
                    StartRoot(r) \/ CancelRoot(r) \/ TakeCompletion(r) \/ Advance(r)
             PROVE  TypeOK'
  BY DEF HostNext
<1>r. r \in Frames
  BY FramesAssumption
<1>1. CASE StartRoot(r)
  BY <1>r, <1>1 DEF TypeOK, StartRoot, Points, Point, WorkNode, Resume
<1>2. CASE CancelRoot(r)
  BY <1>r, <1>2 DEF TypeOK, CancelRoot, RequestCancel
<1>3. CASE TakeCompletion(r)
  BY <1>r, <1>3 DEF TypeOK, TakeCompletion
<1>4. CASE Advance(r)
  BY <1>r, <1>4 DEF TypeOK, Advance
<1> QED
  BY <1>1, <1>2, <1>3, <1>4

\* So do the steps of Driver::poll.
LEMMA PollType == TypeOK /\ PollNext => TypeOK'
<1> SUFFICES ASSUME TypeOK, PollNext PROVE TypeOK'
  OBVIOUS
<1>1. ASSUME NEW i \in DOMAIN subs, CancelSelection(i) PROVE TypeOK'
  <2>1. subs[i] \in Frames /\ RemoveAt(subs, i) \in Seq(Frames)
    BY RemoveAtElements DEF TypeOK
  <2> QED
    BY <1>1, <2>1 DEF TypeOK, CancelSelection, WithoutRegistrations, Waiter, WorkNode, Resume
<1>2. ASSUME NEW i \in DOMAIN timers, CancelTimer(i) PROVE TypeOK'
  <2>1. timers[i] \in Timer /\ RemoveAt(timers, i) \in Seq(Timer)
    BY RemoveAtElements DEF TypeOK
  <2> QED
    BY <1>2, <2>1 DEF TypeOK, CancelTimer, Timer, WorkNode, Resume
<1>3. CASE CancellationsDelivered
  BY <1>3 DEF TypeOK, CancellationsDelivered
<1>4. CASE ExpireTimer
  <2>1. Head(timers) \in Timer /\ Tail(timers) \in Seq(Timer)
    BY <1>4, TailElements DEF TypeOK, ExpireTimer, TimerDue
  <2> QED
    BY <1>4, <2>1 DEF TypeOK, ExpireTimer, Timer, WorkNode, Resume
<1> QED
  BY <1>1, <1>2, <1>3, <1>4 DEF PollNext

\* So does dispatch_one.
LEMMA DispatchType == TypeOK /\ DispatchNext => TypeOK'
<1> SUFFICES ASSUME TypeOK, DispatchNext PROVE TypeOK'
  OBVIOUS
<1>0. ASSUME NEW i \in DOMAIN queue
      PROVE  /\ queue[i] \in WorkNode /\ queue[i].of \in Frames
             /\ RemoveAt(queue, i) \in Seq(WorkNode)
  <2>1. queue \in Seq(WorkNode)
    BY DEF TypeOK
  <2>2. queue[i] \in WorkNode /\ RemoveAt(queue, i) \in Seq(WorkNode)
    BY <2>1, RemoveAtElements
  <2> QED
    BY <2>2 DEF WorkNode
<1>1. ASSUME NEW i \in DOMAIN queue, DispatchFrame(i) PROVE TypeOK'
  BY <1>0, <1>1 DEF TypeOK, DispatchFrame, Continue, Points, Running
<1>2. ASSUME NEW i \in DOMAIN queue, NEW k \in DOMAIN children[queue[i].of],
             DispatchDrainBlocked(i, k)
      PROVE  TypeOK'
  <2> DEFINE f == queue[i].of
  <2>1. f \in Frames /\ children[f] \in Seq(Frames) /\ children[f][k] \in Frames
        /\ SubSeq(children[f], k, Len(children[f])) \in Seq(Frames)
    BY <1>0, SuffixElements DEF TypeOK
  <2> QED
    BY <1>0, <1>2, <2>1 DEF TypeOK, DispatchDrainBlocked, Waiter, Drain
<1>3. ASSUME NEW i \in DOMAIN queue, DispatchDrainClosed(i) PROVE TypeOK'
  BY <1>0, <1>3 DEF TypeOK, DispatchDrainClosed, WorkNode, Resume
<1>4. CASE NothingReady
  BY <1>4 DEF TypeOK, NothingReady
<1> QED
  BY <1>1, <1>2, <1>3, <1>4 DEF DispatchNext

\* A request recorded on any set of tasks is of the request type.
LEMMA RequestTypes ==
    ASSUME TypeOK, NEW T \in SUBSET Frames, NEW t \in Frames
    PROVE  /\ RequestCancel(T) => /\ request' \in [Frames -> {"None", "Cancelled", "Stopped"}]
                                  /\ dirty' \in BOOLEAN
           /\ RequestStop(t) => /\ request' \in [Frames -> {"None", "Cancelled", "Stopped"}]
                                /\ dirty' \in BOOLEAN
  BY DEF TypeOK, RequestCancel, RequestStop

\* A running frame keeps every variable in its type while it goes on or parks.
LEMMA BodyType ==
    ASSUME TypeOK, KnownStarted, StartedTasks, NEW f \in Frames, NEW c \in Frames,
           \/ Yield(f) \/ \E deadline \in 1..MaxTime : Sleep(f, deadline)
           \/ OpenScope(f) \/ StartChild(f, c) \/ Call(f, c) \/ CancelChild(f, c)
           \/ ObserveDone(f, c) \/ Observe(f, c) \/ CloseDone(f, c) \/ CloseChild(f, c)
           \/ \E candidates \in SUBSET Frames, accept \in BOOLEAN : Select(f, candidates, accept)
           \/ \E requestCancel \in BOOLEAN : CloseScope(f, requestCancel)
           \/ Stop(f)
    PROVE  TypeOK'
<1>t. current = f => task[f] \in Frames
  BY FramesAssumption DEF KnownStarted, StartedTasks, Started
<1>h. Held(f) \in SUBSET Frames /\ {} \in SUBSET Frames /\ {c} \in SUBSET Frames
  BY DEF Held, ToSet, TypeOK
<1>1. CASE Yield(f)
  BY <1>1 DEF TypeOK, Yield, Park, Point, Points, WorkNode, Resume
<1>2. ASSUME NEW deadline \in 1..MaxTime, Sleep(f, deadline) PROVE TypeOK'
  <2>1. [of |-> f, deadline |-> deadline] \in Timer
    BY TimeAssumption DEF Timer
  <2>2. timers' \in Seq(Timer)
    BY <1>2, <2>1, InsertAtElements DEF TypeOK, Sleep, InsertTimer
  <2> QED
    BY <1>2, <2>2 DEF TypeOK, Sleep, Park, Point, Points
<1>3. CASE OpenScope(f)
  BY <1>3 DEF TypeOK, OpenScope
<1>4. CASE StartChild(f, c)
  <2>1. <<c>> \o children[f] \in Seq(Frames)
    BY PushElements DEF TypeOK
  <2>2. lineage[task[f]] \cup {c} \in SUBSET Frames
    BY <1>4, <1>t DEF TypeOK, StartChild, Does
  <2> QED
    BY <1>4, <2>1, <2>2 DEF TypeOK, StartChild, Point, Points, WorkNode, Resume
<1>5. CASE Call(f, c)
  BY <1>5 DEF TypeOK, Call, PointOn, Points, Waiter, Transfer
<1>6. CASE CancelChild(f, c)
  BY <1>6, <1>h, RequestTypes DEF TypeOK, CancelChild
<1>7. CASE ObserveDone(f, c)
  BY <1>7 DEF TypeOK, ObserveDone
<1>8. CASE Observe(f, c)
  BY <1>8 DEF TypeOK, Observe, Park, PointOn, Points, Waiter, Wake
<1>9. CASE CloseDone(f, c)
  BY <1>9, <1>h, RequestTypes DEF TypeOK, CloseDone
<1>10. CASE CloseChild(f, c)
  BY <1>10, <1>h, RequestTypes DEF TypeOK, CloseChild, Park, PointOn, Points, Waiter, Wake
<1>11. ASSUME NEW candidates \in SUBSET Frames, NEW accept \in BOOLEAN,
              Select(f, candidates, accept)
       PROVE  TypeOK'
  <2>1. <<f>> \o subs \in Seq(Frames)
    BY PushElements DEF TypeOK
  <2> QED
    BY <1>11, <2>1 DEF TypeOK, Select, Park, Point, Points, Waiter, Registration
<1>12. ASSUME NEW requestCancel \in BOOLEAN, CloseScope(f, requestCancel) PROVE TypeOK'
  <2>1. /\ request' \in [Frames -> {"None", "Cancelled", "Stopped"}]
        /\ dirty' \in BOOLEAN
    BY <1>12, <1>h, RequestTypes DEF CloseScope
  <2>2. /\ queue' = Append(queue, Pump(f)) /\ Park(f, Point("scope"))
        /\ scope' = [scope EXCEPT ![f] = "Closing"]
        /\ UNCHANGED <<status, completion, waiter, task, lineage, children, parkVars, now>>
    BY <1>12 DEF CloseScope
  <2>3. Pump(f) \in WorkNode
    BY DEF WorkNode, Pump
  <2> QED
    BY <2>1, <2>2, <2>3 DEF TypeOK, Park, Point, Points
<1>13. CASE Stop(f)
  BY <1>13, <1>t, RequestTypes DEF TypeOK, Stop, Does
<1> QED
  BY <1>1, <1>2, <1>3, <1>4, <1>5, <1>6, <1>7, <1>8, <1>9, <1>10, <1>11, <1>12, <1>13

\* So does its return.
LEMMA ReturnType ==
    ASSUME TypeOK, KnownStarted, StartedTasks, NEW f \in Frames, NEW outcome \in Outcomes,
           \/ ReturnUnobserved(f, outcome) \/ ReturnToNode(f, outcome)
           \/ ReturnToSelection(f, outcome) \/ ReturnToCaller(f, outcome)
    PROVE  TypeOK'
<1>1. Finish(f, outcome)
  BY DEF ReturnUnobserved, ReturnToNode, ReturnToSelection, ReturnToCaller
<1>2. task[f] \in Frames
  BY <1>1, FramesAssumption DEF KnownStarted, StartedTasks, Started, Finish
<1>3. /\ completion' \in [Frames -> {"none", "settled", "stopped"}]
      /\ request' \in [Frames -> {"None", "Cancelled", "Stopped"}]
      /\ dirty' \in BOOLEAN
  BY <1>1, <1>2, RequestTypes DEF TypeOK, Finish, Outcomes
<1>4. waiter[f].kind # "none" => waiter[f] \in [kind : {"handle", "resume", "pump", "select"},
                                                of : Frames]
  BY DEF TypeOK, Waiter, Unwaited
<1>5. CASE ReturnUnobserved(f, outcome)
  BY <1>3, <1>5 DEF TypeOK, ReturnUnobserved
<1>6. CASE ReturnToNode(f, outcome)
  BY <1>3, <1>4, <1>6 DEF TypeOK, ReturnToNode, WorkNode, Waiter
<1>7. CASE ReturnToSelection(f, outcome)
  <2>1. WithoutSubscription(waiter[f].of) \in Seq(Frames)
    BY RemoveAtElements DEF TypeOK, WithoutSubscription
  <2>2. WithoutRegistrations(waiter[f].of) \in [Frames -> Waiter]
    BY DEF TypeOK, WithoutRegistrations, Waiter
  <2>3. waiter[f].of \in Frames /\ Append(queue, Resume(waiter[f].of)) \in Seq(WorkNode)
    BY <1>4, <1>7 DEF TypeOK, ReturnToSelection, WorkNode, Resume
  <2> QED
    BY <1>3, <1>7, <2>1, <2>2, <2>3 DEF TypeOK, ReturnToSelection
<1>8. CASE ReturnToCaller(f, outcome)
  BY <1>3, <1>4, <1>8 DEF TypeOK, ReturnToCaller, Continue, Waiter, Points, Running
<1> QED
  BY <1>5, <1>6, <1>7, <1>8

\* Every step keeps every variable in its type.
LEMMA TypeStep == TypeOK /\ KnownStarted /\ StartedTasks /\ [Next]_vars => TypeOK'
<1> SUFFICES ASSUME TypeOK, KnownStarted, StartedTasks, [Next]_vars PROVE TypeOK'
  OBVIOUS
<1>1. CASE HostNext
  BY <1>1, HostType
<1>2. CASE PollNext
  BY <1>2, PollType
<1>3. CASE DispatchNext
  BY <1>3, DispatchType
<1>4. CASE FrameNext
  BY <1>4, BodyType, ReturnType DEF FrameNext
<1>5. CASE Tick
  BY <1>5, TimeAssumption DEF TypeOK, Tick
<1>6. CASE UNCHANGED vars
  BY <1>6 DEF TypeOK
<1> QED
  BY <1>1, <1>2, <1>3, <1>4, <1>5, <1>6 DEF Next

-----------------------------------------------------------------------------
(* A started frame stays started and keeps its task and its parent chain.  *)

\* No step of the program makes a started frame cold again, and none changes
\* the task it is bound to or the parent chain of that task.
LEMMA StartedGrows ==
    ASSUME TypeOK, [Next]_vars
    PROVE  /\ Started \subseteq Started'
           /\ \A f \in Started : task'[f] = task[f] /\ lineage'[f] = lineage[f]
<1>1. CASE HostNext
  BY <1>1, FramesAssumption
  DEF HostNext, StartRoot, CancelRoot, TakeCompletion, Advance, TypeOK, Started
<1>2. CASE PollNext
  BY <1>2 DEF PollNext, CancelSelection, CancelTimer, CancellationsDelivered, ExpireTimer, Started
<1>3. CASE DispatchNext
  <2>1. task' = task /\ lineage' = lineage
    BY <1>3
    DEF DispatchNext, DispatchFrame, DispatchDrainBlocked, DispatchDrainClosed, NothingReady
  <2>2. ASSUME NEW g \in Started PROVE status'[g] # "cold"
    <3>1. ASSUME NEW i \in DOMAIN queue, DispatchFrame(i) PROVE status'[g] # "cold"
      BY <3>1 DEF DispatchFrame, Continue, Started
    <3>2. ASSUME NEW i \in DOMAIN queue, NEW k \in DOMAIN children[queue[i].of],
                 DispatchDrainBlocked(i, k)
          PROVE  status'[g] # "cold"
      BY <3>2 DEF DispatchDrainBlocked, Started
    <3>3. ASSUME NEW i \in DOMAIN queue, DispatchDrainClosed(i) PROVE status'[g] # "cold"
      BY <3>3 DEF DispatchDrainClosed, Started
    <3>4. CASE NothingReady
      BY <3>4 DEF NothingReady, Started
    <3> QED
      BY <1>3, <3>1, <3>2, <3>3, <3>4 DEF DispatchNext
  <2> QED
    BY <2>1, <2>2 DEF Started
<1>4. ASSUME NEW f \in Frames, NEW c \in Frames,
             StartChild(f, c) \/ Call(f, c) \/ CancelChild(f, c) \/ ObserveDone(f, c)
               \/ Observe(f, c) \/ CloseDone(f, c) \/ CloseChild(f, c)
      PROVE  /\ Started \subseteq Started'
             /\ \A g \in Started : task'[g] = task[g] /\ lineage'[g] = lineage[g]
  BY <1>4
  DEF StartChild, Call, CancelChild, ObserveDone, Observe, CloseDone, CloseChild, TypeOK, Started
<1>5. ASSUME NEW f \in Frames,
             \/ Yield(f) \/ \E deadline \in 1..MaxTime : Sleep(f, deadline)
             \/ OpenScope(f) \/ Stop(f)
             \/ \E candidates \in SUBSET Frames, accept \in BOOLEAN : Select(f, candidates, accept)
             \/ \E requestCancel \in BOOLEAN : CloseScope(f, requestCancel)
      PROVE  status' = status /\ task' = task /\ lineage' = lineage
  BY <1>5 DEF Yield, Sleep, OpenScope, Stop, Select, CloseScope
<1>6. ASSUME NEW f \in Frames, NEW outcome \in Outcomes,
             ReturnUnobserved(f, outcome) \/ ReturnToNode(f, outcome)
               \/ ReturnToSelection(f, outcome) \/ ReturnToCaller(f, outcome)
      PROVE  /\ Started \subseteq Started'
             /\ \A g \in Started : task'[g] = task[g] /\ lineage'[g] = lineage[g]
  BY <1>6
  DEF ReturnUnobserved, ReturnToNode, ReturnToSelection, ReturnToCaller, Continue, TypeOK, Started
<1>7. CASE FrameNext
  <2>1. status' = status /\ task' = task /\ lineage' = lineage
          => /\ Started \subseteq Started'
             /\ \A g \in Started : task'[g] = task[g] /\ lineage'[g] = lineage[g]
    BY DEF Started
  <2> QED
    BY <1>4, <1>5, <1>6, <1>7, <2>1 DEF FrameNext
<1>8. CASE Tick \/ UNCHANGED vars
  BY <1>8 DEF Tick, Started
<1> QED
  BY <1>1, <1>2, <1>3, <1>7, <1>8 DEF Next

-----------------------------------------------------------------------------
(* Every frame the driver, a waiter or the thread refers to has started.   *)

\* Every step keeps the references of the driver, of the waiters and of the
\* thread to frames that have started.
LEMMA KnownStep ==
    ASSUME TypeOK, KnownStarted, StartedTasks, [Next]_vars
    PROVE  KnownStarted' /\ StartedTasks'
<1>g. /\ Started \subseteq Started'
      /\ \A f \in Started : task'[f] = task[f] /\ lineage'[f] = lineage[f]
  BY StartedGrows
<1>q. /\ \A n : n \in WorkNode /\ n.of \in Started' /\ queue' = Append(queue, n)
               => \A i \in DOMAIN queue' : queue'[i].of \in Started'
      /\ queue' = queue => \A i \in DOMAIN queue' : queue'[i].of \in Started'
      /\ \A k \in DOMAIN queue : queue' = RemoveAt(queue, k)
               => \A i \in DOMAIN queue' : queue'[i].of \in Started'
  <2>1. queue \in Seq(WorkNode) /\ \A i \in DOMAIN queue : queue[i].of \in Started'
    BY <1>g DEF TypeOK, KnownStarted
  <2>2. ASSUME NEW k \in DOMAIN queue, queue' = RemoveAt(queue, k)
        PROVE  \A i \in DOMAIN queue' : queue'[i].of \in Started'
    BY <2>1, <2>2, RemoveAtElements
  <2>3. ASSUME NEW n \in WorkNode, n.of \in Started', queue' = Append(queue, n)
        PROVE  \A i \in DOMAIN queue' : queue'[i].of \in Started'
    BY <2>1, <2>3, AppendElements
  <2> QED
    BY <2>1, <2>2, <2>3
<1>p. /\ timers' = timers => \A i \in DOMAIN timers' : timers'[i].of \in Started'
      /\ subs' = subs => \A i \in DOMAIN subs' : subs'[i] \in Started'
      /\ waiter' = waiter
           => \A c \in Frames : waiter'[c] # Unwaited => waiter'[c].of \in Started'
      /\ at' = at => \A f \in Frames : at'[f].on # NoFrame => at'[f].on \in Started'
      /\ children' = children
           => \A f \in Frames : \A k \in DOMAIN children'[f] : children'[f][k] \in Started'
      /\ current' = current \/ current' = NoFrame
           => (current' # NoFrame => current' \in Started')
  BY <1>g DEF KnownStarted
<1>a. ASSUME NEW h, NEW p, p.on = NoFrame \/ p.on \in Started', at' = [at EXCEPT ![h] = p]
      PROVE  \A g \in Frames : at'[g].on # NoFrame => at'[g].on \in Started'
  <2>1. at \in [Frames -> Points]
    BY DEF TypeOK
  <2>2. \A g \in Frames : at'[g] = at[g] \/ at'[g] = p
    BY <1>a, <2>1
  <2> QED
    BY <1>a, <1>g, <2>2 DEF KnownStarted
<1>c. \A f \in Frames : current = f => f \in Started /\ task[f] \in Started
  BY FramesAssumption DEF KnownStarted, StartedTasks
<1>1. CASE HostNext
  <2> SUFFICES ASSUME NEW r \in Roots,
                      StartRoot(r) \/ CancelRoot(r) \/ TakeCompletion(r) \/ Advance(r)
               PROVE  KnownStarted' /\ StartedTasks'
    BY <1>1 DEF HostNext
  <2>1. CASE StartRoot(r)
    <3>1. r \in Frames /\ r \in Started' /\ task'[r] = r
      BY <2>1, FramesAssumption DEF StartRoot, TypeOK, Started
    <3>2. Started' = Started \cup {r}
      BY <2>1, <3>1 DEF StartRoot, TypeOK, Started
    <3>3. StartedTasks'
      BY <1>g, <3>1, <3>2 DEF StartedTasks
    <3>4. Resume(r) \in WorkNode /\ Resume(r).of = r
      BY <3>1 DEF Resume, WorkNode
    <3>5. \A f \in Frames : at'[f].on # NoFrame => at'[f].on \in Started'
      BY <1>g, <2>1, <3>1 DEF StartRoot, TypeOK, KnownStarted, Point
    <3> QED
      BY <1>q, <1>p, <2>1, <3>1, <3>3, <3>4, <3>5 DEF StartRoot, KnownStarted
  <2>2. CASE CancelRoot(r) \/ TakeCompletion(r) \/ Advance(r)
    <3>1. task' = task /\ Started' = Started
      BY <2>2 DEF CancelRoot, TakeCompletion, Advance, TypeOK, Started
    <3>2. StartedTasks'
      BY <3>1 DEF StartedTasks
    <3> QED
      BY <1>q, <1>p, <2>2, <3>2 DEF CancelRoot, TakeCompletion, Advance, KnownStarted
  <2> QED
    BY <2>1, <2>2
<1>2. CASE PollNext
  <2>1. task' = task /\ Started' = Started /\ StartedTasks'
    BY <1>2 DEF PollNext, CancelSelection, CancelTimer, CancellationsDelivered, ExpireTimer,
                Started, StartedTasks
  <2>2. ASSUME NEW i \in DOMAIN subs, CancelSelection(i) PROVE KnownStarted'
    <3>1. subs[i] \in Frames /\ subs[i] \in Started'
      BY <2>1 DEF TypeOK, KnownStarted
    <3>2. Resume(subs[i]) \in WorkNode /\ Resume(subs[i]).of = subs[i]
      BY <3>1 DEF Resume, WorkNode
    <3>3. \A j \in DOMAIN subs' : subs'[j] \in Started'
      BY <2>1, <2>2, RemoveAtElements DEF TypeOK, KnownStarted, CancelSelection
    <3>4. \A c \in Frames : waiter'[c] # Unwaited => waiter'[c].of \in Started'
      BY <2>1, <2>2 DEF TypeOK, KnownStarted, CancelSelection, WithoutRegistrations
    <3> QED
      BY <1>q, <1>p, <2>2, <3>1, <3>2, <3>3, <3>4 DEF CancelSelection, KnownStarted
  <2>3. ASSUME NEW i \in DOMAIN timers, CancelTimer(i) PROVE KnownStarted'
    <3>1. timers[i].of \in Frames /\ timers[i].of \in Started'
      <4>1. timers \in Seq(Timer)
        BY DEF TypeOK
      <4>2. timers[i] \in Timer
        BY <4>1
      <4> QED
        BY <2>1, <4>2 DEF KnownStarted, Timer
    <3>2. Resume(timers[i].of) \in WorkNode /\ Resume(timers[i].of).of = timers[i].of
      BY <3>1 DEF Resume, WorkNode
    <3>3. \A j \in DOMAIN timers' : timers'[j].of \in Started'
      BY <2>1, <2>3, RemoveAtElements DEF TypeOK, KnownStarted, CancelTimer
    <3> QED
      BY <1>q, <1>p, <2>3, <3>1, <3>2, <3>3 DEF CancelTimer, KnownStarted
  <2>4. CASE CancellationsDelivered
    <3>1. UNCHANGED <<queue, timers, subs, waiter, at, children, current>>
      BY <2>4 DEF CancellationsDelivered
    <3> QED
      BY <1>q, <1>p, <2>1, <3>1 DEF KnownStarted
  <2>5. CASE ExpireTimer
    <3>1. /\ timers # <<>> /\ Head(timers) \in Timer
          /\ \E k \in DOMAIN timers : Head(timers) = timers[k]
      BY <2>5, TailElements DEF TypeOK, ExpireTimer, TimerDue
    <3>2. Head(timers).of \in Frames /\ Head(timers).of \in Started'
      BY <2>1, <3>1 DEF KnownStarted, Timer
    <3>3. Resume(Head(timers).of) \in WorkNode /\ Resume(Head(timers).of).of = Head(timers).of
      BY <3>2 DEF Resume, WorkNode
    <3>4. \A j \in DOMAIN timers' : timers'[j].of \in Started'
      <4>1. timers' = Tail(timers) /\ timers \in Seq(Timer)
        BY <2>5 DEF TypeOK, ExpireTimer
      <4>2. \A j \in DOMAIN Tail(timers) : \E k \in DOMAIN timers : Tail(timers)[j] = timers[k]
        BY <3>1, <4>1, TailElements
      <4> QED
        BY <2>1, <4>1, <4>2 DEF KnownStarted
    <3>5. UNCHANGED <<subs, waiter, at, children, current>>
          /\ queue' = Append(queue, Resume(Head(timers).of))
      BY <2>5 DEF ExpireTimer
    <3>6. \A j \in DOMAIN queue' : queue'[j].of \in Started'
      BY <1>q, <3>2, <3>3, <3>5
    <3> QED
      BY <1>p, <2>1, <3>4, <3>5, <3>6 DEF KnownStarted
  <2> QED
    BY <1>2, <2>1, <2>2, <2>3, <2>4, <2>5 DEF PollNext
<1>3. CASE DispatchNext
  <2>0. ASSUME NEW i \in DOMAIN queue PROVE queue[i].of \in Frames /\ queue[i].of \in Started'
    <3>1. queue \in Seq(WorkNode)
      BY DEF TypeOK
    <3>2. queue[i] \in WorkNode
      BY <3>1
    <3> QED
      BY <1>g, <3>2 DEF WorkNode, KnownStarted
  <2>1. ASSUME NEW i \in DOMAIN queue, DispatchFrame(i) PROVE KnownStarted' /\ StartedTasks'
    <3> DEFINE f == queue[i].of
    <3>1. \A c \in Frames : c \in Discarded(f) => c \in Started
      BY <2>0, FramesAssumption DEF Discarded, KnownStarted
    <3>2. Started' = Started
      BY <1>g, <2>1, <3>1 DEF DispatchFrame, Continue, Started
    <3>3. StartedTasks'
      BY <2>1, <3>2 DEF StartedTasks, DispatchFrame
    <3>4. \A g \in Frames : at'[g].on # NoFrame => at'[g].on \in Started'
      BY <2>1, <3>2 DEF DispatchFrame, Continue, TypeOK, KnownStarted, Running
    <3>5. current' \in Started'
      BY <2>0, <2>1 DEF DispatchFrame, Continue
    <3> QED
      BY <1>q, <1>p, <2>1, <3>3, <3>4, <3>5 DEF DispatchFrame, KnownStarted
  <2>2. ASSUME NEW i \in DOMAIN queue, NEW k \in DOMAIN children[queue[i].of],
               DispatchDrainBlocked(i, k)
        PROVE  KnownStarted' /\ StartedTasks'
    <3> DEFINE f == queue[i].of
    <3>1. f \in Frames /\ children[f] \in Seq(Frames)
      BY <2>0 DEF TypeOK
    <3>2. \A c \in Frames : (\E j \in 1..(k - 1) : children[f][j] = c) => c \in Started
      BY <3>1 DEF KnownStarted
    <3>3. Started' = Started
      BY <1>g, <2>2, <3>2 DEF DispatchDrainBlocked, Started
    <3>4. StartedTasks'
      BY <2>2, <3>3 DEF StartedTasks, DispatchDrainBlocked
    <3>5. \A g \in Frames : \A j \in DOMAIN children'[g] : children'[g][j] \in Started'
      <4>1. \A j \in DOMAIN SubSeq(children[f], k, Len(children[f])) :
              SubSeq(children[f], k, Len(children[f]))[j] \in Started
        BY <3>1, SuffixElements DEF KnownStarted
      <4> QED
        BY <2>2, <3>1, <3>3, <4>1 DEF DispatchDrainBlocked, TypeOK, KnownStarted
    <3>6. \A c \in Frames : waiter'[c] # Unwaited => waiter'[c].of \in Started'
      BY <2>0, <2>2, <3>3 DEF DispatchDrainBlocked, TypeOK, KnownStarted, Drain
    <3> QED
      BY <1>q, <1>p, <2>2, <3>4, <3>5, <3>6 DEF DispatchDrainBlocked, KnownStarted
  <2>3. ASSUME NEW i \in DOMAIN queue, DispatchDrainClosed(i) PROVE KnownStarted' /\ StartedTasks'
    <3> DEFINE f == queue[i].of
    <3>1. f \in Frames /\ children[f] \in Seq(Frames)
      BY <2>0 DEF TypeOK
    <3>2. \A c \in Frames : (\E j \in DOMAIN children[f] : children[f][j] = c) => c \in Started
      BY <3>1 DEF KnownStarted
    <3>3. Started' = Started
      BY <1>g, <2>3, <3>2 DEF DispatchDrainClosed, Started
    <3>4. StartedTasks'
      BY <2>3, <3>3 DEF StartedTasks, DispatchDrainClosed
    <3>5. \A g \in Frames : \A j \in DOMAIN children'[g] : children'[g][j] \in Started'
      BY <2>3, <3>1, <3>3 DEF DispatchDrainClosed, TypeOK, KnownStarted
    <3>6. \A j \in DOMAIN queue' : queue'[j].of \in Started'
      <4>1. /\ RemoveAt(queue, i) \in Seq(WorkNode)
            /\ \A j \in DOMAIN RemoveAt(queue, i) : RemoveAt(queue, i)[j].of \in Started'
        BY <2>0, RemoveAtElements DEF TypeOK
      <4>2. Resume(f) \in WorkNode /\ Resume(f).of \in Started'
        BY <2>0 DEF Resume, WorkNode
      <4>3. queue' = Append(RemoveAt(queue, i), Resume(f))
        BY <2>3 DEF DispatchDrainClosed
      <4> HIDE DEF f
      <4> QED
        BY <4>1, <4>2, <4>3, AppendElements
    <3> QED
      BY <1>p, <2>3, <3>4, <3>5, <3>6 DEF DispatchDrainClosed, KnownStarted
  <2>4. CASE NothingReady
    <3>1. Started' = Started /\ StartedTasks'
      BY <2>4 DEF NothingReady, Started, StartedTasks
    <3> QED
      BY <1>q, <1>p, <2>4, <3>1 DEF NothingReady, KnownStarted
  <2> QED
    BY <1>3, <2>1, <2>2, <2>3, <2>4 DEF DispatchNext
<1>4. ASSUME NEW f \in Frames, NEW c \in Frames, StartChild(f, c)
      PROVE  KnownStarted' /\ StartedTasks'
  <2>1. f \in Started /\ task[f] \in Started
    BY <1>4, <1>c DEF StartChild, Does
  <2>2. Started' = Started \cup {c} /\ c \in Started' /\ task'[c] = c
    BY <1>4 DEF StartChild, Started, TypeOK
  <2>3. StartedTasks'
    BY <1>g, <2>2 DEF StartedTasks
  <2>4. \A j \in DOMAIN queue' : queue'[j].of \in Started'
    <3>1. Resume(c) \in WorkNode /\ Resume(c).of = c
      BY DEF Resume, WorkNode
    <3> QED
      BY <1>4, <1>q, <2>2, <3>1 DEF StartChild
  <2>5. \A g \in Frames : \A j \in DOMAIN children'[g] : children'[g][j] \in Started'
    <3>1. \A j \in DOMAIN (<<c>> \o children[f]) : (<<c>> \o children[f])[j] \in Started'
      BY <1>g, <2>2, PushElements DEF TypeOK, KnownStarted
    <3> QED
      BY <1>4, <1>g, <3>1 DEF StartChild, TypeOK, KnownStarted
  <2>6. \A g \in Frames : at'[g].on # NoFrame => at'[g].on \in Started'
    BY <1>4, <1>g, <2>2 DEF StartChild, TypeOK, KnownStarted, Point
  <2>7. UNCHANGED <<timers, subs, waiter, current>>
    BY <1>4 DEF StartChild
  <2> QED
    BY <1>p, <2>3, <2>4, <2>5, <2>6, <2>7 DEF KnownStarted
<1>5. ASSUME NEW f \in Frames, NEW c \in Frames, Call(f, c)
      PROVE  KnownStarted' /\ StartedTasks'
  <2>1. f \in Started /\ f \in Started' /\ task[f] \in Started /\ task[f] \in Started'
    BY <1>5, <1>c, <1>g DEF Call, Does
  <2>2. Started' = Started \cup {c} /\ c \in Started' /\ task'[c] = task[f]
    BY <1>5 DEF Call, Started, TypeOK
  <2>3. StartedTasks'
    BY <1>g, <2>1, <2>2 DEF StartedTasks
  <2>4. \A g \in Frames : at'[g].on # NoFrame => at'[g].on \in Started'
    BY <1>5, <1>g, <2>2 DEF Call, TypeOK, KnownStarted, PointOn
  <2>5. \A g \in Frames : waiter'[g] # Unwaited => waiter'[g].of \in Started'
    BY <1>5, <1>g, <2>1 DEF Call, TypeOK, KnownStarted, Transfer
  <2>6. UNCHANGED <<queue, timers, subs, children>> /\ current' = c
    BY <1>5 DEF Call
  <2> QED
    BY <1>p, <1>q, <2>2, <2>3, <2>4, <2>5, <2>6 DEF KnownStarted
<1>6. ASSUME NEW f \in Frames, NEW c \in Frames,
             CancelChild(f, c) \/ ObserveDone(f, c) \/ Observe(f, c)
               \/ CloseDone(f, c) \/ CloseChild(f, c)
      PROVE  KnownStarted' /\ StartedTasks'
  <2>1. f \in Started /\ c \in Started
    <3>1. c \in Held(f) => c \in Started
      BY DEF Held, Started
    <3> QED
      BY <1>6, <1>c, <3>1 DEF CancelChild, ObserveDone, Observe, CloseDone, CloseChild, Does
  <2>2. Started' = Started /\ task' = task
    BY <1>6, <1>g, <2>1 DEF CancelChild, ObserveDone, Observe, CloseDone, CloseChild,
                            Started, TypeOK
  <2>3. StartedTasks'
    BY <2>2 DEF StartedTasks
  <2>4. \A g \in Frames : at'[g].on # NoFrame => at'[g].on \in Started'
    <3>1. at' = at \/ \E p \in {"observe", "close"} : at' = [at EXCEPT ![f] = PointOn(p, c)]
      BY <1>6 DEF CancelChild, ObserveDone, Observe, CloseDone, CloseChild, Park
    <3>2. \A p : PointOn(p, c).on = c
      BY DEF PointOn
    <3> QED
      BY <1>a, <1>p, <2>1, <2>2, <3>1, <3>2
  <2>5. \A g \in Frames : waiter'[g] # Unwaited => waiter'[g].of \in Started'
    <3>1. waiter' = waiter \/ waiter' = [waiter EXCEPT ![c] = Wake(f)]
      BY <1>6 DEF CancelChild, ObserveDone, Observe, CloseDone, CloseChild
    <3> QED
      BY <2>1, <2>2, <3>1 DEF Wake, TypeOK, KnownStarted
  <2>6. UNCHANGED <<queue, timers, subs, children>> /\ current' \in {current, NoFrame}
    BY <1>6 DEF CancelChild, ObserveDone, Observe, CloseDone, CloseChild, Park
  <2> QED
    BY <1>p, <1>q, <2>3, <2>4, <2>5, <2>6 DEF KnownStarted
<1>7. ASSUME NEW f \in Frames,
             \/ Yield(f) \/ \E deadline \in 1..MaxTime : Sleep(f, deadline)
             \/ OpenScope(f) \/ Stop(f)
             \/ \E candidates \in SUBSET Frames, accept \in BOOLEAN : Select(f, candidates, accept)
             \/ \E requestCancel \in BOOLEAN : CloseScope(f, requestCancel)
      PROVE  KnownStarted' /\ StartedTasks'
  <2>1. f \in Started
    BY <1>7, <1>c DEF Yield, Sleep, OpenScope, Stop, Select, CloseScope, Does
  <2>2. Started' = Started /\ StartedTasks'
    BY <1>7 DEF Yield, Sleep, OpenScope, Stop, Select, CloseScope, Started, StartedTasks
  <2>3. \A g \in Frames : at'[g].on # NoFrame => at'[g].on \in Started'
    <3>1. at' = at \/ \E p \in {"yield", "timer", "select", "scope"} :
                        at' = [at EXCEPT ![f] = Point(p)]
      BY <1>7 DEF Yield, Sleep, OpenScope, Stop, Select, CloseScope, Park
    <3>2. \A p : Point(p).on = NoFrame
      BY DEF Point
    <3> QED
      BY <1>a, <1>p, <3>1, <3>2
  <2>4. \A g \in Frames : waiter'[g] # Unwaited => waiter'[g].of \in Started'
    BY <1>7, <2>1, <2>2 DEF Yield, Sleep, OpenScope, Stop, Select, CloseScope,
                            Registration, TypeOK, KnownStarted
  <2>5. \A i \in DOMAIN queue' : queue'[i].of \in Started'
    <3>1. /\ Resume(f) \in WorkNode /\ Resume(f).of = f
          /\ Pump(f) \in WorkNode /\ Pump(f).of = f
      BY DEF WorkNode, Resume, Pump
    <3>2. queue' \in {queue, Append(queue, Resume(f)), Append(queue, Pump(f))}
      BY <1>7 DEF Yield, Sleep, OpenScope, Stop, Select, CloseScope
    <3> QED
      BY <1>q, <2>1, <2>2, <3>1, <3>2
  <2>6. \A i \in DOMAIN timers' : timers'[i].of \in Started'
    <3>1. ASSUME NEW deadline \in 1..MaxTime, Sleep(f, deadline)
          PROVE  \A i \in DOMAIN timers' : timers'[i].of \in Started'
      <4> DEFINE t == [of |-> f, deadline |-> deadline]
      <4>1. t \in Timer /\ t.of = f /\ timers \in Seq(Timer)
        BY TimeAssumption DEF Timer, TypeOK
      <4>2. PICK i \in 1..(Len(timers) + 1) : timers' = InsertAt(timers, i, t)
        BY <3>1 DEF Sleep, InsertTimer
      <4> HIDE DEF t
      <4>3. \A j \in DOMAIN timers' : timers'[j] = t \/ \E k \in DOMAIN timers : timers'[j] = timers[k]
        BY <4>1, <4>2, InsertAtElements
      <4> QED
        BY <2>1, <2>2, <4>1, <4>3 DEF KnownStarted
    <3> QED
      BY <1>7, <1>p, <3>1 DEF Yield, OpenScope, Stop, Select, CloseScope
  <2>7. \A i \in DOMAIN subs' : subs'[i] \in Started'
    <3>1. subs' \in {subs, <<f>> \o subs} /\ subs \in Seq(Frames)
      BY <1>7 DEF Yield, Sleep, OpenScope, Stop, Select, CloseScope, TypeOK
    <3>2. \A j \in DOMAIN (<<f>> \o subs) : (<<f>> \o subs)[j] \in Started'
      BY <2>1, <2>2, <3>1, PushElements DEF KnownStarted
    <3> QED
      BY <1>p, <3>1, <3>2
  <2>8. children' = children /\ current' \in {current, NoFrame}
    BY <1>7 DEF Yield, Sleep, OpenScope, Stop, Select, CloseScope, Park
  <2> QED
    BY <1>p, <2>2, <2>3, <2>4, <2>5, <2>6, <2>7, <2>8 DEF KnownStarted
<1>8. ASSUME NEW f \in Frames, NEW outcome \in Outcomes,
             ReturnUnobserved(f, outcome) \/ ReturnToNode(f, outcome)
               \/ ReturnToSelection(f, outcome) \/ ReturnToCaller(f, outcome)
      PROVE  KnownStarted' /\ StartedTasks'
  <2>1. f \in Started
    BY <1>8, <1>c
    DEF ReturnUnobserved, ReturnToNode, ReturnToSelection, ReturnToCaller, Finish
  <2>2. Started' = Started /\ StartedTasks'
    BY <1>8, <1>g, <2>1
    DEF ReturnUnobserved, ReturnToNode, ReturnToSelection, ReturnToCaller, Continue,
        Started, StartedTasks, TypeOK
  <2>3. \A g \in Frames : at'[g].on # NoFrame => at'[g].on \in Started'
    <3>1. at' = at \/ at' = [at EXCEPT ![waiter[f].of] = Running]
      BY <1>8 DEF ReturnUnobserved, ReturnToNode, ReturnToSelection, ReturnToCaller, Continue
    <3>2. Running.on = NoFrame
      BY DEF Running
    <3> QED
      BY <1>a, <1>p, <3>1, <3>2
  <2>4. \A g \in Frames : waiter'[g] # Unwaited => waiter'[g].of \in Started'
    BY <1>8, <2>2
    DEF ReturnUnobserved, ReturnToNode, ReturnToSelection, ReturnToCaller,
        WithoutRegistrations, TypeOK, KnownStarted
  <2>5. waiter[f].kind # "none" => /\ waiter[f].of \in Frames /\ waiter[f].of \in Started'
                                   /\ waiter[f].kind \in {"handle", "resume", "pump", "select"}
    BY <2>2 DEF TypeOK, KnownStarted, Waiter, Unwaited
  <2>6. \A i \in DOMAIN queue' : queue'[i].of \in Started'
    <3>1. waiter[f].kind \in {"resume", "pump"}
            => /\ [run |-> waiter[f].kind, of |-> waiter[f].of] \in WorkNode
               /\ [run |-> waiter[f].kind, of |-> waiter[f].of].of \in Started'
      BY <2>5 DEF WorkNode
    <3>2. waiter[f].kind = "select"
            => Resume(waiter[f].of) \in WorkNode /\ Resume(waiter[f].of).of \in Started'
      BY <2>5 DEF WorkNode, Resume
    <3> QED
      BY <1>8, <1>q, <3>1, <3>2
      DEF ReturnUnobserved, ReturnToNode, ReturnToSelection, ReturnToCaller
  <2>7. \A i \in DOMAIN subs' : subs'[i] \in Started'
    <3>1. ASSUME NEW h \in Frames
          PROVE  \A i \in DOMAIN WithoutSubscription(h) : WithoutSubscription(h)[i] \in Started'
      BY <2>2, RemoveAtElements DEF WithoutSubscription, TypeOK, KnownStarted
    <3> QED
      BY <1>8, <1>p, <2>5, <3>1
      DEF ReturnUnobserved, ReturnToNode, ReturnToSelection, ReturnToCaller
  <2>8. UNCHANGED <<timers, children>>
    BY <1>8 DEF ReturnUnobserved, ReturnToNode, ReturnToSelection, ReturnToCaller
  <2>9. current' # NoFrame => current' \in Started'
    BY <1>8, <2>5
    DEF ReturnUnobserved, ReturnToNode, ReturnToSelection, ReturnToCaller, Continue
  <2> QED
    BY <1>p, <2>2, <2>3, <2>4, <2>6, <2>7, <2>8, <2>9 DEF KnownStarted
<1>9. CASE Tick \/ UNCHANGED vars
  <2>1. /\ UNCHANGED <<queue, timers, subs, waiter, at, children, current, task>>
        /\ Started' = Started
    BY <1>9 DEF Tick, Started
  <2> QED
    BY <1>p, <1>q, <2>1 DEF KnownStarted, StartedTasks
<1> QED
  BY <1>1, <1>2, <1>3, <1>4, <1>5, <1>6, <1>7, <1>8, <1>9 DEF Next, FrameNext

-----------------------------------------------------------------------------
(* No cancellation is lost.                                                 *)

\* A recorded request either sets the dirty bit or changes nothing.
LEMMA RequestMarksDirty ==
    ASSUME TypeOK, NEW T \in SUBSET Frames, NEW t \in Frames
    PROVE  /\ RequestCancel(T) => dirty' \/ (request' = request /\ dirty' = dirty)
           /\ RequestStop(t) => dirty' \/ (request' = request /\ dirty' = dirty)
<1>1. RequestCancel(T) => dirty' \/ (request' = request /\ dirty' = dirty)
  <2> SUFFICES ASSUME RequestCancel(T), ~dirty'
               PROVE  request' = request /\ dirty' = dirty
    OBVIOUS
  <2>1. ~dirty /\ \A a \in T : request[a] # "None"
    BY DEF RequestCancel
  <2>2. request' = [a \in Frames |-> request[a]]
    BY <2>1 DEF RequestCancel
  <2>3. request \in [Frames -> {"None", "Cancelled", "Stopped"}] /\ dirty' = FALSE /\ dirty = FALSE
    BY <2>1 DEF TypeOK, RequestCancel
  <2> QED
    BY <2>2, <2>3
<1>2. RequestStop(t) => dirty' \/ (request' = request /\ dirty' = dirty)
  <2> SUFFICES ASSUME RequestStop(t), ~dirty'
               PROVE  request' = request /\ dirty' = dirty
    OBVIOUS
  <2>1. ~dirty /\ \A a \in lineage[t] \cap Roots : request[a] = "Stopped"
    BY DEF RequestStop
  <2>2. request' = [a \in Frames |-> request[a]]
    BY <2>1 DEF RequestStop
  <2>3. request \in [Frames -> {"None", "Cancelled", "Stopped"}] /\ dirty' = FALSE /\ dirty = FALSE
    BY <2>1 DEF TypeOK, RequestStop
  <2> QED
    BY <2>2, <2>3
<1> QED
  BY <1>1, <1>2

\* Every step keeps a cancelled parked frame known to the driver: parking reads
\* the request first, a request marks the driver dirty, and poll clears the mark
\* only to deliver every request that is pending.
LEMMA CancellationStep ==
    ASSUME IInv, [Next]_vars
    PROVE  PollClean' /\ NoLostCancellation'
<1> USE DEF IInv
<1>g. /\ Started \subseteq Started'
      /\ \A f \in Started : task'[f] = task[f] /\ lineage'[f] = lineage[f]
  BY StartedGrows
<1>p. \A f \in Parked : f \in Started /\ task[f] \in Started
  BY DEF Parked, ToSet, KnownStarted, StartedTasks
<1>c. ASSUME request' = request, NEW f \in Started
      PROVE  CancelRequested(task[f])' <=> CancelRequested(task[f])
  <2>1. task'[f] = task[f] /\ lineage'[task[f]] = lineage[task[f]]
    BY <1>g DEF StartedTasks
  <2> QED
    BY <1>c, <2>1 DEF CancelRequested
<1>k. ASSUME request' = request, Parked' \subseteq Parked, dirty => dirty',
             stage = "cancel" => stage' = "cancel"
      PROVE  NoLostCancellation'
  BY <1>k, <1>p, <1>c DEF NoLostCancellation
<1>d. ASSUME dirty' PROVE NoLostCancellation'
  BY <1>d DEF NoLostCancellation
<1>f. ASSUME stage = "cancel", Parked' \subseteq Parked, stage' = "cancel"
      PROVE  NoLostCancellation'
  BY <1>f DEF NoLostCancellation
<1>t. ASSUME NEW f \in Frames, current = f PROVE task[f] \in Frames /\ f \in Started
  BY <1>t, FramesAssumption DEF KnownStarted, StartedTasks, Started
<1>1. ASSUME NEW r \in Roots, StartRoot(r) \/ TakeCompletion(r)
      PROVE  PollClean' /\ NoLostCancellation'
  <2>1. UNCHANGED <<request, subs, timers, dirty, stage>>
    BY <1>1 DEF StartRoot, TakeCompletion
  <2> QED
    BY <1>k, <2>1 DEF Parked, PollClean
<1>2. ASSUME NEW r \in Roots, CancelRoot(r)
      PROVE  PollClean' /\ NoLostCancellation'
  <2>1. {r} \in SUBSET Frames /\ r \in Frames
    BY FramesAssumption
  <2>2. RequestCancel({r}) /\ UNCHANGED <<subs, timers, stage>> /\ stage = "host"
    BY <1>2 DEF CancelRoot
  <2>3. dirty' \/ (request' = request /\ dirty' = dirty)
    BY <2>1, <2>2, RequestMarksDirty
  <2> QED
    BY <1>k, <1>d, <2>2, <2>3 DEF Parked, PollClean
<1>3. ASSUME NEW r \in Roots, Advance(r)
      PROVE  PollClean' /\ NoLostCancellation'
  <2>1. /\ UNCHANGED <<request, subs, timers>> /\ stage = "host" /\ ~dirty'
        /\ stage' = IF dirty THEN "cancel" ELSE "due"
    BY <1>3 DEF Advance
  <2>2. CASE dirty
    BY <2>1, <2>2 DEF NoLostCancellation, PollClean
  <2>3. CASE ~dirty
    BY <1>k, <2>1, <2>3 DEF Parked, PollClean
  <2> QED
    BY <2>2, <2>3
<1>4. ASSUME NEW i \in DOMAIN subs, CancelSelection(i)
      PROVE  PollClean' /\ NoLostCancellation'
  <2>1. UNCHANGED <<timers, dirty, stage>> /\ stage = "cancel" /\ subs' = RemoveAt(subs, i)
    BY <1>4 DEF CancelSelection
  <2>2. \A j \in DOMAIN subs' : \E k \in DOMAIN subs : subs'[j] = subs[k]
    BY <2>1, RemoveAtElements DEF TypeOK
  <2>3. Parked' \subseteq Parked
    BY <2>1, <2>2 DEF Parked, ToSet
  <2> QED
    BY <1>f, <2>1, <2>3 DEF PollClean
<1>5. ASSUME NEW i \in DOMAIN timers, CancelTimer(i)
      PROVE  PollClean' /\ NoLostCancellation'
  <2>1. UNCHANGED <<subs, dirty, stage>> /\ stage = "cancel" /\ timers' = RemoveAt(timers, i)
    BY <1>5 DEF CancelTimer
  <2>2. \A j \in DOMAIN timers' : \E k \in DOMAIN timers : timers'[j] = timers[k]
    BY <2>1, RemoveAtElements DEF TypeOK
  <2>3. Parked' \subseteq Parked
    BY <2>1, <2>2 DEF Parked, ToSet
  <2> QED
    BY <1>f, <2>1, <2>3 DEF PollClean
<1>6. CASE CancellationsDelivered
  <2>1. UNCHANGED <<subs, timers, dirty, request>> /\ stage = "cancel" /\ stage' = "due"
    BY <1>6 DEF CancellationsDelivered
  <2>2. \A f \in Parked : ~CancelRequested(task[f])
    BY <1>6 DEF CancellationsDelivered, NoCancelledSelection, NoCancelledTimer, Parked, ToSet
  <2>3. Parked' = Parked
    BY <2>1 DEF Parked
  <2>4. NoLostCancellation'
    BY <1>c, <1>p, <2>1, <2>2, <2>3 DEF NoLostCancellation
  <2> QED
    BY <2>1, <2>4 DEF PollClean
<1>7. CASE ExpireTimer
  <2>1. /\ UNCHANGED <<subs, dirty, stage, request>> /\ timers' = Tail(timers)
        /\ timers # <<>> /\ timers \in Seq(Timer)
    BY <1>7 DEF ExpireTimer, TimerDue, TypeOK
  <2>2. \A j \in DOMAIN timers' : \E k \in DOMAIN timers : timers'[j] = timers[k]
    BY <2>1, TailElements
  <2>3. Parked' \subseteq Parked
    BY <2>1, <2>2 DEF Parked, ToSet
  <2> QED
    BY <1>k, <2>1, <2>3 DEF PollClean
<1>8. CASE DispatchNext
  <2>1. UNCHANGED <<subs, timers, dirty, request>> /\ stage = "due" /\ stage' \in {"host", "run"}
    BY <1>8
    DEF DispatchNext, DispatchFrame, DispatchDrainBlocked, DispatchDrainClosed, NothingReady,
        Selected
  <2> QED
    BY <1>k, <2>1 DEF Parked, PollClean
<1>9. ASSUME NEW f \in Frames, NEW c \in Frames,
             StartChild(f, c) \/ Call(f, c) \/ ObserveDone(f, c) \/ Observe(f, c)
               \/ OpenScope(f) \/ Yield(f)
      PROVE  PollClean' /\ NoLostCancellation'
  <2>1. UNCHANGED <<subs, timers, dirty, request>> /\ stage = "run" /\ stage' \in {"host", "run"}
    BY <1>9 DEF StartChild, Call, ObserveDone, Observe, OpenScope, Yield, Does, Park
  <2> QED
    BY <1>k, <2>1 DEF Parked, PollClean
<1>10. ASSUME NEW f \in Frames, NEW T \in SUBSET Frames, NEW t \in Frames,
              RequestCancel(T) \/ RequestStop(t) \/ UNCHANGED <<request, dirty>>,
              Parked' = Parked, stage = "run", stage' \in {"host", "run"}
       PROVE  PollClean' /\ NoLostCancellation'
  <2>1. dirty' \/ (request' = request /\ dirty' = dirty)
    BY <1>10, RequestMarksDirty
  <2> QED
    BY <1>10, <1>k, <1>d, <2>1 DEF PollClean
<1>11. ASSUME NEW f \in Frames, NEW c \in Frames,
              CancelChild(f, c) \/ CloseDone(f, c) \/ CloseChild(f, c)
       PROVE  PollClean' /\ NoLostCancellation'
  <2>1. /\ UNCHANGED <<subs, timers>> /\ RequestCancel({c})
        /\ stage = "run" /\ stage' \in {"host", "run"}
    BY <1>11 DEF CancelChild, CloseDone, CloseChild, Does, Park
  <2>2. Parked' = Parked /\ {c} \in SUBSET Frames
    BY <2>1 DEF Parked
  <2> QED
    BY <1>10, <2>1, <2>2
<1>12. ASSUME NEW f \in Frames, NEW requestCancel \in BOOLEAN, CloseScope(f, requestCancel)
       PROVE  PollClean' /\ NoLostCancellation'
  <2> DEFINE T == IF requestCancel THEN Held(f) ELSE {}
  <2>1. /\ UNCHANGED <<subs, timers>> /\ RequestCancel(T)
        /\ stage = "run" /\ stage' \in {"host", "run"}
    BY <1>12 DEF CloseScope, Does, Park
  <2>2. Parked' = Parked /\ T \in SUBSET Frames
    BY <2>1 DEF Parked, Held, ToSet, TypeOK
  <2> QED
    BY <1>10, <2>1, <2>2
<1>13. ASSUME NEW f \in Frames, Stop(f)
       PROVE  PollClean' /\ NoLostCancellation'
  <2>1. /\ UNCHANGED <<subs, timers>> /\ RequestStop(task[f]) /\ task[f] \in Frames
        /\ stage = "run" /\ stage' \in {"host", "run"}
    BY <1>13, <1>t DEF Stop, Does
  <2>2. Parked' = Parked
    BY <2>1 DEF Parked
  <2> QED
    BY <1>10, <2>1, <2>2
<1>14. ASSUME NEW f \in Frames, NEW deadline \in 1..MaxTime, Sleep(f, deadline)
       PROVE  PollClean' /\ NoLostCancellation'
  <2> DEFINE e == [of |-> f, deadline |-> deadline]
  <2>1. /\ UNCHANGED <<subs, dirty, request>> /\ stage = "run" /\ stage' = "host"
        /\ ~CancelRequested(task[f]) /\ f \in Started
    BY <1>14, <1>t DEF Sleep, Does, Park
  <2>2. \A j \in DOMAIN timers' : timers'[j].of = f \/ \E k \in DOMAIN timers : timers'[j] = timers[k]
    <3>1. e \in Timer /\ e.of = f /\ timers \in Seq(Timer)
      BY TimeAssumption DEF Timer, TypeOK
    <3>2. PICK i \in 1..(Len(timers) + 1) : timers' = InsertAt(timers, i, e)
      BY <1>14 DEF Sleep, InsertTimer
    <3> HIDE DEF e
    <3>3. \A j \in DOMAIN timers' : timers'[j] = e \/ \E k \in DOMAIN timers : timers'[j] = timers[k]
      BY <3>1, <3>2, InsertAtElements
    <3> QED
      BY <3>1, <3>3
  <2>3. Parked' \subseteq Parked \cup {f}
    BY <2>1, <2>2 DEF Parked, ToSet
  <2>4. NoLostCancellation'
    BY <1>c, <1>p, <2>1, <2>3 DEF NoLostCancellation
  <2> QED
    BY <2>1, <2>4 DEF PollClean
<1>15. ASSUME NEW f \in Frames, NEW candidates \in SUBSET Frames, NEW accept \in BOOLEAN,
              Select(f, candidates, accept)
       PROVE  PollClean' /\ NoLostCancellation'
  <2>1. /\ UNCHANGED <<timers, dirty, request>> /\ stage = "run" /\ stage' = "host"
        /\ f \in Started /\ (accept => ~CancelRequested(task[f]))
        /\ subs' = IF accept THEN <<f>> \o subs ELSE subs
    BY <1>15, <1>t DEF Select, Does, Park
  <2>2. \A j \in DOMAIN (<<f>> \o subs) :
           (<<f>> \o subs)[j] = f \/ \E k \in DOMAIN subs : (<<f>> \o subs)[j] = subs[k]
    BY PushElements DEF TypeOK
  <2>3. Parked' \subseteq (IF accept THEN Parked \cup {f} ELSE Parked)
    BY <2>1, <2>2 DEF Parked, ToSet
  <2>4. NoLostCancellation'
    BY <1>c, <1>p, <2>1, <2>3 DEF NoLostCancellation
  <2> QED
    BY <2>1, <2>4 DEF PollClean
<1>16. ASSUME NEW f \in Frames, NEW outcome \in Outcomes,
              ReturnUnobserved(f, outcome) \/ ReturnToNode(f, outcome)
                \/ ReturnToSelection(f, outcome) \/ ReturnToCaller(f, outcome)
       PROVE  PollClean' /\ NoLostCancellation'
  <2>1. /\ Finish(f, outcome) /\ stage' \in {"host", "run"} /\ timers' = timers
        /\ subs' = subs \/ subs' = WithoutSubscription(waiter[f].of)
    BY <1>16
    DEF ReturnUnobserved, ReturnToNode, ReturnToSelection, ReturnToCaller, Finish
  <2>2. /\ task[f] \in Frames /\ stage = "run"
        /\ RequestStop(task[f]) \/ UNCHANGED <<request, dirty>>
    BY <2>1, <1>t DEF Finish
  <2>3. \A j \in DOMAIN subs' : \E k \in DOMAIN subs : subs'[j] = subs[k]
    BY <2>1, RemoveAtElements DEF TypeOK, WithoutSubscription
  <2>4. Parked' \subseteq Parked
    BY <2>1, <2>3 DEF Parked, ToSet
  <2>5. dirty' \/ (request' = request /\ dirty' = dirty)
    BY <2>2, RequestMarksDirty
  <2> QED
    BY <1>k, <1>d, <2>1, <2>2, <2>4, <2>5 DEF PollClean
<1>17. CASE Tick \/ UNCHANGED vars
  <2>1. UNCHANGED <<request, subs, timers, dirty, stage>>
    BY <1>17 DEF Tick
  <2> QED
    BY <1>k, <2>1 DEF Parked, PollClean
<1>18. CASE FrameNext
  BY <1>9, <1>11, <1>12, <1>13, <1>14, <1>15, <1>16, <1>18 DEF FrameNext
<1>19. CASE HostNext
  BY <1>1, <1>2, <1>3, <1>19 DEF HostNext
<1>20. CASE PollNext
  BY <1>4, <1>5, <1>6, <1>7, <1>20 DEF PollNext
<1> QED
  BY <1>8, <1>17, <1>18, <1>19, <1>20 DEF Next

\* Every step preserves the inductive invariant.
LEMMA NextIInv == IInv /\ [Next]_vars => IInv'
  BY TypeStep, KnownStep, CancellationStep DEF IInv

\* The inductive invariant holds in every reachable state.
LEMMA Invariance == Spec => []IInv
  BY InitIInv, NextIInv, PTL DEF Spec

\* Every reachable state is well typed.
THEOREM TypeCorrect == Spec => []TypeOK
  BY Invariance, PTL DEF IInv

\* No parked sleep or selection ever misses a cancellation of its task or of an
\* ancestor: until it is resumed the driver knows that one is pending.
THEOREM CancellationNotLost == Spec => []NoLostCancellation
  BY Invariance, PTL DEF IInv

\* When one poll finds both a request and an expiry, cancellation wins.
THEOREM CancellationFirst == Spec => CancellationBeatsExpiry
<1>1. IInv /\ [Next]_vars => [ExpireTimer => ~CancelRequested(task[Head(timers).of])]_vars
  <2> SUFFICES ASSUME IInv, ExpireTimer PROVE ~CancelRequested(task[Head(timers).of])
    OBVIOUS
  <2>1. stage = "due" /\ ~dirty
    BY DEF IInv, PollClean, ExpireTimer
  <2>2. Head(timers) = timers[1] /\ 1 \in DOMAIN timers
    BY TailElements DEF IInv, TypeOK, ExpireTimer, TimerDue
  <2> QED
    BY <2>1, <2>2 DEF IInv, NoLostCancellation, Parked
<1> QED
  BY <1>1, Invariance, PTL DEF Spec, CancellationBeatsExpiry
-----------------------------------------------------------------------------
(* A stop prevails.  The thread only runs frames of the root that is being  *)
(* advanced, which is unfinished, so no frame stops a root that has already *)
(* delivered, and a frame that returned stopped has left its request there. *)

\* A frame that was not started has no task and no completion.
Unborn == \A f \in Frames : status[f] = "cold" => task[f] = NoFrame /\ completion[f] = "none"

\* Frames are held and awaited by a frame above them; roots are not, and whatever
\* is held has started.
Below ==
    \A f \in Frames :
        /\ at[f].on # NoFrame => at[f].on \in Started \ Roots
        /\ \A i \in DOMAIN children[f] : children[f][i] \in Started \ Roots
RootsUnwaited == \A r \in Roots : waiter[r] = Unwaited

\* A task belongs to one root.
OneRoot ==
    /\ \A r \in Roots : status[r] # "cold" => task[r] = r /\ lineage[r] = {r}
    /\ \A f \in Started : \A r, q \in Roots :
         r \in lineage[task[f]] /\ q \in lineage[task[f]] => r = q

\* A caller shares the task of its callee.
Callers ==
    \A g \in Frames : waiter[g].kind = "handle" =>
        g \in Started /\ task[waiter[g].of] = task[g]

\* The root that is advanced is unfinished, and the frame that runs is one of its own.
OneActive ==
    /\ stage # "host" => active \in Roots /\ status[active] = "live"
    /\ stage = "run" => current \in Started /\ active \in lineage[task[current]]

\* A stopped completion is on record at the root.
StopRight ==
    \A f \in Started : \A r \in Roots :
        completion[f] = "stopped" /\ r \in lineage[task[f]] => request[r] = "Stopped"

Tree == Unborn /\ Below /\ RootsUnwaited /\ OneRoot /\ Callers /\ OneActive
SInv == IInv /\ Tree /\ StopRight /\ StopPrevails

\* The children a scope holds have started and are not roots.
LEMMA HeldBelow ==
    ASSUME Below, NEW f \in Frames, NEW c \in Held(f)
    PROVE  c \in Started \ Roots
  BY DEF Held, ToSet, Below

\* The frame that runs is a frame, has started and has a task.
LEMMA CurrentStarted ==
    ASSUME IInv, NEW f \in Frames, current = f
    PROVE  f \in Started /\ task[f] \in Frames
  BY FramesAssumption DEF IInv, KnownStarted, StartedTasks, Started

\* Whoever frees or finishes a frame, a root is freed by take_completion only, and
\* when an unfinished one finishes control is back at the host.
LEMMA RootStatus ==
    ASSUME IInv, Tree, [Next]_vars, NEW r \in Roots
    PROVE  /\ status'[r] = "freed" => status[r] = "freed" \/ TakeCompletion(r)
           /\ status[r] = "live" => status'[r] = "live" \/ stage' = "host"
<1> DEFINE Goal == /\ status'[r] = "freed" => status[r] = "freed" \/ TakeCompletion(r)
                   /\ status[r] = "live" => status'[r] = "live" \/ stage' = "host"
<1> SUFFICES Goal
  OBVIOUS
<1>0. status \in [Frames -> {"cold", "live", "done", "freed"}] /\ r \in Frames
  BY FramesAssumption DEF IInv, TypeOK
<1>s. ASSUME status'[r] = status[r] PROVE Goal
  BY <1>s
<1>1. CASE HostNext
  BY <1>0, <1>1, FramesAssumption DEF HostNext, StartRoot, CancelRoot, TakeCompletion, Advance
<1>2. CASE PollNext \/ Tick \/ UNCHANGED vars
  <2>1. status' = status
    BY <1>2 DEF PollNext, CancelSelection, CancelTimer, CancellationsDelivered, ExpireTimer, Tick
  <2> QED
    BY <2>1, <1>s
<1>3. CASE DispatchNext
  <2>0. ASSUME NEW i \in DOMAIN queue PROVE queue[i].of \in Frames
    <3>1. queue[i] \in WorkNode
      BY DEF IInv, TypeOK
    <3> QED
      BY <3>1 DEF WorkNode
  <2>1. ASSUME NEW i \in DOMAIN queue, DispatchFrame(i) PROVE Goal
    <3>1. r \notin Discarded(queue[i].of)
      BY <2>0, FramesAssumption DEF Discarded, Tree, Below
    <3> QED
      BY <1>0, <1>s, <2>1, <3>1 DEF DispatchFrame, Continue
  <2>2. ASSUME NEW i \in DOMAIN queue, NEW k \in DOMAIN children[queue[i].of],
               DispatchDrainBlocked(i, k)
        PROVE  Goal
    <3>1. \A j \in 1..(k - 1) : j \in DOMAIN children[queue[i].of]
      <4>1. children[queue[i].of] \in Seq(Frames)
        BY <2>0 DEF IInv, TypeOK
      <4> QED
        BY <4>1
    <3>2. ~\E j \in 1..(k - 1) : children[queue[i].of][j] = r
      BY <2>0, <3>1 DEF Tree, Below
    <3> QED
      BY <1>0, <1>s, <2>2, <3>2 DEF DispatchDrainBlocked
  <2>3. ASSUME NEW i \in DOMAIN queue, DispatchDrainClosed(i) PROVE Goal
    <3>1. ~\E j \in DOMAIN children[queue[i].of] : children[queue[i].of][j] = r
      BY <2>0 DEF Tree, Below
    <3> QED
      BY <1>0, <1>s, <2>3, <3>1 DEF DispatchDrainClosed
  <2>4. CASE NothingReady
    BY <1>s, <2>4 DEF NothingReady
  <2> QED
    BY <1>3, <2>1, <2>2, <2>3, <2>4 DEF DispatchNext
<1>4. ASSUME NEW f \in Frames, NEW c \in Frames,
             StartChild(f, c) \/ Call(f, c) \/ CancelChild(f, c) \/ ObserveDone(f, c)
               \/ Observe(f, c) \/ CloseDone(f, c) \/ CloseChild(f, c)
      PROVE  Goal
  <2>1. c \in Held(f) => c # r
    BY HeldBelow DEF Tree
  <2> QED
    BY <1>0, <1>4, <2>1
    DEF StartChild, Call, CancelChild, ObserveDone, Observe, CloseDone, CloseChild
<1>5. ASSUME NEW f \in Frames,
             \/ Yield(f) \/ \E deadline \in 1..MaxTime : Sleep(f, deadline)
             \/ OpenScope(f) \/ Stop(f)
             \/ \E candidates \in SUBSET Frames, accept \in BOOLEAN : Select(f, candidates, accept)
             \/ \E requestCancel \in BOOLEAN : CloseScope(f, requestCancel)
      PROVE  Goal
  BY <1>5, <1>s DEF Yield, Sleep, OpenScope, Stop, Select, CloseScope
<1>6. ASSUME NEW f \in Frames, NEW outcome \in Outcomes,
             ReturnUnobserved(f, outcome) \/ ReturnToNode(f, outcome)
               \/ ReturnToSelection(f, outcome)
      PROVE  Goal
  BY <1>0, <1>6 DEF ReturnUnobserved, ReturnToNode, ReturnToSelection
<1>7. ASSUME NEW f \in Frames, NEW outcome \in Outcomes, ReturnToCaller(f, outcome)
      PROVE  Goal
  <2>1. f # r
    BY <1>7 DEF ReturnToCaller, Tree, RootsUnwaited, Unwaited
  <2> QED
    BY <1>0, <1>7, <2>1 DEF ReturnToCaller, Continue
<1> HIDE DEF Goal
<1>8. CASE FrameNext
  BY <1>4, <1>5, <1>6, <1>7, <1>8 DEF FrameNext
<1> QED
  BY <1>1, <1>2, <1>3, <1>8 DEF Next
\* A frame that starts joins the root of the frame that starts it, or is a root.
LEMMA Births ==
    ASSUME IInv, Tree, [Next]_vars, NEW g \in Started', g \notin Started
    PROVE  /\ g \in Roots => task'[g] = g /\ lineage'[g] = {g}
           /\ g \notin Roots =>
                \E c \in Started : lineage'[task'[g]] \cap Roots = lineage[task[c]] \cap Roots
<1> DEFINE Goal == /\ g \in Roots => task'[g] = g /\ lineage'[g] = {g}
                   /\ g \notin Roots =>
                        \E c \in Started : lineage'[task'[g]] \cap Roots = lineage[task[c]] \cap Roots
<1> SUFFICES Goal
  OBVIOUS
<1>0. /\ g \in Frames /\ status[g] = "cold" /\ status'[g] # "cold"
      /\ task \in [Frames -> Frames \cup {NoFrame}] /\ lineage \in [Frames -> SUBSET Frames]
      /\ status \in [Frames -> {"cold", "live", "done", "freed"}]
  BY DEF Started, IInv, TypeOK
<1>c. ASSUME NEW f \in Frames, current = f
      PROVE  f \in Started /\ f # g /\ task[f] \in Started /\ task[f] # g /\ task[f] \in Frames
  BY <1>0, <1>c, CurrentStarted DEF IInv, StartedTasks, Started
<1>1. CASE HostNext
  BY <1>0, <1>1, FramesAssumption DEF HostNext, StartRoot, CancelRoot, TakeCompletion, Advance
<1>2. CASE PollNext \/ Tick \/ UNCHANGED vars
  <2>1. status' = status
    BY <1>2 DEF PollNext, CancelSelection, CancelTimer, CancellationsDelivered, ExpireTimer, Tick
  <2> QED
    BY <2>1, <1>0
<1>3. CASE DispatchNext
  <2>0. ASSUME NEW i \in DOMAIN queue PROVE queue[i].of \in Frames
    <3>1. queue[i] \in WorkNode
      BY DEF IInv, TypeOK
    <3> QED
      BY <3>1 DEF WorkNode
  <2>1. ASSUME NEW i \in DOMAIN queue, DispatchFrame(i) PROVE FALSE
    <3>1. g \notin Discarded(queue[i].of)
      BY <1>0, <2>0, FramesAssumption DEF Discarded, Tree, Below, Started
    <3> QED
      BY <1>0, <2>1, <3>1 DEF DispatchFrame, Continue
  <2>2. ASSUME NEW i \in DOMAIN queue, NEW k \in DOMAIN children[queue[i].of],
               DispatchDrainBlocked(i, k)
        PROVE  FALSE
    <3>1. \A j \in 1..(k - 1) : j \in DOMAIN children[queue[i].of]
      <4>1. children[queue[i].of] \in Seq(Frames)
        BY <2>0 DEF IInv, TypeOK
      <4> QED
        BY <4>1
    <3>2. ~\E j \in 1..(k - 1) : children[queue[i].of][j] = g
      BY <1>0, <2>0, <3>1 DEF Tree, Below, Started
    <3> QED
      BY <1>0, <2>2, <3>2 DEF DispatchDrainBlocked
  <2>3. ASSUME NEW i \in DOMAIN queue, DispatchDrainClosed(i) PROVE FALSE
    <3>1. ~\E j \in DOMAIN children[queue[i].of] : children[queue[i].of][j] = g
      BY <1>0, <2>0 DEF Tree, Below, Started
    <3> QED
      BY <1>0, <2>3, <3>1 DEF DispatchDrainClosed
  <2>4. CASE NothingReady
    BY <1>0, <2>4 DEF NothingReady
  <2> QED
    BY <1>3, <2>1, <2>2, <2>3, <2>4 DEF DispatchNext
<1>4. ASSUME NEW f \in Frames, NEW c \in Frames, StartChild(f, c) PROVE Goal
  <2>1. f \in Started /\ task[f] # g /\ task[f] \in Frames
    BY <1>4, <1>c DEF StartChild, Does
  <2>2. c = g /\ c \notin Roots /\ task'[g] = g /\ lineage'[g] = lineage[task[f]] \cup {g}
    BY <1>0, <1>4 DEF StartChild
  <2> QED
    BY <2>1, <2>2
<1>5. ASSUME NEW f \in Frames, NEW c \in Frames, Call(f, c) PROVE Goal
  <2>1. f \in Started /\ c = g /\ c \notin Roots /\ task'[g] = task[f] /\ lineage' = lineage
    BY <1>0, <1>5, <1>c DEF Call, Does
  <2> QED
    BY <2>1
<1>6. ASSUME NEW f \in Frames, NEW c \in Frames,
             CancelChild(f, c) \/ ObserveDone(f, c)
               \/ Observe(f, c) \/ CloseDone(f, c) \/ CloseChild(f, c)
      PROVE  FALSE
  BY <1>0, <1>6 DEF CancelChild, ObserveDone, Observe, CloseDone, CloseChild
<1>7. ASSUME NEW f \in Frames,
             \/ Yield(f) \/ \E deadline \in 1..MaxTime : Sleep(f, deadline)
             \/ OpenScope(f) \/ Stop(f)
             \/ \E candidates \in SUBSET Frames, accept \in BOOLEAN : Select(f, candidates, accept)
             \/ \E requestCancel \in BOOLEAN : CloseScope(f, requestCancel)
      PROVE  FALSE
  BY <1>0, <1>7 DEF Yield, Sleep, OpenScope, Stop, Select, CloseScope
<1>8. ASSUME NEW f \in Frames, NEW outcome \in Outcomes,
             ReturnUnobserved(f, outcome) \/ ReturnToNode(f, outcome)
               \/ ReturnToSelection(f, outcome) \/ ReturnToCaller(f, outcome)
      PROVE  FALSE
  <2>1. f # g
    BY <1>8, <1>c DEF ReturnUnobserved, ReturnToNode, ReturnToSelection, ReturnToCaller, Finish
  <2> QED
    BY <1>0, <1>8, <2>1
    DEF ReturnUnobserved, ReturnToNode, ReturnToSelection, ReturnToCaller, Continue
<1> HIDE DEF Goal
<1>9. CASE FrameNext
  BY <1>4, <1>5, <1>6, <1>7, <1>8, <1>9 DEF FrameNext
<1> QED
  BY <1>1, <1>2, <1>3, <1>9 DEF Next

\* Only the frame that runs, or a root that delivers, gets a completion; it is stopped
\* when a stop was recorded.
LEMMA Completions ==
    ASSUME IInv, [Next]_vars, NEW g \in Frames, completion'[g] # completion[g]
    PROVE  \/ TakeCompletion(g) /\ g \in Roots /\ completion'[g] = "stopped" /\ StopRequested(g)
           \/ current = g /\ stage = "run" /\ (completion'[g] = "stopped" => RequestStop(task[g]))
<1> DEFINE Goal ==
        \/ TakeCompletion(g) /\ g \in Roots /\ completion'[g] = "stopped" /\ StopRequested(g)
        \/ current = g /\ stage = "run" /\ (completion'[g] = "stopped" => RequestStop(task[g]))
<1> SUFFICES Goal
  OBVIOUS
<1>0. completion \in [Frames -> {"none", "settled", "stopped"}]
  BY DEF IInv, TypeOK
<1>1. CASE HostNext
  <2>1. PICK r \in Roots : TakeCompletion(r)
    BY <1>1 DEF HostNext, StartRoot, CancelRoot, Advance
  <2>2. r \in Frames /\ r = g /\ completion'[g] = "stopped" /\ StopRequested(g)
    BY <1>0, <2>1, FramesAssumption DEF TakeCompletion
  <2> QED
    BY <2>1, <2>2
<1>2. CASE PollNext \/ Tick \/ UNCHANGED vars
  BY <1>2 DEF PollNext, CancelSelection, CancelTimer, CancellationsDelivered, ExpireTimer, Tick
<1>3. CASE DispatchNext
  BY <1>3 DEF DispatchNext, DispatchFrame, DispatchDrainBlocked, DispatchDrainClosed, NothingReady
<1>4. ASSUME NEW f \in Frames, NEW c \in Frames,
             StartChild(f, c) \/ Call(f, c) \/ CancelChild(f, c) \/ ObserveDone(f, c)
               \/ Observe(f, c) \/ CloseDone(f, c) \/ CloseChild(f, c)
      PROVE  FALSE
  BY <1>4 DEF StartChild, Call, CancelChild, ObserveDone, Observe, CloseDone, CloseChild
<1>5. ASSUME NEW f \in Frames,
             \/ Yield(f) \/ \E deadline \in 1..MaxTime : Sleep(f, deadline)
             \/ OpenScope(f) \/ Stop(f)
             \/ \E candidates \in SUBSET Frames, accept \in BOOLEAN : Select(f, candidates, accept)
             \/ \E requestCancel \in BOOLEAN : CloseScope(f, requestCancel)
      PROVE  FALSE
  BY <1>5 DEF Yield, Sleep, OpenScope, Stop, Select, CloseScope
<1>6. ASSUME NEW f \in Frames, NEW outcome \in Outcomes,
             ReturnUnobserved(f, outcome) \/ ReturnToNode(f, outcome)
               \/ ReturnToSelection(f, outcome) \/ ReturnToCaller(f, outcome)
      PROVE  Goal
  <2>1. Finish(f, outcome)
    BY <1>6 DEF ReturnUnobserved, ReturnToNode, ReturnToSelection, ReturnToCaller
  <2>2. f = g /\ completion'[g] = outcome
    BY <1>0, <2>1 DEF Finish
  <2> QED
    BY <2>1, <2>2 DEF Finish
<1> HIDE DEF Goal
<1>7. CASE FrameNext
  BY <1>4, <1>5, <1>6, <1>7 DEF FrameNext
<1> QED
  BY <1>1, <1>2, <1>3, <1>7 DEF Next

\* A recorded stop stays.
LEMMA StopsStay ==
    ASSUME IInv, [Next]_vars, NEW r \in Frames, request[r] = "Stopped"
    PROVE  request'[r] = "Stopped"
<1>0. ASSUME NEW T \in SUBSET Frames, RequestCancel(T) PROVE request'[r] = "Stopped"
  BY <1>0 DEF RequestCancel
<1>t. ASSUME NEW t, RequestStop(t) PROVE request'[r] = "Stopped"
  BY <1>t DEF RequestStop
<1>1. CASE HostNext
  <2>1. \A q \in Roots : {q} \in SUBSET Frames
    BY FramesAssumption
  <2> QED
    BY <1>0, <1>1, <2>1 DEF HostNext, StartRoot, CancelRoot, TakeCompletion, Advance
<1>2. CASE PollNext \/ Tick \/ UNCHANGED vars
  BY <1>2 DEF PollNext, CancelSelection, CancelTimer, CancellationsDelivered, ExpireTimer, Tick
<1>3. CASE DispatchNext
  BY <1>3 DEF DispatchNext, DispatchFrame, DispatchDrainBlocked, DispatchDrainClosed, NothingReady
<1>4. ASSUME NEW f \in Frames, NEW c \in Frames,
             StartChild(f, c) \/ Call(f, c) \/ CancelChild(f, c) \/ ObserveDone(f, c)
               \/ Observe(f, c) \/ CloseDone(f, c) \/ CloseChild(f, c)
      PROVE  request'[r] = "Stopped"
  <2>1. {c} \in SUBSET Frames
    OBVIOUS
  <2> QED
    BY <1>0, <1>4, <2>1
    DEF StartChild, Call, CancelChild, ObserveDone, Observe, CloseDone, CloseChild
<1>5. ASSUME NEW f \in Frames,
             \/ Yield(f) \/ \E deadline \in 1..MaxTime : Sleep(f, deadline)
             \/ OpenScope(f)
             \/ \E candidates \in SUBSET Frames, accept \in BOOLEAN : Select(f, candidates, accept)
      PROVE  request'[r] = "Stopped"
  BY <1>5 DEF Yield, Sleep, OpenScope, Select
<1>6. ASSUME NEW f \in Frames, Stop(f) PROVE request'[r] = "Stopped"
  BY <1>t, <1>6 DEF Stop
<1>7. ASSUME NEW f \in Frames, NEW requestCancel \in BOOLEAN, CloseScope(f, requestCancel)
      PROVE  request'[r] = "Stopped"
  <2>1. (IF requestCancel THEN Held(f) ELSE {}) \in SUBSET Frames
    <3>1. children[f] \in Seq(Frames)
      BY DEF IInv, TypeOK
    <3> QED
      BY <3>1 DEF Held, ToSet
  <2> QED
    BY <1>0, <1>7, <2>1 DEF CloseScope
<1>8. ASSUME NEW f \in Frames, NEW outcome \in Outcomes,
             ReturnUnobserved(f, outcome) \/ ReturnToNode(f, outcome)
               \/ ReturnToSelection(f, outcome) \/ ReturnToCaller(f, outcome)
      PROVE  request'[r] = "Stopped"
  <2>1. Finish(f, outcome)
    BY <1>8 DEF ReturnUnobserved, ReturnToNode, ReturnToSelection, ReturnToCaller
  <2> QED
    BY <1>t, <2>1 DEF Finish
<1>9. CASE FrameNext
  BY <1>4, <1>5, <1>6, <1>7, <1>8, <1>9 DEF FrameNext
<1> QED
  BY <1>1, <1>2, <1>3, <1>9 DEF Next
\* What has not started is not touched.
LEMMA UnbornStep == ASSUME IInv, Tree, [Next]_vars PROVE Unborn'
<1> SUFFICES ASSUME NEW g \in Frames, status'[g] = "cold"
             PROVE  task'[g] = NoFrame /\ completion'[g] = "none"
  BY DEF Unborn
<1>0. status[g] = "cold" /\ task[g] = NoFrame /\ completion[g] = "none"
  BY StartedGrows DEF IInv, Started, Tree, Unborn
<1>t. task \in [Frames -> Frames \cup {NoFrame}]
      /\ status \in [Frames -> {"cold", "live", "done", "freed"}]
  BY DEF IInv, TypeOK
<1>1. completion'[g] = completion[g]
  <2>1. ASSUME TakeCompletion(g) PROVE FALSE
    BY <1>0, <2>1 DEF TakeCompletion
  <2>2. current # g
    BY <1>0, CurrentStarted DEF Started
  <2> QED
    BY <2>1, <2>2, Completions
<1>2. task'[g] = task[g]
  <2>1. CASE HostNext
    BY <1>0, <1>t, <2>1, FramesAssumption
    DEF HostNext, StartRoot, CancelRoot, TakeCompletion, Advance
  <2>2. CASE PollNext \/ Tick \/ UNCHANGED vars
    BY <2>2 DEF PollNext, CancelSelection, CancelTimer, CancellationsDelivered, ExpireTimer, Tick
  <2>3. CASE DispatchNext
    BY <2>3 DEF DispatchNext, DispatchFrame, DispatchDrainBlocked, DispatchDrainClosed, NothingReady
  <2>4. ASSUME NEW f \in Frames, NEW c \in Frames,
               StartChild(f, c) \/ Call(f, c) \/ CancelChild(f, c) \/ ObserveDone(f, c)
                 \/ Observe(f, c) \/ CloseDone(f, c) \/ CloseChild(f, c)
        PROVE  task'[g] = task[g]
    BY <1>0, <1>t, <2>4
    DEF StartChild, Call, CancelChild, ObserveDone, Observe, CloseDone, CloseChild
  <2>5. ASSUME NEW f \in Frames,
               \/ Yield(f) \/ \E deadline \in 1..MaxTime : Sleep(f, deadline)
               \/ OpenScope(f) \/ Stop(f)
               \/ \E candidates \in SUBSET Frames, accept \in BOOLEAN : Select(f, candidates, accept)
               \/ \E requestCancel \in BOOLEAN : CloseScope(f, requestCancel)
        PROVE  task'[g] = task[g]
    BY <2>5 DEF Yield, Sleep, OpenScope, Stop, Select, CloseScope
  <2>6. ASSUME NEW f \in Frames, NEW outcome \in Outcomes,
               ReturnUnobserved(f, outcome) \/ ReturnToNode(f, outcome)
                 \/ ReturnToSelection(f, outcome) \/ ReturnToCaller(f, outcome)
        PROVE  task'[g] = task[g]
    BY <2>6 DEF ReturnUnobserved, ReturnToNode, ReturnToSelection, ReturnToCaller
  <2> QED
    BY <2>1, <2>2, <2>3, <2>4, <2>5, <2>6 DEF Next, FrameNext
<1> QED
  BY <1>0, <1>1, <1>2

\* A new frame is below the root of its parent or caller.
LEMMA OneRootStep == ASSUME IInv, Tree, [Next]_vars PROVE OneRoot'
<1>g. /\ Started \subseteq Started'
      /\ \A f \in Started : task'[f] = task[f] /\ lineage'[f] = lineage[f]
  BY StartedGrows DEF IInv
<1>o. ASSUME NEW f \in Started PROVE lineage'[task'[f]] = lineage[task[f]]
  BY <1>g DEF IInv, StartedTasks
<1>1. ASSUME NEW r \in Roots, status'[r] # "cold" PROVE task'[r] = r /\ lineage'[r] = {r}
  <2>1. r \in Started'
    BY <1>1, FramesAssumption DEF Started
  <2>2. CASE r \in Started
    BY <1>g, <2>2 DEF Tree, OneRoot, Started
  <2> QED
    BY <2>1, <2>2, Births
<1>2. ASSUME NEW f \in Started', NEW r \in Roots, NEW q \in Roots,
             r \in lineage'[task'[f]], q \in lineage'[task'[f]]
      PROVE  r = q
  <2>1. CASE f \in Started
    BY <1>o, <1>2, <2>1 DEF Tree, OneRoot
  <2>2. CASE f \notin Started /\ f \in Roots
    BY <1>2, <2>2, Births
  <2>3. CASE f \notin Started /\ f \notin Roots
    <3>1. PICK c \in Started : lineage'[task'[f]] \cap Roots = lineage[task[c]] \cap Roots
      BY <2>3, Births
    <3>2. r \in lineage[task[c]] /\ q \in lineage[task[c]]
      BY <1>2, <3>1
    <3> QED
      BY <3>2 DEF Tree, OneRoot
  <2> QED
    BY <2>1, <2>2, <2>3
<1> QED
  BY <1>1, <1>2 DEF OneRoot

\* Awaits name started frames that are not roots, and scopes hold such frames.
LEMMA BelowStep == ASSUME IInv, Tree, [Next]_vars PROVE Below'
<1>g. Started \subseteq Started' /\ NoFrame \notin Roots /\ NoFrame \notin Frames
  BY StartedGrows, FramesAssumption DEF IInv
<1>t. at \in [Frames -> Points] /\ children \in [Frames -> Seq(Frames)]
  BY DEF IInv, TypeOK
<1> DEFINE Fine(p) == p.on # NoFrame => p.on \in Started' \ Roots
           Safe(s) == \A i \in DOMAIN s : s[i] \in Started' \ Roots
<1>b. ASSUME NEW f \in Frames PROVE Fine(at[f]) /\ Safe(children[f])
  BY <1>g DEF Tree, Below
<1>d. (\A f \in Frames : Fine(at'[f]) /\ Safe(children'[f])) => Below'
  BY DEF Below
<1>p. Fine(Running) /\ \A x : Fine(Point(x)) /\ \A c : c \in Started' \ Roots => Fine(PointOn(x, c))
  BY DEF Running, Point, PointOn
<1>e. Safe(<<>>)
  OBVIOUS
<1>u. ASSUME children' = children, NEW f \in Frames, NEW p, Fine(p), at' = [at EXCEPT ![f] = p]
      PROVE  Below'
  <2>1. ASSUME NEW q \in Frames PROVE Fine(at'[q]) /\ Safe(children'[q])
    BY <1>b, <1>t, <1>u, <2>1
  <2> QED
    BY <1>d, <2>1
<1>v. ASSUME at' = at, NEW f \in Frames, NEW s, Safe(s), children' = [children EXCEPT ![f] = s]
      PROVE  Below'
  <2>1. ASSUME NEW q \in Frames PROVE Fine(at'[q]) /\ Safe(children'[q])
    BY <1>b, <1>t, <1>v, <2>1
  <2> QED
    BY <1>d, <2>1
<1>w. ASSUME at' = at, children' = children PROVE Below'
  BY <1>b, <1>d, <1>w
<1>h. ASSUME NEW f \in Frames, NEW c \in Held(f) PROVE c \in Started' \ Roots
  BY <1>g, HeldBelow DEF Tree
<1> HIDE DEF Fine, Safe
<1>1. CASE HostNext
  <2>1. ASSUME NEW r \in Roots, StartRoot(r) PROVE Below'
    BY <1>p, <1>u, <2>1, FramesAssumption DEF StartRoot
  <2>2. ASSUME NEW r \in Roots, CancelRoot(r) \/ TakeCompletion(r) \/ Advance(r) PROVE Below'
    BY <1>w, <2>2 DEF CancelRoot, TakeCompletion, Advance
  <2> QED
    BY <1>1, <2>1, <2>2 DEF HostNext
<1>2. CASE PollNext \/ Tick \/ UNCHANGED vars
  <2>1. at' = at /\ children' = children
    BY <1>2 DEF PollNext, CancelSelection, CancelTimer, CancellationsDelivered, ExpireTimer, Tick
  <2> QED
    BY <1>w, <2>1
<1>3. CASE DispatchNext
  <2>0. ASSUME NEW i \in DOMAIN queue PROVE queue[i].of \in Frames
    <3>1. queue[i] \in WorkNode
      BY DEF IInv, TypeOK
    <3> QED
      BY <3>1 DEF WorkNode
  <2>1. ASSUME NEW i \in DOMAIN queue, DispatchFrame(i) PROVE Below'
    BY <1>p, <1>u, <2>0, <2>1 DEF DispatchFrame, Continue
  <2>2. ASSUME NEW i \in DOMAIN queue, NEW k \in DOMAIN children[queue[i].of],
               DispatchDrainBlocked(i, k)
        PROVE  Below'
    <3> DEFINE s == children[queue[i].of]
    <3>1. s \in Seq(Frames)
      BY <1>t, <2>0
    <3>2. Safe(s)
      BY <1>b, <2>0
    <3> HIDE DEF s
    <3>3. \A j \in DOMAIN SubSeq(s, k, Len(s)) :
            \E m \in DOMAIN s : SubSeq(s, k, Len(s))[j] = s[m]
      <4>1. k \in 1..Len(s) /\ Len(s) \in Nat
        BY <3>1 DEF s
      <4>2. \A j \in 1..(Len(s) - k + 1) : SubSeq(s, k, Len(s))[j] = s[k + j - 1]
        BY <3>1, <4>1
      <4>3. DOMAIN SubSeq(s, k, Len(s)) = 1..(Len(s) - k + 1)
        BY <3>1, <4>1
      <4>4. \A j \in 1..(Len(s) - k + 1) : k + j - 1 \in DOMAIN s
        BY <3>1, <4>1
      <4> QED
        BY <4>2, <4>3, <4>4
    <3>4. Safe(SubSeq(s, k, Len(s)))
      BY <3>2, <3>3 DEF Safe
    <3>5. at' = at /\ children' = [children EXCEPT ![queue[i].of] = SubSeq(s, k, Len(s))]
      BY <2>2 DEF DispatchDrainBlocked, s
    <3> QED
      BY <1>v, <2>0, <3>4, <3>5
  <2>3. ASSUME NEW i \in DOMAIN queue, DispatchDrainClosed(i) PROVE Below'
    BY <1>e, <1>v, <2>0, <2>3 DEF DispatchDrainClosed
  <2>4. CASE NothingReady
    BY <1>w, <2>4 DEF NothingReady
  <2> QED
    BY <1>3, <2>1, <2>2, <2>3, <2>4 DEF DispatchNext
<1>4. ASSUME NEW f \in Frames, NEW c \in Frames, StartChild(f, c) PROVE Below'
  <2>1. /\ c \notin Roots /\ status[c] = "cold" /\ status' = [status EXCEPT ![c] = "live"]
        /\ at' = [at EXCEPT ![c] = Point("start")]
        /\ children' = [children EXCEPT ![f] = <<c>> \o children[f]]
    BY <1>4 DEF StartChild
  <2>2. c \in Started'
    BY <2>1 DEF Started, IInv, TypeOK
  <2>3. children[f] \in Seq(Frames)
    BY <1>t
  <2>4. \A i \in DOMAIN (<<c>> \o children[f]) :
          \/ (<<c>> \o children[f])[i] = c
          \/ \E m \in DOMAIN children[f] : (<<c>> \o children[f])[i] = children[f][m]
    BY <2>3, PushElements
  <2>5. Safe(<<c>> \o children[f])
    BY <1>b, <2>1, <2>2, <2>4 DEF Safe
  <2>6. ASSUME NEW q \in Frames PROVE Fine(at'[q]) /\ Safe(children'[q])
    BY <1>b, <1>p, <1>t, <2>1, <2>5
  <2> QED
    BY <1>d, <2>6
<1>5. ASSUME NEW f \in Frames, NEW c \in Frames, Call(f, c) PROVE Below'
  <2>1. c \in Started' \ Roots
    BY <1>5 DEF Call, Started, IInv, TypeOK
  <2> QED
    BY <1>5, <1>p, <1>u, <2>1 DEF Call
<1>6. ASSUME NEW f \in Frames, NEW c \in Frames, Observe(f, c) \/ CloseChild(f, c) PROVE Below'
  <2>1. c \in Started' \ Roots
    BY <1>6, <1>h DEF Observe, CloseChild
  <2> QED
    BY <1>6, <1>p, <1>u, <2>1 DEF Observe, CloseChild, Park
<1>7. ASSUME NEW f \in Frames, NEW c \in Frames,
             CancelChild(f, c) \/ ObserveDone(f, c) \/ CloseDone(f, c)
      PROVE  Below'
  BY <1>7, <1>w DEF CancelChild, ObserveDone, CloseDone
<1>8. ASSUME NEW f \in Frames,
             \/ Yield(f) \/ \E deadline \in 1..MaxTime : Sleep(f, deadline)
             \/ \E candidates \in SUBSET Frames, accept \in BOOLEAN : Select(f, candidates, accept)
             \/ \E requestCancel \in BOOLEAN : CloseScope(f, requestCancel)
      PROVE  Below'
  BY <1>8, <1>p, <1>u DEF Yield, Sleep, Select, CloseScope, Park
<1>9. ASSUME NEW f \in Frames, OpenScope(f) \/ Stop(f) PROVE Below'
  BY <1>9, <1>w DEF OpenScope, Stop
<1>10. ASSUME NEW f \in Frames, NEW outcome \in Outcomes,
              ReturnUnobserved(f, outcome) \/ ReturnToNode(f, outcome)
                \/ ReturnToSelection(f, outcome)
       PROVE  Below'
  BY <1>10, <1>w DEF ReturnUnobserved, ReturnToNode, ReturnToSelection
<1>11. ASSUME NEW f \in Frames, NEW outcome \in Outcomes, ReturnToCaller(f, outcome)
       PROVE  Below'
  <2>1. waiter[f].of \in Frames
    <3>1. waiter[f] # Unwaited
      BY <1>11 DEF ReturnToCaller, Unwaited
    <3> QED
      BY <3>1 DEF IInv, KnownStarted, Started
  <2> QED
    BY <1>11, <1>p, <1>u, <2>1 DEF ReturnToCaller, Continue
<1>12. CASE FrameNext
  BY <1>4, <1>5, <1>6, <1>7, <1>8, <1>9, <1>10, <1>11, <1>12 DEF FrameNext
<1> QED
  BY <1>1, <1>2, <1>3, <1>12 DEF Next
\* How a step changes who waits for g: not at all, it is told or detached, a node or a
\* selection waits for a child, or a caller for its callee.
LEMMA WaiterChanges ==
    ASSUME IInv, Tree, [Next]_vars, NEW g \in Frames
    PROVE  \/ waiter'[g] = waiter[g] \/ waiter'[g] = Unwaited
           \/ g \in Started \ Roots /\ waiter'[g].kind # "handle"
           \/ /\ g \in Started' \ Roots
              /\ \E f \in Started : waiter'[g] = Transfer(f) /\ task'[g] = task[f]
<1> DEFINE Goal ==
        \/ waiter'[g] = waiter[g] \/ waiter'[g] = Unwaited
        \/ g \in Started \ Roots /\ waiter'[g].kind # "handle"
        \/ /\ g \in Started' \ Roots
           /\ \E f \in Started : waiter'[g] = Transfer(f) /\ task'[g] = task[f]
<1> SUFFICES Goal
  OBVIOUS
<1>t. waiter \in [Frames -> Waiter]
  BY DEF IInv, TypeOK
<1>w. ASSUME waiter' = waiter PROVE Goal
  BY <1>w
<1>k. \A f : /\ Wake(f).kind # "handle" /\ Drain(f).kind # "handle"
             /\ Registration(f).kind # "handle"
  BY DEF Wake, Drain, Registration
<1>r. ASSUME NEW f, waiter'[g] = WithoutRegistrations(f)[g] PROVE Goal
  BY <1>r DEF WithoutRegistrations
<1>1. CASE HostNext
  BY <1>w, <1>1 DEF HostNext, StartRoot, CancelRoot, TakeCompletion, Advance
<1>2. CASE PollNext \/ Tick \/ UNCHANGED vars
  <2>1. waiter' = waiter \/ \E f : waiter' = WithoutRegistrations(f)
    BY <1>2 DEF PollNext, CancelSelection, CancelTimer, CancellationsDelivered, ExpireTimer, Tick
  <2> QED
    BY <1>w, <1>r, <2>1
<1>3. CASE DispatchNext
  <2>0. ASSUME NEW i \in DOMAIN queue PROVE queue[i].of \in Frames
    <3>1. queue[i] \in WorkNode
      BY DEF IInv, TypeOK
    <3> QED
      BY <3>1 DEF WorkNode
  <2>1. ASSUME NEW i \in DOMAIN queue, DispatchFrame(i) \/ DispatchDrainClosed(i) PROVE Goal
    BY <1>w, <2>1 DEF DispatchFrame, DispatchDrainClosed
  <2>2. ASSUME NEW i \in DOMAIN queue, NEW k \in DOMAIN children[queue[i].of],
               DispatchDrainBlocked(i, k)
        PROVE  Goal
    <3>1. children[queue[i].of][k] \in Started \ Roots
      BY <2>0 DEF Tree, Below
    <3>2. waiter' = [waiter EXCEPT ![children[queue[i].of][k]] = Drain(queue[i].of)]
      BY <2>2 DEF DispatchDrainBlocked
    <3> QED
      BY <1>k, <1>t, <3>1, <3>2
  <2>3. CASE NothingReady
    BY <1>w, <2>3 DEF NothingReady
  <2> QED
    BY <1>3, <2>1, <2>2, <2>3 DEF DispatchNext
<1>4. ASSUME NEW f \in Frames, NEW c \in Frames, Observe(f, c) \/ CloseChild(f, c) PROVE Goal
  <2>1. c \in Started \ Roots /\ waiter' = [waiter EXCEPT ![c] = Wake(f)]
    BY <1>4, HeldBelow DEF Observe, CloseChild, Tree
  <2> QED
    BY <1>k, <1>t, <2>1
<1>5. ASSUME NEW f \in Frames, NEW c \in Frames, Call(f, c) PROVE Goal
  <2>1. /\ f \in Started /\ c \notin Roots
        /\ waiter' = [waiter EXCEPT ![c] = Transfer(f)] /\ task' = [task EXCEPT ![c] = task[f]]
    BY <1>5, CurrentStarted DEF Call, Does
  <2>2. c \in Started' /\ task'[c] = task[f] /\ waiter'[c] = Transfer(f)
    BY <1>5, <2>1 DEF Call, Started, IInv, TypeOK
  <2> QED
    BY <1>t, <2>1, <2>2
<1>6. ASSUME NEW f \in Frames, NEW candidates \in SUBSET Frames, NEW accept \in BOOLEAN,
             Select(f, candidates, accept)
      PROVE  Goal
  <2>1. waiter'[g] = IF g \in candidates THEN Registration(f) ELSE waiter[g]
    BY <1>6 DEF Select
  <2>2. g \in candidates => g \in Started \ Roots
    BY <1>6, HeldBelow DEF Select, Tree
  <2> QED
    BY <1>k, <2>1, <2>2
<1>7. ASSUME NEW f \in Frames, NEW c \in Frames,
             StartChild(f, c) \/ CancelChild(f, c) \/ ObserveDone(f, c) \/ CloseDone(f, c)
      PROVE  Goal
  BY <1>7, <1>w DEF StartChild, CancelChild, ObserveDone, CloseDone
<1>8. ASSUME NEW f \in Frames,
             \/ Yield(f) \/ \E deadline \in 1..MaxTime : Sleep(f, deadline)
             \/ OpenScope(f) \/ Stop(f)
             \/ \E requestCancel \in BOOLEAN : CloseScope(f, requestCancel)
      PROVE  Goal
  BY <1>8, <1>w DEF Yield, Sleep, OpenScope, Stop, CloseScope
<1>9. ASSUME NEW f \in Frames, NEW outcome \in Outcomes,
             ReturnUnobserved(f, outcome) \/ ReturnToNode(f, outcome) \/ ReturnToCaller(f, outcome)
      PROVE  Goal
  BY <1>9, <1>t DEF ReturnUnobserved, ReturnToNode, ReturnToCaller
<1>10. ASSUME NEW f \in Frames, NEW outcome \in Outcomes, ReturnToSelection(f, outcome)
       PROVE  Goal
  BY <1>10, <1>r DEF ReturnToSelection
<1> HIDE DEF Goal
<1>11. CASE FrameNext
  BY <1>4, <1>5, <1>6, <1>7, <1>8, <1>9, <1>10, <1>11 DEF FrameNext
<1> QED
  BY <1>1, <1>2, <1>3, <1>11 DEF Next

\* Roots are never waited for, and callers keep the task of their callees.
LEMMA WaitersStep == ASSUME IInv, Tree, [Next]_vars PROVE RootsUnwaited' /\ Callers'
<1>g. /\ Started \subseteq Started'
      /\ \A f \in Started : task'[f] = task[f] /\ lineage'[f] = lineage[f]
  BY StartedGrows DEF IInv
<1>1. ASSUME NEW r \in Roots PROVE waiter'[r] = Unwaited
  BY FramesAssumption, WaiterChanges DEF Tree, RootsUnwaited
<1>2. ASSUME NEW c \in Frames, waiter'[c].kind = "handle"
      PROVE  c \in Started' /\ task'[waiter'[c].of] = task'[c]
  <2>1. CASE waiter'[c] = waiter[c]
    <3>1. c \in Started /\ task[waiter[c].of] = task[c]
      BY <1>2, <2>1 DEF Tree, Callers
    <3>2. waiter[c].of \in Started
      BY <1>2, <2>1 DEF IInv, KnownStarted, Unwaited
    <3> QED
      BY <1>g, <2>1, <3>1, <3>2
  <2>2. waiter'[c] # Unwaited
    BY <1>2 DEF Unwaited
  <2>3. ASSUME c \in Started', NEW f \in Started, waiter'[c] = Transfer(f), task'[c] = task[f]
        PROVE  c \in Started' /\ task'[waiter'[c].of] = task'[c]
    BY <1>g, <2>3 DEF Transfer
  <2> QED
    BY <1>2, <2>1, <2>2, <2>3, WaiterChanges
<1> QED
  BY <1>1, <1>2 DEF RootsUnwaited, Callers

\* The thread stays with the root that is advanced until control is back at the host.
LEMMA OneActiveStep == ASSUME IInv, Tree, [Next]_vars PROVE OneActive'
<1>g. /\ Started \subseteq Started'
      /\ \A f \in Started : task'[f] = task[f] /\ lineage'[f] = lineage[f]
  BY StartedGrows DEF IInv
<1>o. ASSUME NEW f \in Started PROVE f \in Started' /\ lineage'[task'[f]] = lineage[task[f]]
  BY <1>g DEF IInv, StartedTasks
<1> DEFINE Goes == stage # "host" /\ active' = active
           Runs == stage' = "run" => current' \in Started' /\ active' \in lineage'[task'[current']]
<1>s. ASSUME stage' = stage, active' = active, current' = current
      PROVE  Runs /\ (stage' # "host" => Goes)
  BY <1>s, <1>o DEF Tree, OneActive
<1>h. ASSUME stage' = "host" PROVE Runs /\ (stage' # "host" => Goes)
  BY <1>h
<1>f. OneActive' \/ (Runs /\ (stage' # "host" => Goes))
  <2>1. ASSUME NEW r \in Roots, Advance(r) PROVE OneActive'
    <3>1. stage' # "run" /\ active' = r /\ status'[r] = "live"
      BY <2>1 DEF Advance
    <3> QED
      BY <3>1 DEF OneActive
  <2>2. ASSUME NEW r \in Roots, StartRoot(r) \/ CancelRoot(r) \/ TakeCompletion(r)
        PROVE  Runs /\ (stage' # "host" => Goes)
    BY <1>s, <2>2 DEF StartRoot, CancelRoot, TakeCompletion
  <2>3. CASE PollNext
    <3>1. CASE stage' = stage /\ active' = active /\ current' = current
      BY <1>s, <3>1
    <3>2. CASE CancellationsDelivered
      BY <3>2 DEF CancellationsDelivered
    <3> QED
      BY <2>3, <3>1, <3>2 DEF PollNext, CancelSelection, CancelTimer, ExpireTimer
  <2>4. CASE Tick \/ UNCHANGED vars
    BY <1>s, <2>4 DEF Tick
  <2>5. ASSUME NEW i \in DOMAIN queue, DispatchFrame(i) PROVE Runs /\ (stage' # "host" => Goes)
    <3>1. queue[i].of \in Started /\ active \in lineage[task[queue[i].of]]
      BY <2>5 DEF DispatchFrame, Selected, Owned, IInv, KnownStarted
    <3>2. current' = queue[i].of /\ stage = "due" /\ active' = active
      BY <2>5 DEF DispatchFrame, Selected, Continue
    <3> QED
      BY <1>o, <3>1, <3>2
  <2>6. ASSUME NEW i \in DOMAIN queue,
               \/ \E k \in DOMAIN children[queue[i].of] : DispatchDrainBlocked(i, k)
               \/ DispatchDrainClosed(i)
        PROVE  stage' = "host"
    BY <2>6 DEF DispatchDrainBlocked, DispatchDrainClosed
  <2>7. CASE NothingReady
    BY <1>h, <2>7 DEF NothingReady
  <2>8. ASSUME NEW f \in Frames, NEW c \in Frames,
               StartChild(f, c) \/ CancelChild(f, c) \/ ObserveDone(f, c) \/ CloseDone(f, c)
        PROVE  Runs /\ (stage' # "host" => Goes)
    BY <1>s, <2>8 DEF StartChild, CancelChild, ObserveDone, CloseDone
  <2>9. ASSUME NEW f \in Frames, NEW c \in Frames, Observe(f, c) \/ CloseChild(f, c)
        PROVE  Runs /\ (stage' # "host" => Goes)
    BY <1>h, <2>9 DEF Observe, CloseChild, Park
  <2>10. ASSUME NEW f \in Frames, NEW c \in Frames, Call(f, c)
         PROVE  Runs /\ (stage' # "host" => Goes)
    <3>1. /\ f \in Started /\ task[f] \in Started /\ active \in lineage[task[f]]
          /\ stage = "run" /\ active' = active /\ stage' = stage /\ current' = c
          /\ lineage' = lineage
      BY <2>10, CurrentStarted DEF Call, Does, Tree, OneActive, IInv, StartedTasks
    <3>2. c \in Started' /\ task'[c] = task[f]
      BY <2>10 DEF Call, Started, IInv, TypeOK
    <3> QED
      BY <3>1, <3>2
  <2>11. ASSUME NEW f \in Frames, OpenScope(f) \/ Stop(f)
         PROVE  Runs /\ (stage' # "host" => Goes)
    BY <1>s, <2>11 DEF OpenScope, Stop
  <2>12. ASSUME NEW f \in Frames,
             \/ Yield(f) \/ \E deadline \in 1..MaxTime : Sleep(f, deadline)
             \/ \E candidates \in SUBSET Frames, accept \in BOOLEAN : Select(f, candidates, accept)
             \/ \E requestCancel \in BOOLEAN : CloseScope(f, requestCancel)
         PROVE  Runs /\ (stage' # "host" => Goes)
    BY <1>h, <2>12 DEF Yield, Sleep, Select, CloseScope, Park
  <2>13. ASSUME NEW f \in Frames, NEW outcome \in Outcomes,
                ReturnUnobserved(f, outcome) \/ ReturnToNode(f, outcome)
                  \/ ReturnToSelection(f, outcome)
         PROVE  Runs /\ (stage' # "host" => Goes)
    BY <1>h, <2>13 DEF ReturnUnobserved, ReturnToNode, ReturnToSelection
  <2>14. ASSUME NEW f \in Frames, NEW outcome \in Outcomes, ReturnToCaller(f, outcome)
         PROVE  Runs /\ (stage' # "host" => Goes)
    <3>1. /\ current = f /\ stage = "run" /\ stage' = stage /\ active' = active
          /\ waiter[f].kind = "handle" /\ current' = waiter[f].of
      BY <2>14 DEF ReturnToCaller, Finish, Continue
    <3>2. waiter[f].of \in Started /\ task[waiter[f].of] = task[f]
      BY <3>1 DEF IInv, KnownStarted, Unwaited, Tree, Callers
    <3>3. active \in lineage[task[f]]
      BY <3>1 DEF Tree, OneActive
    <3> QED
      BY <1>o, <3>1, <3>2, <3>3
  <2> HIDE DEF Runs, Goes
  <2>15. CASE DispatchNext
    BY <1>h, <2>5, <2>6, <2>7, <2>15 DEF DispatchNext
  <2>16. CASE FrameNext
    BY <2>8, <2>9, <2>10, <2>11, <2>12, <2>13, <2>14, <2>16 DEF FrameNext
  <2> QED
    BY <2>1, <2>2, <2>3, <2>4, <2>15, <2>16 DEF Next, HostNext
<1>l. ASSUME stage' # "host", Goes PROVE active' \in Roots /\ status'[active'] = "live"
  BY <1>l, RootStatus DEF Tree, OneActive
<1> QED
  BY <1>f, <1>l DEF OneActive
\* Every step keeps the shape of the tree.
LEMMA TreeStep == IInv /\ Tree /\ [Next]_vars => Tree'
  BY UnbornStep, BelowStep, OneRootStep, WaitersStep, OneActiveStep DEF Tree

\* Whoever may return stopped has recorded it at the root of its task.
LEMMA StopRightStep == ASSUME IInv, Tree, StopRight, [Next]_vars PROVE StopRight'
<1>g. /\ Started \subseteq Started'
      /\ \A f \in Started : task'[f] = task[f] /\ lineage'[f] = lineage[f]
  BY StartedGrows DEF IInv
<1>o. ASSUME NEW f \in Started PROVE lineage'[task'[f]] = lineage[task[f]]
  BY <1>g DEF IInv, StartedTasks
<1> SUFFICES ASSUME NEW f \in Started', NEW r \in Roots,
                    completion'[f] = "stopped", r \in lineage'[task'[f]]
             PROVE  request'[r] = "Stopped"
  BY DEF StopRight
<1>0. f \in Frames /\ r \in Frames
  BY FramesAssumption DEF Started
<1>1. CASE completion[f] = "stopped"
  <2>1. f \in Started
    BY <1>0, <1>1 DEF Tree, Unborn, Started
  <2>2. request[r] = "Stopped"
    BY <1>o, <1>1, <2>1 DEF StopRight
  <2> QED
    BY <1>0, <2>2, StopsStay
<1>2. CASE completion[f] # "stopped" /\ TakeCompletion(f) /\ f \in Roots /\ StopRequested(f)
  <2>1. status[f] # "cold" /\ request' = request
    BY <1>2 DEF TakeCompletion
  <2>2. f \in Started /\ task[f] = f /\ lineage[f] = {f}
    BY <1>0, <1>2, <2>1 DEF Started, Tree, OneRoot
  <2>3. r = f
    BY <1>o, <2>2
  <2> QED
    BY <1>2, <2>1, <2>2, <2>3 DEF StopRequested
<1>3. CASE current = f /\ RequestStop(task[f])
  <2>1. f \in Started /\ r \in lineage[task[f]] \cap Roots
    BY <1>0, <1>3, <1>o, CurrentStarted
  <2> QED
    BY <1>0, <1>3, <2>1 DEF RequestStop
<1> QED
  BY <1>0, <1>1, <1>2, <1>3, Completions

\* A root that delivers reads the request, and nothing of it runs afterwards.
LEMMA StopPrevailsStep == ASSUME SInv, [Next]_vars PROVE StopPrevails'
<1> USE DEF SInv
<1>g. /\ Started \subseteq Started'
      /\ \A f \in Started : task'[f] = task[f] /\ lineage'[f] = lineage[f]
  BY StartedGrows DEF IInv
<1>o. ASSUME NEW f \in Started PROVE lineage'[task'[f]] = lineage[task[f]]
  BY <1>g DEF IInv, StartedTasks
<1> SUFFICES ASSUME NEW r \in Roots, status'[r] = "freed", completion'[r] # "stopped",
                    NEW f \in Frames, task'[f] # NoFrame, r \in lineage'[task'[f]],
                    completion'[f] = "stopped"
             PROVE  FALSE
  BY DEF StopPrevails
<1>0. r \in Frames /\ status[r] # "cold"
  BY FramesAssumption, RootStatus DEF TakeCompletion
<1>1. r \in Started /\ task[r] = r /\ lineage[r] = {r}
  BY <1>0 DEF Started, Tree, OneRoot
<1>2. CASE status[r] = "freed"
  <2>1. ASSUME NEW q \in Started, r \in lineage[task[q]] PROVE ~(current = q /\ stage = "run")
    <3>1. SUFFICES ASSUME current = q, stage = "run" PROVE FALSE
      OBVIOUS
    <3>2. active \in Roots /\ status[active] = "live" /\ active \in lineage[task[q]]
      BY <3>1 DEF Tree, OneActive
    <3>3. active = r
      BY <2>1, <3>2 DEF Tree, OneRoot
    <3> QED
      BY <1>2, <3>2, <3>3
  <2>2. completion[r] # "stopped"
    <3>1. ~TakeCompletion(r)
      BY <1>2 DEF TakeCompletion
    <3> QED
      BY <1>0, <1>1, <2>1, <3>1, Completions
  <2>3. f \in Started
    <3>1. CASE completion[f] = "stopped"
      BY <3>1 DEF Tree, Unborn, Started
    <3>2. CASE TakeCompletion(f)
      BY <3>2 DEF TakeCompletion, Started
    <3>3. CASE current = f
      BY <3>3, CurrentStarted
    <3> QED
      BY <3>1, <3>2, <3>3, Completions
  <2>4. r \in lineage[task[f]] /\ task[f] # NoFrame
    BY <1>o, <2>3, FramesAssumption DEF IInv, StartedTasks, Started
  <2>5. completion[f] # "stopped"
    BY <1>2, <2>2, <2>4 DEF StopPrevails
  <2>6. ASSUME TakeCompletion(f), f \in Roots PROVE FALSE
    <3>1. lineage[task[f]] = {f} /\ status[f] = "done"
      BY <2>3, <2>6 DEF TakeCompletion, Tree, OneRoot, Started
    <3> QED
      BY <1>2, <2>4, <3>1
  <2> QED
    BY <2>1, <2>3, <2>4, <2>5, <2>6, Completions
<1>3. CASE status[r] # "freed"
  <2>1. TakeCompletion(r)
    BY <1>3, RootStatus
  <2>2. f \in Started'
    BY UnbornStep DEF Unborn, Started
  <2>3. request'[r] = "Stopped"
    BY <2>2, StopRightStep DEF StopRight
  <2>4. StopRequested(r)
    BY <1>1, <2>1, <2>3 DEF TakeCompletion, StopRequested
  <2>5. completion'[r] = "stopped"
    BY <1>0, <2>1, <2>4 DEF TakeCompletion, IInv, TypeOK
  <2> QED
    BY <2>5
<1> QED
  BY <1>2, <1>3

\* Nothing has started: no frame holds, awaits or stopped another.
LEMMA InitSInv == Init => SInv
<1> SUFFICES ASSUME Init PROVE SInv
  OBVIOUS
<1>1. IInv
  BY InitIInv
<1>2. Unborn /\ RootsUnwaited /\ OneRoot /\ OneActive /\ StopRight /\ StopPrevails
  BY FramesAssumption
  DEF Init, Unborn, RootsUnwaited, OneRoot, OneActive, StopRight, StopPrevails, Started
<1>3. Below /\ Callers
  BY DEF Init, Below, Callers, Running, Unwaited
<1> QED
  BY <1>1, <1>2, <1>3 DEF SInv, Tree

\* For any task tree and any interleaving of roots: when a frame anywhere in the tree
\* of a root stopped, the host receives a stop, whatever the other frames returned
\* (execution.hpp:846).
THEOREM StopsPrevail == Spec => []StopPrevails
<1>1. SInv /\ [Next]_vars => SInv'
  BY NextIInv, TreeStep, StopRightStep, StopPrevailsStep DEF SInv
<1> QED
  BY <1>1, InitSInv, PTL DEF Spec, SInv

-----------------------------------------------------------------------------
(* Lists that hold an entry once, as sets.                                  *)

\* No two positions of a list hold the same entry.
Once(s) == \A i, j \in DOMAIN s : s[i] = s[j] => i = j

\* Linking a new entry at the tail.
LEMMA AppendOnce ==
    ASSUME NEW S, NEW s \in Seq(S), NEW e \in S
    PROVE  /\ Append(s, e) \in Seq(S)
           /\ ToSet(Append(s, e)) = ToSet(s) \cup {e}
           /\ Once(s) /\ e \notin ToSet(s) => Once(Append(s, e))
<1> DEFINE t == Append(s, e)
<1>1. /\ t \in Seq(S) /\ Len(t) = Len(s) + 1 /\ Len(s) \in Nat
      /\ DOMAIN s = 1..Len(s) /\ DOMAIN t = 1..(Len(s) + 1)
      /\ t[Len(s) + 1] = e /\ \A i \in 1..Len(s) : t[i] = s[i]
  OBVIOUS
<1> HIDE DEF t
<1>2. ToSet(t) = ToSet(s) \cup {e}
  BY <1>1 DEF ToSet
<1>3. Once(s) /\ e \notin ToSet(s) => Once(t)
  BY <1>1 DEF ToSet, Once
<1> QED
  BY <1>1, <1>2, <1>3 DEF t

\* Linking a new entry at the head.
LEMMA PushOnce ==
    ASSUME NEW S, NEW s \in Seq(S), NEW e \in S
    PROVE  /\ <<e>> \o s \in Seq(S)
           /\ ToSet(<<e>> \o s) = ToSet(s) \cup {e}
           /\ Once(s) /\ e \notin ToSet(s) => Once(<<e>> \o s)
<1> DEFINE t == <<e>> \o s
<1>1. /\ t \in Seq(S) /\ Len(t) = Len(s) + 1 /\ Len(s) \in Nat
      /\ DOMAIN s = 1..Len(s) /\ DOMAIN t = 1..(Len(s) + 1)
      /\ t[1] = e /\ \A i \in 1..Len(s) : t[i + 1] = s[i]
  OBVIOUS
<1> HIDE DEF t
<1>4. \A i \in DOMAIN t : i = 1 \/ (i - 1 \in DOMAIN s /\ t[i] = s[i - 1])
  BY <1>1
<1>2. ToSet(t) = ToSet(s) \cup {e}
  <2>1. ToSet(t) \subseteq ToSet(s) \cup {e}
    BY <1>1, <1>4 DEF ToSet
  <2>2. \A i \in DOMAIN s : i + 1 \in DOMAIN t /\ t[i + 1] = s[i]
    BY <1>1
  <2>3. 1 \in DOMAIN t
    BY <1>1
  <2>4. ASSUME NEW x \in ToSet(s) PROVE x \in ToSet(t)
    BY <2>2 DEF ToSet
  <2>5. e \in ToSet(t)
    BY <1>1, <2>3 DEF ToSet
  <2> QED
    BY <2>1, <2>4, <2>5
<1>3. Once(s) /\ e \notin ToSet(s) => Once(t)
  BY <1>1, <1>4 DEF ToSet, Once
<1> QED
  BY <1>1, <1>2, <1>3 DEF t

\* Unlinking an entry.
LEMMA RemoveAtOnce ==
    ASSUME NEW S, NEW s \in Seq(S), NEW i \in DOMAIN s, Once(s)
    PROVE  /\ RemoveAt(s, i) \in Seq(S)
           /\ ToSet(RemoveAt(s, i)) = ToSet(s) \ {s[i]}
           /\ Once(RemoveAt(s, i))
<1> DEFINE t == RemoveAt(s, i)
<1>1. /\ t \in Seq(S) /\ Len(t) = Len(s) - 1 /\ Len(s) \in Nat /\ i \in 1..Len(s)
      /\ DOMAIN s = 1..Len(s) /\ DOMAIN t = 1..(Len(s) - 1)
      /\ \A j \in 1..(Len(s) - 1) : t[j] = IF j < i THEN s[j] ELSE s[j + 1]
  BY RemoveAtProperties
<1> HIDE DEF t
<1>2. \A j \in DOMAIN t : \E k \in DOMAIN s : k # i /\ t[j] = s[k] /\ (k = j \/ k = j + 1)
                                                    /\ (k = j <=> j < i)
  BY <1>1
<1>3. \A k \in DOMAIN s : k # i => \E j \in DOMAIN t : t[j] = s[k]
  <2> SUFFICES ASSUME NEW k \in DOMAIN s, k # i PROVE \E j \in DOMAIN t : t[j] = s[k]
    OBVIOUS
  <2>1. CASE k < i
    BY <1>1, <2>1
  <2>2. CASE k > i
    <3>1. k - 1 \in DOMAIN t /\ ~(k - 1 < i) /\ (k - 1) + 1 = k
      BY <1>1, <2>2
    <3> QED
      BY <1>1, <3>1
  <2> QED
    BY <1>1, <2>1, <2>2
<1>4. ToSet(t) = ToSet(s) \ {s[i]}
  BY <1>2, <1>3 DEF ToSet, Once
<1>5. Once(t)
  <2> SUFFICES ASSUME NEW a \in DOMAIN t, NEW b \in DOMAIN t, t[a] = t[b] PROVE a = b
    BY DEF Once
  <2>1. PICK k \in DOMAIN s : t[a] = s[k] /\ (k = a \/ k = a + 1) /\ (k = a <=> a < i)
    BY <1>2
  <2>2. PICK m \in DOMAIN s : t[b] = s[m] /\ (m = b \/ m = b + 1) /\ (m = b <=> b < i)
    BY <1>2
  <2>3. k = m
    BY <2>1, <2>2 DEF Once
  <2> QED
    BY <1>1, <2>1, <2>2, <2>3
<1> QED
  BY <1>1, <1>4, <1>5 DEF t

\* Dropping entries from the head of a list.
LEMMA SuffixOnce ==
    ASSUME NEW S, NEW s \in Seq(S), NEW k \in DOMAIN s
    PROVE  /\ SubSeq(s, k, Len(s)) \in Seq(S)
           /\ ToSet(SubSeq(s, k, Len(s))) = {s[j] : j \in {j \in DOMAIN s : j >= k}}
<1> DEFINE t == SubSeq(s, k, Len(s))
<1>1. /\ t \in Seq(S) /\ Len(s) \in Nat /\ k \in 1..Len(s) /\ DOMAIN s = 1..Len(s)
      /\ DOMAIN t = 1..(Len(s) - k + 1) /\ \A j \in 1..(Len(s) - k + 1) : t[j] = s[(k + j) - 1]
  OBVIOUS
<1> HIDE DEF t
<1>2. \A j \in DOMAIN t : (k + j) - 1 \in DOMAIN s /\ (k + j) - 1 >= k
  BY <1>1
<1>3. \A j \in DOMAIN s : j >= k => (j - k) + 1 \in DOMAIN t /\ t[(j - k) + 1] = s[j]
  <2> SUFFICES ASSUME NEW j \in DOMAIN s, j >= k PROVE (j - k) + 1 \in DOMAIN t /\ t[(j - k) + 1] = s[j]
    OBVIOUS
  <2>1. (j - k) + 1 \in 1..(Len(s) - k + 1)
    BY <1>1
  <2>2. PICK m \in 1..(Len(s) - k + 1) : m = (j - k) + 1
    BY <2>1
  <2>3. (k + m) - 1 = j
    BY <1>1, <2>2
  <2>4. t[m] = s[(k + m) - 1]
    BY <1>1
  <2> QED
    BY <1>1, <2>2, <2>3, <2>4
<1>4. ToSet(t) = {s[j] : j \in {j \in DOMAIN s : j >= k}}
  BY <1>1, <1>2, <1>3 DEF ToSet
<1> QED
  BY <1>1, <1>4 DEF t

\* The frames a timer list will wake, and that it holds one entry for each.
Ofs(s) == {s[i].of : i \in DOMAIN s}
OncePerFrame(s) == \A i, j \in DOMAIN s : s[i].of = s[j].of => i = j

\* Unlinking a timer.
LEMMA RemoveTimer ==
    ASSUME NEW s \in Seq(Timer), NEW i \in DOMAIN s, OncePerFrame(s)
    PROVE  Ofs(RemoveAt(s, i)) = Ofs(s) \ {s[i].of} /\ OncePerFrame(RemoveAt(s, i))
<1> DEFINE t == RemoveAt(s, i)
<1>1. /\ t \in Seq(Timer) /\ Len(t) = Len(s) - 1 /\ Len(s) \in Nat /\ i \in 1..Len(s)
      /\ DOMAIN s = 1..Len(s) /\ DOMAIN t = 1..(Len(s) - 1)
      /\ \A j \in 1..(Len(s) - 1) : t[j] = IF j < i THEN s[j] ELSE s[j + 1]
  BY RemoveAtProperties
<1> HIDE DEF t
<1>2. \A j \in DOMAIN t : \E k \in DOMAIN s : /\ k # i /\ t[j] = s[k] /\ (k = j \/ k = j + 1)
                                              /\ (k = j <=> j < i)
  BY <1>1
<1>3. \A k \in DOMAIN s : k # i => \E j \in DOMAIN t : t[j] = s[k]
  <2> SUFFICES ASSUME NEW k \in DOMAIN s, k # i PROVE \E j \in DOMAIN t : t[j] = s[k]
    OBVIOUS
  <2>1. CASE k < i
    BY <1>1, <2>1
  <2>2. CASE k > i
    <3>1. k - 1 \in DOMAIN t /\ ~(k - 1 < i) /\ (k - 1) + 1 = k
      BY <1>1, <2>2
    <3> QED
      BY <1>1, <3>1
  <2> QED
    BY <1>1, <2>1, <2>2
<1>4. Ofs(t) = Ofs(s) \ {s[i].of}
  BY <1>2, <1>3 DEF Ofs, OncePerFrame
<1>5. OncePerFrame(t)
  <2> SUFFICES ASSUME NEW a \in DOMAIN t, NEW b \in DOMAIN t, t[a].of = t[b].of PROVE a = b
    BY DEF OncePerFrame
  <2>1. PICK k \in DOMAIN s : t[a] = s[k] /\ (k = a \/ k = a + 1) /\ (k = a <=> a < i)
    BY <1>2
  <2>2. PICK m \in DOMAIN s : t[b] = s[m] /\ (m = b \/ m = b + 1) /\ (m = b <=> b < i)
    BY <1>2
  <2>3. k = m
    BY <2>1, <2>2 DEF OncePerFrame
  <2> QED
    BY <1>1, <2>1, <2>2, <2>3
<1> QED
  BY <1>4, <1>5 DEF t

\* The first timer expires.
LEMMA ExpireFirst ==
    ASSUME NEW s \in Seq(Timer), s # <<>>, OncePerFrame(s)
    PROVE  /\ Head(s).of \in Ofs(s)
           /\ Ofs(Tail(s)) = Ofs(s) \ {Head(s).of} /\ OncePerFrame(Tail(s))
<1> DEFINE t == Tail(s)
<1>1. /\ Len(s) \in Nat /\ DOMAIN s = 1..Len(s) /\ 1 \in DOMAIN s /\ Head(s) = s[1]
      /\ DOMAIN t = 1..(Len(s) - 1) /\ \A j \in 1..(Len(s) - 1) : t[j] = s[j + 1]
  OBVIOUS
<1> HIDE DEF t
<1>2. \A j \in DOMAIN t : j + 1 \in DOMAIN s /\ t[j] = s[j + 1] /\ j + 1 # 1
  BY <1>1
<1>3. \A k \in DOMAIN s : k # 1 => k - 1 \in DOMAIN t /\ t[k - 1] = s[k]
  BY <1>1
<1>4. Ofs(t) = Ofs(s) \ {s[1].of}
  <2>1. ASSUME NEW x \in Ofs(t) PROVE x \in Ofs(s) \ {s[1].of}
    BY <1>1, <1>2 DEF Ofs, OncePerFrame
  <2>2. ASSUME NEW x \in Ofs(s) \ {s[1].of} PROVE x \in Ofs(t)
    BY <1>1, <1>3 DEF Ofs
  <2> QED
    BY <2>1, <2>2
<1>5. OncePerFrame(t)
  BY <1>1, <1>2 DEF OncePerFrame
<1>6. s[1].of \in Ofs(s)
  BY <1>1 DEF Ofs
<1> QED
  BY <1>1, <1>4, <1>5, <1>6 DEF t

\* A timer is linked for a frame that has none.
LEMMA InsertOne ==
    ASSUME NEW s \in Seq(Timer), NEW e \in Timer, NEW i \in 1..(Len(s) + 1),
           OncePerFrame(s), e.of \notin Ofs(s)
    PROVE  Ofs(InsertAt(s, i, e)) = Ofs(s) \cup {e.of} /\ OncePerFrame(InsertAt(s, i, e))
<1> DEFINE t == InsertAt(s, i, e)
<1>0. /\ t \in Seq(Timer) /\ Len(t) = Len(s) + 1
      /\ \A j \in 1..(Len(s) + 1) : t[j] = IF j < i THEN s[j] ELSE IF j = i THEN e ELSE s[j - 1]
  BY InsertAtProperties
<1> HIDE DEF t
<1>1. /\ Len(s) \in Nat /\ DOMAIN s = 1..Len(s) /\ DOMAIN t = 1..(Len(s) + 1)
      /\ \A j \in 1..(Len(s) + 1) : t[j] = IF j < i THEN s[j] ELSE IF j = i THEN e ELSE s[j - 1]
  BY <1>0
<1>2. \A j \in DOMAIN t : j = i \/ \E k \in DOMAIN s : /\ t[j] = s[k]
                                                       /\ (k = j /\ j < i) \/ (k = j - 1 /\ j > i)
  <2> SUFFICES ASSUME NEW j \in DOMAIN t, j # i
               PROVE  \E k \in DOMAIN s : t[j] = s[k] /\ ((k = j /\ j < i) \/ (k = j - 1 /\ j > i))
    OBVIOUS
  <2>1. CASE j < i
    <3>1. j \in DOMAIN s /\ t[j] = s[j]
      BY <1>1, <2>1
    <3> QED
      BY <2>1, <3>1
  <2>2. CASE j > i
    <3>1. j - 1 \in DOMAIN s /\ t[j] = s[j - 1]
      BY <1>1, <2>2
    <3> QED
      BY <2>2, <3>1
  <2> QED
    BY <1>1, <2>1, <2>2
<1>3. \A k \in DOMAIN s : \E j \in DOMAIN t : t[j] = s[k]
  <2> SUFFICES ASSUME NEW k \in DOMAIN s PROVE \E j \in DOMAIN t : t[j] = s[k]
    OBVIOUS
  <2>1. CASE k < i
    BY <1>1, <2>1
  <2>2. CASE k >= i
    <3>1. k + 1 \in DOMAIN t /\ ~(k + 1 < i) /\ k + 1 # i /\ (k + 1) - 1 = k
      BY <1>1, <2>2
    <3> QED
      BY <1>1, <3>1
  <2> QED
    BY <1>1, <2>1, <2>2
<1>4. i \in DOMAIN t /\ t[i] = e
  BY <1>1
<1>5. Ofs(t) = Ofs(s) \cup {e.of}
  <2>1. ASSUME NEW x \in Ofs(t) PROVE x \in Ofs(s) \cup {e.of}
    BY <1>2, <1>4 DEF Ofs
  <2>2. ASSUME NEW x \in Ofs(s) PROVE x \in Ofs(t)
    BY <1>3 DEF Ofs
  <2>3. e.of \in Ofs(t)
    BY <1>4 DEF Ofs
  <2> QED
    BY <2>1, <2>2, <2>3
<1>6. OncePerFrame(t)
  <2> SUFFICES ASSUME NEW a \in DOMAIN t, NEW b \in DOMAIN t, t[a].of = t[b].of PROVE a = b
    BY DEF OncePerFrame
  <2>1. \A k \in DOMAIN s : s[k].of # e.of
    BY DEF Ofs
  <2>2. a = i <=> b = i
    BY <1>2, <1>4, <2>1
  <2>3. CASE a # i
    <3>1. PICK k \in DOMAIN s : t[a] = s[k] /\ ((k = a /\ a < i) \/ (k = a - 1 /\ a > i))
      BY <1>2, <2>3
    <3>2. PICK m \in DOMAIN s : t[b] = s[m] /\ ((m = b /\ b < i) \/ (m = b - 1 /\ b > i))
      BY <1>2, <2>2, <2>3
    <3>3. k = m
      BY <3>1, <3>2 DEF OncePerFrame
    <3> QED
      BY <1>1, <3>1, <3>2, <3>3
  <2> QED
    BY <2>2, <2>3
<1> QED
  BY <1>5, <1>6 DEF t

-----------------------------------------------------------------------------
(* Every suspended frame is woken from exactly one place.  The places are   *)
(* the queue, the timers, the operation it awaits, a selection and its own  *)
(* scope; at says which of the last four it can be.                         *)

Nodes == ToSet(queue)
Sleepers == Ofs(timers)
Selecting(f) == \E c \in Frames : waiter[c] = Registration(f)
Awaiting(f) == \E c \in Frames : waiter[c] \in {Transfer(f), Wake(f)}
Armed(f) == f \in Sleepers \/ Awaiting(f) \/ Selecting(f) \/ scope[f] = "Closing"

\* The lists of the driver link each entry once.
Linked == Once(queue) /\ Once(subs) /\ OncePerFrame(timers)

\* Whatever may wake a frame is what the frame is parked in.
Parks == \A f \in Frames :
    /\ f \in Sleepers => at[f] = Point("timer")
    /\ scope[f] = "Closing" => at[f] = Point("scope")
    /\ f \in ToSet(subs) => Selecting(f)
    /\ \A c \in Frames :
         /\ waiter[c] = Registration(f) => at[f] = Point("select")
         /\ waiter[c] = Transfer(f) => at[f] = PointOn("call", c)
         /\ waiter[c] = Wake(f) => at[f] \in {PointOn("observe", c), PointOn("close", c)}

\* A frame is suspended while it is queued or armed, and never both.
Woken == \A f \in Frames :
    /\ Suspended(f) => Resume(f) \in Nodes \/ Armed(f)
    /\ Resume(f) \in Nodes => Suspended(f) /\ ~Armed(f)
    /\ Armed(f) => Suspended(f)

\* A closing scope has one drain, queued or waiting for a child.
Drains == \A f \in Frames :
    /\ scope[f] = "Closing" => Pump(f) \in Nodes \/ \E c \in Frames : waiter[c] = Drain(f)
    /\ Pump(f) \in Nodes => scope[f] = "Closing"
    /\ \A c \in Frames : waiter[c] = Drain(f) =>
         /\ scope[f] = "Closing" /\ Pump(f) \notin Nodes
         /\ \A d \in Frames : waiter[d] = Drain(f) => c = d

\* A child is a task of its own, of one scope, below the task of its owner.
Family ==
    /\ \A f, g, c \in Frames :
         c \in ToSet(children[f]) /\ c \in ToSet(children[g]) => f = g
    /\ \A f, c \in Frames : c \in ToSet(children[f]) =>
         task[c] = c /\ lineage[task[f]] \subseteq lineage[c]

\* An operation that is awaited is unfinished, and it is a callee or a child of
\* whoever waits for it.
Awaited == \A c \in Frames :
    /\ waiter[c] # Unwaited => status[c] = "live"
    /\ waiter[c].kind = "handle" => task[c] # c
    /\ waiter[c].kind \in {"resume", "pump", "select"} =>
         c \in ToSet(children[waiter[c].of])

\* A scope that holds children is not closed, and its frame has not returned.
ScopesOpen == \A f \in Frames :
    /\ scope[f] = "Closed" => children[f] = <<>>
    /\ scope[f] # "Closed" => status[f] = "live"

\* Nobody is observed in vain.
Ended == \A f, c \in Frames :
    Suspended(f) /\ at[f] \in {PointOn("observe", c), PointOn("close", c)}
      => waiter[c] = Wake(f) \/ status[c] # "live"

\* The thread runs an unfinished frame, inside dispatch_one.
CurrentLive ==
    /\ current # NoFrame => status[current] = "live"
    /\ stage # "run" => current = NoFrame

\* Children leave their scope when they have been consumed.
Kept == \A c \in Frames \ Roots :
    task[c] = c /\ status[c] \in {"live", "done"} => \E f \in Frames : c \in ToSet(children[f])

Wires == /\ Linked /\ Parks /\ Woken /\ Drains /\ Family /\ Awaited /\ ScopesOpen
         /\ Ended /\ CurrentLive /\ Kept

\* Nodes and waiters with different roles or owners differ.
LEMMA Distinct ==
    /\ \A f, g : /\ Resume(f) # Pump(g)
                 /\ Resume(f) = Resume(g) => f = g
                 /\ Pump(f) = Pump(g) => f = g
    /\ \A f, g : /\ Transfer(f) = Transfer(g) => f = g
                 /\ Wake(f) = Wake(g) => f = g
                 /\ Drain(f) = Drain(g) => f = g
                 /\ Registration(f) = Registration(g) => f = g
                 /\ Transfer(f) # Wake(g) /\ Transfer(f) # Drain(g)
                 /\ Transfer(f) # Registration(g) /\ Wake(f) # Drain(g)
                 /\ Wake(f) # Registration(g) /\ Drain(f) # Registration(g)
                 /\ Unwaited \notin {Transfer(f), Wake(f), Drain(f), Registration(f)}
    /\ \A f : /\ Transfer(f).kind = "handle" /\ Wake(f).kind = "resume"
              /\ Drain(f).kind = "pump" /\ Registration(f).kind = "select"
              /\ Transfer(f).of = f /\ Wake(f).of = f /\ Drain(f).of = f
              /\ Registration(f).of = f
    /\ Unwaited.kind = "none" /\ Unwaited.of = NoFrame
  BY DEF Resume, Pump, Transfer, Wake, Drain, Registration, Unwaited

\* So do the points a frame may be parked in.
LEMMA Apart ==
    /\ \A p, q : p # q => Point(p) # Point(q)
    /\ \A p, q, c, d : PointOn(p, c) = PointOn(q, d) => p = q /\ c = d
    /\ \A p, q, c : p # q => PointOn(p, c) # Point(q)
    /\ \A p, c : p # "none" => PointOn(p, c) # Running /\ Point(p) # Running
    /\ \A p, c : Point(p).on = NoFrame /\ PointOn(p, c).on = c
  BY DEF Point, PointOn, Running

\* What the frame that runs cannot be: queued, or known to a waiter.
LEMMA RunnerFree ==
    ASSUME IInv, Wires, NEW f \in Frames, current = f
    PROVE  /\ status[f] = "live" /\ Resume(f) \notin Nodes /\ f \notin Sleepers
           /\ f \notin ToSet(subs) /\ scope[f] # "Closing" /\ Pump(f) \notin Nodes
           /\ \A c \in Frames : waiter[c] \notin {Transfer(f), Wake(f), Drain(f), Registration(f)}
<1>1. status[f] = "live" /\ ~Suspended(f)
  BY FramesAssumption DEF Wires, CurrentLive, Suspended
<1>2. Resume(f) \notin Nodes /\ ~Armed(f)
  BY <1>1 DEF Wires, Woken
<1>3. f \notin ToSet(subs)
  BY <1>2 DEF Wires, Parks, Armed
<1>4. Pump(f) \notin Nodes /\ \A c \in Frames : waiter[c] # Drain(f)
  BY <1>2 DEF Wires, Drains, Armed
<1> QED
  BY <1>1, <1>2, <1>3, <1>4 DEF Armed, Awaiting, Selecting

\* A yield queues a frame that was running.
LEMMA YieldWires ==
    ASSUME IInv, Wires, NEW f \in Frames, Yield(f)
    PROVE  Wires'
<1>t. /\ queue \in Seq(WorkNode) /\ Resume(f) \in WorkNode
      /\ at \in [Frames -> Points] /\ current = f /\ stage = "run"
  BY DEF IInv, TypeOK, Resume, WorkNode, Yield, Does
<1>f. /\ status[f] = "live" /\ Resume(f) \notin Nodes /\ f \notin Sleepers
           /\ f \notin ToSet(subs) /\ scope[f] # "Closing" /\ Pump(f) \notin Nodes
           /\ \A c \in Frames : waiter[c] \notin {Transfer(f), Wake(f), Drain(f), Registration(f)}
  BY <1>t, RunnerFree
<1>n. Nodes' = Nodes \cup {Resume(f)} /\ Once(queue')
  BY <1>t, <1>f, AppendOnce DEF Nodes, Wires, Linked, Yield
<1>u. /\ waiter' = waiter /\ subs' = subs /\ timers' = timers /\ scope' = scope /\ children' = children
      /\ task' = task /\ lineage' = lineage /\ status' = status
      /\ at' = [at EXCEPT ![f] = Point("yield")]
      /\ current' = NoFrame /\ stage' = "host" /\ Sleepers' = Sleepers
  BY DEF Yield, Park, Sleepers
<1>1. Linked'
  BY <1>n, <1>u DEF Wires, Linked
<1>2. Parks'
  BY <1>t, <1>u, <1>f DEF Wires, Parks, Selecting
<1>3. Woken'
  BY <1>t, <1>u, <1>f, <1>n, FramesAssumption, Distinct DEF Wires, Woken, Suspended, Armed, Awaiting, Selecting
<1>4. Drains'
  BY <1>u, <1>n, Distinct DEF Wires, Drains
<1>5. Family' /\ Awaited' /\ ScopesOpen' /\ Kept'
  BY <1>u DEF Wires, Family, Awaited, ScopesOpen, Kept
<1>6. Ended'
  BY <1>t, <1>u, <1>f, FramesAssumption DEF Wires, Ended, Suspended, Point, PointOn
<1>7. CurrentLive'
  BY <1>u DEF CurrentLive
<1> QED
  BY <1>1, <1>2, <1>3, <1>4, <1>5, <1>6, <1>7 DEF Wires

\* What a scope holds has started and is no root, and its frame is unfinished.
LEMMA Holders ==
    ASSUME IInv, Tree, Wires, NEW f \in Frames, NEW c \in ToSet(children[f])
    PROVE  /\ c \in Started /\ c \in Frames /\ c \notin Roots
           /\ status[f] = "live" /\ f \in Started /\ task[f] \in Started /\ task[f] \in Frames
<1>1. c \in Started \ Roots
  BY DEF Tree, Below, ToSet
<1>2. children[f] # <<>>
  BY DEF ToSet
<1>3. status[f] = "live"
  BY <1>2 DEF Wires, ScopesOpen
<1> QED
  BY <1>1, <1>3 DEF Started, IInv, StartedTasks

\* An owner that runs, or whose drain is queued, waits for none of its children.
LEMMA HeldUnwaited ==
    ASSUME IInv, Wires, NEW f \in Frames, f = current \/ Pump(f) \in Nodes,
           NEW c \in Frames, c \in ToSet(children[f])
    PROVE  waiter[c] = Unwaited
<1> SUFFICES ASSUME waiter[c] # Unwaited PROVE FALSE
  OBVIOUS
<1>1. waiter[c] \in Waiter /\ task[c] = c
  BY DEF IInv, TypeOK, Wires, Family
<1>2. waiter[c].kind \in {"resume", "pump", "select"} /\ waiter[c].of \in Frames
  BY <1>1 DEF Wires, Awaited, Waiter
<1>3. waiter[c].of = f
  BY <1>2 DEF Wires, Awaited, Family
<1>4. waiter[c] \in {Wake(f), Drain(f), Registration(f)}
  BY <1>1, <1>2, <1>3 DEF Waiter, Wake, Drain, Registration, Unwaited
<1>5. CASE f = current
  BY <1>4, <1>5, RunnerFree
<1>6. CASE Pump(f) \in Nodes
  <2>1. scope[f] = "Closing" /\ waiter[c] # Drain(f)
    BY <1>6 DEF Wires, Drains
  <2>2. at[f] = Point("scope")
    BY <2>1 DEF Wires, Parks
  <2>3. waiter[c] = Wake(f) => at[f].on = c
    BY <2>2, Apart DEF Wires, Parks
  <2>4. waiter[c] = Registration(f) => at[f] = Point("select")
    BY DEF Wires, Parks
  <2>5. at[f].on = NoFrame /\ c # NoFrame /\ Point("select") # Point("scope")
    BY <2>2, Apart, FramesAssumption
  <2> QED
    BY <1>4, <2>1, <2>2, <2>3, <2>4, <2>5
<1> QED
  BY <1>5, <1>6

\* Steps that leave frames, waiters and lists alone.
LEMMA QuietWires ==
    ASSUME Wires,
           UNCHANGED <<status, at, waiter, task, lineage, scope, children, queue, timers, subs, current>>,
           stage' # "run" => current = NoFrame
    PROVE  Wires'
<1>1. Nodes' = Nodes /\ Sleepers' = Sleepers
  BY DEF Nodes, Sleepers
<1>2. Linked' /\ Parks' /\ Woken' /\ Drains'
  BY <1>1 DEF Wires, Linked, Parks, Woken, Drains, Suspended, Armed, Awaiting, Selecting
<1>3. Family' /\ Awaited' /\ ScopesOpen' /\ Ended' /\ Kept' /\ CurrentLive'
  BY DEF Wires, Family, Awaited, ScopesOpen, Ended, Kept, CurrentLive, Suspended
<1> QED
  BY <1>2, <1>3 DEF Wires

\* A finished frame is consumed: by take_completion, observe or close.
LEMMA ConsumeWires ==
    ASSUME IInv, Wires, NEW c \in Frames, status[c] = "done",
           status' = [status EXCEPT ![c] = "freed"],
           UNCHANGED <<at, waiter, task, lineage, scope, children, queue, timers, subs, current, stage>>
    PROVE  Wires'
<1>t. status \in [Frames -> {"cold", "live", "done", "freed"}]
  BY DEF IInv, TypeOK
<1>0. Nodes' = Nodes /\ Sleepers' = Sleepers
  BY DEF Nodes, Sleepers
<1>1. \A f \in Frames : (status'[f] = "live" <=> status[f] = "live")
                        /\ (status'[f] = "done" => status[f] = "done")
  BY <1>t
<1>2. Linked' /\ Parks' /\ Woken' /\ Drains'
  BY <1>0, <1>1 DEF Wires, Linked, Parks, Woken, Drains, Suspended, Armed, Awaiting, Selecting
<1>3. Family' /\ Awaited' /\ ScopesOpen' /\ Ended' /\ Kept'
  BY <1>1 DEF Wires, Family, Awaited, ScopesOpen, Ended, Kept, Suspended
<1>4. CurrentLive'
  BY <1>1 DEF IInv, TypeOK, Wires, CurrentLive
<1> QED
  BY <1>2, <1>3, <1>4 DEF Wires

\* A Root is constructed: its body is queued and suspended at its start.
LEMMA StartRootWires ==
    ASSUME IInv, Tree, Wires, NEW r \in Roots, StartRoot(r)
    PROVE  Wires'
<1>t. /\ r \in Frames /\ queue \in Seq(WorkNode) /\ Resume(r) \in WorkNode
      /\ at \in [Frames -> Points] /\ status \in [Frames -> {"cold", "live", "done", "freed"}]
      /\ task \in [Frames -> Frames \cup {NoFrame}] /\ lineage \in [Frames -> SUBSET Frames]
      /\ stage = "host" /\ current = NoFrame /\ status[r] = "cold" /\ r # NoFrame
  BY FramesAssumption DEF IInv, TypeOK, Resume, WorkNode, StartRoot, Wires, CurrentLive
<1>f. ~Armed(r) /\ Resume(r) \notin Nodes /\ waiter[r] = Unwaited /\ scope[r] = "Closed"
  BY <1>t DEF Wires, Woken, Suspended, Awaited, ScopesOpen, IInv, TypeOK
<1>n. Nodes' = Nodes \cup {Resume(r)} /\ Once(queue')
  BY <1>t, <1>f, AppendOnce DEF Nodes, Wires, Linked, StartRoot
<1>u. /\ waiter' = waiter /\ subs' = subs /\ timers' = timers /\ scope' = scope /\ children' = children
      /\ status' = [status EXCEPT ![r] = "live"] /\ task' = [task EXCEPT ![r] = r]
      /\ lineage' = [lineage EXCEPT ![r] = {r}]
      /\ at' = [at EXCEPT ![r] = Point("start")]
      /\ current' = NoFrame /\ stage' = "host" /\ Sleepers' = Sleepers
  BY <1>t DEF StartRoot, Sleepers
<1>1. Linked'
  BY <1>n, <1>u DEF Wires, Linked
<1>2. Parks'
  BY <1>t, <1>u, <1>f DEF Wires, Parks, Armed, Awaiting, Selecting
<1>3. Woken'
  <2>1. ASSUME NEW g \in Frames PROVE Armed(g)' <=> Armed(g)
    BY <1>t, <1>u DEF Armed, Awaiting, Selecting
  <2>2. \A g \in Frames : Resume(g) \in Nodes' <=> Resume(g) \in Nodes \/ g = r
    <3>1. \A g \in Frames : Resume(g) = Resume(r) <=> g = r
      BY Distinct
    <3> QED
      BY <1>n, <3>1
  <2>3. \A g \in Frames : Suspended(g)' <=> Suspended(g) \/ g = r
    BY <1>t, <1>u DEF Suspended
  <2> QED
    BY <1>f, <2>1, <2>2, <2>3 DEF Wires, Woken
<1>4. Drains'
  BY <1>u, <1>n, Distinct DEF Wires, Drains
<1>5. Family'
  <2>1. ASSUME NEW g \in Frames, NEW c \in ToSet(children[g])
        PROVE  c # r /\ g # r /\ task[g] # r /\ c \in Frames
    BY <1>t, Holders DEF Started
  <2> QED
    BY <1>t, <1>u, <2>1 DEF Wires, Family
<1>6. Awaited' /\ ScopesOpen'
  BY <1>t, <1>u, <1>f DEF Wires, Awaited, ScopesOpen, Unwaited
<1>7. Ended'
  <2>1. \A g \in Frames : at[g].on # r
    BY <1>t DEF Tree, Below, Started
  <2> QED
    BY <1>t, <1>u, <2>1 DEF Wires, Ended, Suspended, Point, PointOn
<1>8. CurrentLive' /\ Kept'
  BY <1>t, <1>u DEF Wires, CurrentLive, Kept
<1> QED
  BY <1>1, <1>2, <1>3, <1>4, <1>5, <1>6, <1>7, <1>8 DEF Wires

\* A cancelled selection is detached from its candidates and queued.
LEMMA CancelSelectionWires ==
    ASSUME IInv, Tree, Wires, NEW i \in DOMAIN subs, CancelSelection(i)
    PROVE  Wires'
<1>0. PICK f \in Frames : f = subs[i]
  BY DEF IInv, TypeOK
<1>t. /\ subs \in Seq(Frames) /\ queue \in Seq(WorkNode) /\ Resume(f) \in WorkNode
      /\ waiter \in [Frames -> Waiter] /\ f \in ToSet(subs)
      /\ stage = "cancel" /\ current = NoFrame
  BY <1>0 DEF IInv, TypeOK, Resume, WorkNode, CancelSelection, Wires, CurrentLive, ToSet
<1>s. RemoveAt(subs, i) \in Seq(Frames) /\ ToSet(RemoveAt(subs, i)) = ToSet(subs) \ {f}
      /\ Once(RemoveAt(subs, i))
  BY <1>0, <1>t, RemoveAtOnce DEF Wires, Linked
<1>u. /\ timers' = timers /\ scope' = scope /\ children' = children
      /\ status' = status /\ task' = task /\ lineage' = lineage /\ at' = at
      /\ current' = NoFrame /\ stage' = stage /\ Sleepers' = Sleepers
      /\ waiter' = [c \in Frames |-> IF waiter[c] = Registration(f) THEN Unwaited ELSE waiter[c]]
      /\ subs' = RemoveAt(subs, i) /\ queue' = Append(queue, Resume(f))
  BY <1>0, <1>t DEF CancelSelection, Sleepers, WithoutRegistrations
<1>f. at[f] = Point("select") /\ Selecting(f) /\ Resume(f) \notin Nodes /\ Suspended(f)
  BY <1>t DEF Wires, Parks, Woken, Armed, Selecting
<1>n. Nodes' = Nodes \cup {Resume(f)} /\ Once(queue')
  BY <1>t, <1>f, <1>u, AppendOnce DEF Nodes, Wires, Linked
<1>g. /\ f \notin Sleepers /\ scope[f] # "Closing"
      /\ \A c \in Frames : waiter[c] \notin {Transfer(f), Wake(f)}
  <2>1. Point("select") # Point("timer") /\ Point("select") # Point("scope")
    BY Apart
  <2>2. \A c \in Frames : /\ Point("select") # PointOn("call", c) /\ Point("select") # PointOn("observe", c)
                         /\ Point("select") # PointOn("close", c)
    BY Apart
  <2> QED
    BY <1>f, <1>t, <2>1, <2>2 DEF Wires, Parks
<1>1. Linked'
  BY <1>n, <1>u, <1>s DEF Wires, Linked
<1>2. Parks'
  BY <1>t, <1>u, <1>s, Distinct DEF Wires, Parks, Selecting
<1>3. Woken'
  <2>1. ~Armed(f)'
    BY <1>t, <1>u, <1>g, Distinct DEF Armed, Awaiting, Selecting
  <2>2. ASSUME NEW g \in Frames, g # f PROVE Armed(g)' <=> Armed(g)
    BY <1>t, <1>u, <2>2, Distinct DEF Armed, Awaiting, Selecting
  <2> QED
    BY <1>t, <1>u, <1>f, <1>n, <2>1, <2>2, Distinct DEF Wires, Woken, Suspended
<1>4. Drains'
  BY <1>u, <1>n, Distinct DEF Wires, Drains
<1>5. Family' /\ ScopesOpen' /\ Kept' /\ CurrentLive'
  BY <1>t, <1>u DEF Wires, Family, ScopesOpen, Kept, CurrentLive
<1>6. Awaited'
  BY <1>u, Distinct DEF Wires, Awaited
<1>7. Ended'
  BY <1>u, <1>t, Distinct DEF Wires, Ended, Suspended
<1> QED
  BY <1>1, <1>2, <1>3, <1>4, <1>5, <1>6, <1>7 DEF Wires

\* A timer leaves the list, cancelled or due, and its frame is queued.
LEMMA UnparkWires ==
    ASSUME IInv, Tree, Wires, NEW f \in Sleepers,
           Sleepers' = Sleepers \ {f}, OncePerFrame(timers'), queue' = Append(queue, Resume(f)),
           UNCHANGED <<status, at, waiter, task, lineage, scope, children, subs, current, stage>>
    PROVE  Wires'
<1>t. f \in Frames /\ queue \in Seq(WorkNode) /\ Resume(f) \in WorkNode
  <2>1. PICK i \in DOMAIN timers : f = timers[i].of
    BY DEF Sleepers, Ofs
  <2>2. timers[i] \in Timer
    BY DEF IInv, TypeOK
  <2> QED
    BY <2>1, <2>2 DEF IInv, TypeOK, Resume, WorkNode, Timer
<1>f. at[f] = Point("timer") /\ Resume(f) \notin Nodes /\ Suspended(f)
  BY <1>t DEF Wires, Parks, Woken, Armed
<1>n. Nodes' = Nodes \cup {Resume(f)} /\ Once(queue')
  BY <1>t, <1>f, AppendOnce DEF Nodes, Wires, Linked
<1>g. /\ scope[f] # "Closing"
      /\ \A c \in Frames : waiter[c] \notin {Transfer(f), Wake(f), Registration(f)}
  <2>1. Point("timer") # Point("select") /\ Point("timer") # Point("scope")
    BY Apart
  <2>2. \A c \in Frames : /\ Point("timer") # PointOn("call", c) /\ Point("timer") # PointOn("observe", c)
                         /\ Point("timer") # PointOn("close", c)
    BY Apart
  <2> QED
    BY <1>f, <1>t, <2>1, <2>2 DEF Wires, Parks
<1>1. Linked' /\ Parks'
  <2>1. Linked'
    BY <1>n DEF Wires, Linked
  <2>2. Parks'
    BY DEF Wires, Parks, Selecting
  <2> QED
    BY <2>1, <2>2
<1>3. Woken'
  <2>1. ~Awaiting(f) /\ ~Selecting(f)
    BY <1>g DEF Awaiting, Selecting
  <2>2. \A g \in Frames : Armed(g)' <=> Armed(g) /\ g # f
    BY <1>g, <2>1 DEF Armed, Awaiting, Selecting
  <2>3. \A g \in Frames : Resume(g) \in Nodes' <=> Resume(g) \in Nodes \/ g = f
    <3>1. \A g \in Frames : Resume(g) = Resume(f) <=> g = f
      BY Distinct
    <3> QED
      BY <1>n, <3>1
  <2>4. \A g \in Frames : Suspended(g)' <=> Suspended(g)
    BY DEF Suspended
  <2>5. /\ \A g \in Frames : Resume(g)' = Resume(g)
        /\ Woken /\ Suspended(f)
    BY <1>f DEF Wires, Resume
  <2> QED
    BY <2>2, <2>3, <2>4, <2>5 DEF Woken
<1>4. Drains'
  BY <1>n, Distinct DEF Wires, Drains
<1>5. Family' /\ ScopesOpen' /\ Kept' /\ CurrentLive' /\ Awaited' /\ Ended'
  BY DEF Wires, Family, ScopesOpen, Kept, CurrentLive, Awaited, Ended, Suspended
<1> QED
  BY <1>1, <1>3, <1>4, <1>5 DEF Wires

\* Every step of Driver::poll keeps the wiring.
LEMMA PollWires == ASSUME IInv, Tree, Wires, PollNext PROVE Wires'
<1>1. ASSUME NEW i \in DOMAIN timers, CancelTimer(i) PROVE Wires'
  <2>1. timers \in Seq(Timer) /\ OncePerFrame(timers) /\ timers[i].of \in Sleepers
    BY DEF IInv, TypeOK, Wires, Linked, Sleepers, Ofs
  <2>2. Ofs(timers') = Ofs(timers) \ {timers[i].of} /\ OncePerFrame(timers')
    BY <1>1, <2>1, RemoveTimer DEF CancelTimer
  <2> QED
    BY <1>1, <2>1, <2>2, UnparkWires DEF CancelTimer, Sleepers
<1>2. CASE ExpireTimer
  <2>1. timers \in Seq(Timer) /\ OncePerFrame(timers) /\ timers # <<>>
    BY <1>2 DEF IInv, TypeOK, Wires, Linked, ExpireTimer, TimerDue
  <2>2. /\ Head(timers).of \in Ofs(timers)
        /\ Ofs(timers') = Ofs(timers) \ {Head(timers).of} /\ OncePerFrame(timers')
    BY <1>2, <2>1, ExpireFirst DEF ExpireTimer
  <2> QED
    BY <1>2, <2>1, <2>2, UnparkWires DEF ExpireTimer, Sleepers
<1>3. CASE CancellationsDelivered
  BY <1>3, QuietWires DEF CancellationsDelivered, Wires, CurrentLive
<1> QED
  BY <1>1, <1>2, <1>3, CancelSelectionWires DEF PollNext

\* dispatch_one resumes a frame, which consumes the child it waited for.
LEMMA DispatchFrameWires ==
    ASSUME IInv, Tree, Wires, NEW i \in DOMAIN queue, DispatchFrame(i)
    PROVE  Wires'
<1>0. PICK f \in Frames : queue[i] = Resume(f) /\ queue[i].of = f
  <2>1. queue[i] \in WorkNode
    BY DEF IInv, TypeOK
  <2> QED
    BY <2>1 DEF WorkNode, DispatchFrame, Resume
<1>t. /\ queue \in Seq(WorkNode) /\ at \in [Frames -> Points]
      /\ status \in [Frames -> {"cold", "live", "done", "freed"}]
      /\ stage = "due" /\ current = NoFrame /\ Resume(f) \in Nodes
  BY <1>0 DEF IInv, TypeOK, DispatchFrame, Selected, Wires, CurrentLive, Nodes, ToSet
<1>u. /\ timers' = timers /\ subs' = subs /\ scope' = scope /\ children' = children /\ waiter' = waiter
      /\ task' = task /\ lineage' = lineage /\ at' = [at EXCEPT ![f] = Running]
      /\ current' = f /\ stage' = "run" /\ Sleepers' = Sleepers
      /\ status' = [c \in Frames |-> IF c \in Discarded(f) THEN "freed" ELSE status[c]]
      /\ queue' = RemoveAt(queue, i)
  BY <1>0, <1>t DEF DispatchFrame, Continue, Sleepers
<1>n. Nodes' = Nodes \ {Resume(f)} /\ Once(queue')
  BY <1>0, <1>t, <1>u, RemoveAtOnce DEF Nodes, Wires, Linked
<1>f. ~Armed(f) /\ status[f] = "live" /\ Suspended(f) /\ f # NoFrame
  BY <1>t, FramesAssumption DEF Wires, Woken, Suspended
<1>d. ASSUME NEW c \in Frames, c \in Discarded(f) PROVE status[c] # "live"
  <2>1. at[f] \in {PointOn("observe", c), PointOn("close", c)}
    BY <1>d, <1>t DEF Discarded, Points, PointOn
  <2> QED
    BY <1>f, <2>1 DEF Wires, Ended, Armed, Awaiting
<1>s. \A c \in Frames : (status'[c] = "live" <=> status[c] = "live")
                        /\ (status'[c] = "done" => status[c] = "done")
  BY <1>d, <1>t, <1>u
<1>1. Linked'
  BY <1>n, <1>u DEF Wires, Linked
<1>2. Parks'
  BY <1>t, <1>u, <1>f DEF Wires, Parks, Armed, Awaiting, Selecting
<1>3. Woken'
  <2>1. ASSUME NEW g \in Frames PROVE Armed(g)' <=> Armed(g)
    BY <1>t, <1>u DEF Armed, Awaiting, Selecting
  <2> QED
    BY <1>t, <1>u, <1>f, <1>n, <1>s, <2>1, Distinct, FramesAssumption DEF Wires, Woken, Suspended
<1>4. Drains'
  BY <1>u, <1>n, Distinct DEF Wires, Drains
<1>5. Family' /\ ScopesOpen' /\ Kept' /\ Awaited'
  BY <1>u, <1>s DEF Wires, Family, ScopesOpen, Kept, Awaited
<1>6. CurrentLive'
  BY <1>u, <1>f, <1>s DEF CurrentLive
<1>7. Ended'
  BY <1>t, <1>u, <1>s, FramesAssumption DEF Wires, Ended, Suspended
<1> QED
  BY <1>1, <1>2, <1>3, <1>4, <1>5, <1>6, <1>7 DEF Wires

\* A drain is of a closing scope; its frame waits for nothing else.
LEMMA DrainOwner ==
    ASSUME IInv, Wires, NEW i \in DOMAIN queue, queue[i].run = "pump"
    PROVE  \E f \in Frames : /\ queue[i] = Pump(f) /\ queue[i].of = f /\ Pump(f) \in Nodes
                             /\ scope[f] = "Closing" /\ at[f] = Point("scope")
                             /\ status[f] = "live" /\ Suspended(f) /\ Resume(f) \notin Nodes
                             /\ f \notin Sleepers
                             /\ \A c \in Frames :
                                  waiter[c] \notin {Transfer(f), Wake(f), Registration(f), Drain(f)}
                             /\ \A c \in ToSet(children[f]) : waiter[c] = Unwaited
<1>0. PICK f \in Frames : queue[i] = Pump(f) /\ queue[i].of = f
  <2>1. queue[i] \in WorkNode
    BY DEF IInv, TypeOK
  <2> QED
    BY <2>1 DEF WorkNode, Pump
<1>1. Pump(f) \in Nodes
  BY <1>0 DEF Nodes, ToSet
<1>2. scope[f] = "Closing" /\ \A c \in Frames : waiter[c] # Drain(f)
  BY <1>1 DEF Wires, Drains
<1>3. at[f] = Point("scope") /\ status[f] = "live" /\ Suspended(f) /\ Resume(f) \notin Nodes
  BY <1>2 DEF Wires, Parks, ScopesOpen, Woken, Armed
<1>4. Point("scope") # Point("select") /\ Point("scope") # Point("timer")
  BY Apart
<1>5. \A c \in Frames : /\ Point("scope") # PointOn("call", c) /\ Point("scope") # PointOn("observe", c)
                        /\ Point("scope") # PointOn("close", c)
  BY Apart
<1>6. f \notin Sleepers /\ \A c \in Frames : waiter[c] \notin {Transfer(f), Wake(f), Registration(f)}
  BY <1>3, <1>4, <1>5 DEF Wires, Parks
<1>7. \A c \in ToSet(children[f]) : c \in Frames
  BY DEF IInv, TypeOK, ToSet
<1>8. \A c \in ToSet(children[f]) : waiter[c] = Unwaited
  BY <1>1, <1>7, HeldUnwaited
<1> QED
  BY <1>0, <1>1, <1>2, <1>3, <1>6, <1>8

\* A drain stops at the first unfinished child, and waits for it.
LEMMA DrainBlockedWires ==
    ASSUME IInv, Tree, Wires, NEW i \in DOMAIN queue, NEW k \in DOMAIN children[queue[i].of],
           DispatchDrainBlocked(i, k)
    PROVE  Wires'
<1>0. PICK f \in Frames : /\ queue[i] = Pump(f) /\ queue[i].of = f /\ Pump(f) \in Nodes
                          /\ scope[f] = "Closing" /\ at[f] = Point("scope")
                          /\ status[f] = "live" /\ Suspended(f) /\ Resume(f) \notin Nodes
                          /\ f \notin Sleepers
                          /\ \A c \in Frames :
                               waiter[c] \notin {Transfer(f), Wake(f), Registration(f), Drain(f)}
                          /\ \A c \in ToSet(children[f]) : waiter[c] = Unwaited
  BY DrainOwner DEF DispatchDrainBlocked
<1>t. /\ queue \in Seq(WorkNode) /\ children \in [Frames -> Seq(Frames)]
      /\ waiter \in [Frames -> Waiter]
      /\ status \in [Frames -> {"cold", "live", "done", "freed"}]
      /\ stage = "due" /\ current = NoFrame
  BY DEF IInv, TypeOK, DispatchDrainBlocked, Selected, Wires, CurrentLive
<1>c. PICK c \in Frames : c = children[f][k] /\ c \in ToSet(children[f]) /\ status[c] = "live"
  <2>1. children[f] \in Seq(Frames) /\ k \in DOMAIN children[f]
    BY <1>0, <1>t
  <2> QED
    BY <1>0, <2>1 DEF ToSet, DispatchDrainBlocked, Unfinished
<1>u. /\ timers' = timers /\ subs' = subs /\ scope' = scope /\ at' = at
      /\ task' = task /\ lineage' = lineage
      /\ current' = NoFrame /\ stage' = "host" /\ Sleepers' = Sleepers
      /\ waiter' = [waiter EXCEPT ![c] = Drain(f)]
      /\ queue' = RemoveAt(queue, i)
      /\ children' = [children EXCEPT ![f] = SubSeq(children[f], k, Len(children[f]))]
  BY <1>0, <1>t, <1>c DEF DispatchDrainBlocked, Sleepers
<1>n. Nodes' = Nodes \ {Pump(f)} /\ Once(queue')
  BY <1>0, <1>t, <1>u, RemoveAtOnce DEF Nodes, Wires, Linked
<1>s. \A g \in Frames : (status'[g] = "live" <=> status[g] = "live")
                        /\ (status'[g] = "done" => status[g] = "done")
  <2>1. \A j \in 1..(k - 1) : status[children[f][j]] # "live"
    BY <1>0 DEF DispatchDrainBlocked, Unfinished
  <2>2. status' = [g \in Frames |-> IF \E j \in 1..(k - 1) : children[f][j] = g THEN "freed" ELSE status[g]]
    BY <1>0 DEF DispatchDrainBlocked
  <2> QED
    BY <1>t, <2>1, <2>2
<1>k. /\ ToSet(children'[f]) \subseteq ToSet(children[f])
      /\ \A g \in Frames : g # f => children'[g] = children[g]
      /\ c \in ToSet(children'[f])
      /\ \A d \in ToSet(children[f]) : d \notin ToSet(children'[f]) => status'[d] = "freed"
      /\ children'[f] # <<>>
  <2>1. children[f] \in Seq(Frames) /\ k \in DOMAIN children[f]
    BY <1>0, <1>t
  <2>2. ToSet(SubSeq(children[f], k, Len(children[f]))) =
          {children[f][j] : j \in {j \in DOMAIN children[f] : j >= k}}
    BY <2>1, SuffixOnce
  <2>3. children'[f] = SubSeq(children[f], k, Len(children[f]))
    BY <1>t, <1>u
  <2>4. k \in Nat /\ \A j \in DOMAIN children[f] : j \in Nat /\ (j >= k \/ j \in 1..(k - 1))
    BY <2>1
  <2>5. status' = [g \in Frames |-> IF \E j \in 1..(k - 1) : children[f][j] = g THEN "freed" ELSE status[g]]
    BY <1>0 DEF DispatchDrainBlocked
  <2>6. c \in ToSet(children'[f])
    BY <1>c, <2>1, <2>2, <2>3, <2>4
  <2>7. children'[f] # <<>>
    BY <2>6 DEF ToSet
  <2>8. ToSet(children'[f]) \subseteq ToSet(children[f])
    BY <2>2, <2>3 DEF ToSet
  <2>9. ASSUME NEW d \in ToSet(children[f]), d \notin ToSet(children'[f]) PROVE status'[d] = "freed"
    <3>1. PICK j \in DOMAIN children[f] : d = children[f][j]
      BY DEF ToSet
    <3>2. d \in Frames /\ j \in 1..(k - 1)
      BY <2>1, <2>2, <2>3, <2>4, <2>9, <3>1
    <3> QED
      BY <2>5, <3>1, <3>2
  <2> QED
    BY <1>t, <1>u, <2>6, <2>7, <2>8, <2>9
<1>w. waiter[c] = Unwaited
  BY <1>0, <1>c
<1>v. ASSUME NEW d \in Frames, NEW g \in Frames
      PROVE  /\ waiter'[d] = Registration(g) <=> waiter[d] = Registration(g)
             /\ waiter'[d] = Transfer(g) <=> waiter[d] = Transfer(g)
             /\ waiter'[d] = Wake(g) <=> waiter[d] = Wake(g)
             /\ waiter'[d] = Drain(g) <=> waiter[d] = Drain(g) \/ (d = c /\ g = f)
  <2>1. CASE d = c
    <3>1. waiter'[d] = Drain(f) /\ waiter[d] = Unwaited
      BY <1>t, <1>u, <1>w, <2>1
    <3>2. /\ Drain(f) \notin {Registration(g), Transfer(g), Wake(g)}
          /\ Unwaited \notin {Registration(g), Transfer(g), Wake(g), Drain(g)}
          /\ Drain(f) = Drain(g) <=> f = g
      BY Distinct
    <3> QED
      BY <2>1, <3>1, <3>2
  <2>2. CASE d # c
    BY <1>t, <1>u, <2>2
  <2> QED
    BY <2>1, <2>2
<1>1. Linked'
  BY <1>n, <1>u DEF Wires, Linked
<1>2. Parks'
  BY <1>u, <1>v DEF Wires, Parks, Selecting
<1>3. Woken'
  <2>1. ASSUME NEW g \in Frames PROVE Armed(g)' <=> Armed(g)
    BY <1>u, <1>v DEF Armed, Awaiting, Selecting
  <2> QED
    BY <1>t, <1>u, <1>n, <1>s, <2>1, Distinct DEF Wires, Woken, Suspended
<1>4. Drains'
  BY <1>0, <1>u, <1>n, <1>v, Distinct DEF Wires, Drains
<1>5. Family'
  BY <1>u, <1>k DEF Wires, Family
<1>6. Awaited'
  <2> SUFFICES ASSUME NEW d \in Frames
               PROVE  /\ waiter'[d] # Unwaited => status'[d] = "live"
                      /\ waiter'[d].kind = "handle" => task'[d] # d
                      /\ waiter'[d].kind \in {"resume", "pump", "select"} =>
                           d \in ToSet(children'[waiter'[d].of])
    BY DEF Awaited
  <2>1. CASE d = c
    BY <1>c, <1>k, <1>s, <1>t, <1>u, <2>1, Distinct
  <2>2. CASE d # c
    <3>1. waiter'[d] = waiter[d]
      BY <1>t, <1>u, <2>2
    <3>2. waiter[d].kind \in {"resume", "pump", "select"} => waiter[d].of \in Frames
      BY <1>t, Distinct DEF Waiter
    <3>3. waiter[d].kind \in {"resume", "pump", "select"} => waiter[d] # Unwaited /\ waiter[d].of # f
      BY <1>0, Distinct DEF Wires, Awaited
    <3> QED
      BY <1>k, <1>s, <1>u, <3>1, <3>2, <3>3 DEF Wires, Awaited
  <2> QED
    BY <2>1, <2>2
<1>7. ScopesOpen'
  BY <1>0, <1>k, <1>s, <1>u DEF Wires, ScopesOpen
<1>8. Ended'
  BY <1>t, <1>u, <1>s, <1>v DEF Wires, Ended, Suspended
<1>9. CurrentLive' /\ Kept'
  BY <1>u, <1>s, <1>k DEF Wires, CurrentLive, Kept
<1> QED
  BY <1>1, <1>2, <1>3, <1>4, <1>5, <1>6, <1>7, <1>8, <1>9 DEF Wires

\* A drain that finds no unfinished child closes the scope and queues its owner.
LEMMA DrainClosedWires ==
    ASSUME IInv, Tree, Wires, NEW i \in DOMAIN queue, DispatchDrainClosed(i)
    PROVE  Wires'
<1>0. PICK f \in Frames : /\ queue[i] = Pump(f) /\ queue[i].of = f /\ Pump(f) \in Nodes
                          /\ scope[f] = "Closing" /\ at[f] = Point("scope")
                          /\ status[f] = "live" /\ Suspended(f) /\ Resume(f) \notin Nodes
                          /\ f \notin Sleepers
                          /\ \A c \in Frames :
                               waiter[c] \notin {Transfer(f), Wake(f), Registration(f), Drain(f)}
                          /\ \A c \in ToSet(children[f]) : waiter[c] = Unwaited
  BY DrainOwner DEF DispatchDrainClosed
<1>t. /\ queue \in Seq(WorkNode) /\ children \in [Frames -> Seq(Frames)]
      /\ waiter \in [Frames -> Waiter] /\ Resume(f) \in WorkNode
      /\ status \in [Frames -> {"cold", "live", "done", "freed"}]
      /\ scope \in [Frames -> {"Open", "Closing", "Closed"}]
      /\ stage = "due" /\ current = NoFrame
  BY DEF IInv, TypeOK, DispatchDrainClosed, Selected, Wires, CurrentLive, Resume, WorkNode
<1>u. /\ timers' = timers /\ subs' = subs /\ scope' = [scope EXCEPT ![f] = "Closed"] /\ at' = at
      /\ task' = task /\ lineage' = lineage /\ waiter' = waiter
      /\ current' = NoFrame /\ stage' = "host" /\ Sleepers' = Sleepers
      /\ queue' = Append(RemoveAt(queue, i), Resume(f))
      /\ children' = [children EXCEPT ![f] = <<>>]
  BY <1>0, <1>t DEF DispatchDrainClosed, Sleepers
<1>n. Nodes' = (Nodes \ {Pump(f)}) \cup {Resume(f)} /\ Once(queue')
  <2>1. /\ RemoveAt(queue, i) \in Seq(WorkNode) /\ Once(RemoveAt(queue, i))
        /\ ToSet(RemoveAt(queue, i)) = Nodes \ {Pump(f)}
    BY <1>0, <1>t, RemoveAtOnce DEF Nodes, Wires, Linked
  <2> QED
    BY <1>0, <1>t, <1>u, <2>1, AppendOnce DEF Nodes
<1>k. /\ ToSet(children'[f]) = {} /\ \A g \in Frames : g # f => children'[g] = children[g]
      /\ \A d \in ToSet(children[f]) : status'[d] = "freed"
      /\ children'[f] = <<>>
  <2>1. children'[f] = <<>> /\ \A g \in Frames : g # f => children'[g] = children[g]
    BY <1>t, <1>u
  <2>2. status' = [g \in Frames |->
                     IF \E j \in DOMAIN children[f] : children[f][j] = g THEN "freed" ELSE status[g]]
    BY <1>0 DEF DispatchDrainClosed
  <2>3. children[f] \in Seq(Frames)
    BY <1>t
  <2> QED
    BY <2>1, <2>2, <2>3 DEF ToSet
<1>s. \A g \in Frames : (status'[g] = "live" <=> status[g] = "live")
                        /\ (status'[g] = "done" => status[g] = "done")
  <2>1. \A j \in DOMAIN children[f] : status[children[f][j]] # "live"
    BY <1>0 DEF DispatchDrainClosed
  <2>2. status' = [g \in Frames |->
                     IF \E j \in DOMAIN children[f] : children[f][j] = g THEN "freed" ELSE status[g]]
    BY <1>0 DEF DispatchDrainClosed
  <2> QED
    BY <1>t, <2>1, <2>2
<1>1. Linked'
  BY <1>n, <1>u DEF Wires, Linked
<1>2. Parks'
  BY <1>t, <1>u DEF Wires, Parks, Selecting
<1>3. Woken'
  <2>1. ~Armed(f)'
    BY <1>0, <1>t, <1>u DEF Armed, Awaiting, Selecting
  <2>2. ASSUME NEW g \in Frames, g # f PROVE Armed(g)' <=> Armed(g)
    BY <1>t, <1>u, <2>2 DEF Armed, Awaiting, Selecting
  <2> QED
    BY <1>0, <1>t, <1>u, <1>n, <1>s, <2>1, <2>2, Distinct DEF Wires, Woken, Suspended
<1>4. Drains'
  BY <1>0, <1>t, <1>u, <1>n, Distinct DEF Wires, Drains
<1>5. Family'
  BY <1>u, <1>k DEF Wires, Family
<1>6. Awaited'
  <2>1. ASSUME NEW d \in Frames, waiter[d].kind \in {"resume", "pump", "select"}
        PROVE  waiter[d].of \in Frames /\ waiter[d].of # f
    BY <1>0, <1>t, <2>1, Distinct DEF Waiter, Wires, Awaited
  <2> QED
    BY <1>k, <1>s, <1>u, <2>1 DEF Wires, Awaited
<1>7. ScopesOpen'
  BY <1>0, <1>k, <1>s, <1>u, <1>t DEF Wires, ScopesOpen
<1>8. Ended' /\ CurrentLive'
  BY <1>t, <1>u, <1>s DEF Wires, Ended, Suspended, CurrentLive
<1>9. Kept'
  BY <1>u, <1>s, <1>k DEF Wires, Kept
<1> QED
  BY <1>1, <1>2, <1>3, <1>4, <1>5, <1>6, <1>7, <1>8, <1>9 DEF Wires

\* dispatch_one keeps the wiring.
LEMMA DispatchWires == ASSUME IInv, Tree, Wires, DispatchNext PROVE Wires'
<1>1. CASE NothingReady
  <2>1. current = NoFrame
    BY <1>1 DEF NothingReady, Wires, CurrentLive
  <2> QED
    BY <1>1, <2>1, QuietWires DEF NothingReady
<1> QED
  BY <1>1, DispatchFrameWires, DrainBlockedWires, DrainClosedWires DEF DispatchNext

\* A sleep links a timer for the frame that was running.
LEMMA SleepWires ==
    ASSUME IInv, Wires, NEW f \in Frames, NEW deadline \in 1..MaxTime, Sleep(f, deadline)
    PROVE  Wires'
<1>t. /\ timers \in Seq(Timer) /\ at \in [Frames -> Points] /\ current = f /\ stage = "run"
  BY DEF IInv, TypeOK, Sleep, Does
<1>f. /\ status[f] = "live" /\ Resume(f) \notin Nodes /\ f \notin Sleepers
      /\ f \notin ToSet(subs) /\ scope[f] # "Closing"
      /\ \A c \in Frames : waiter[c] \notin {Transfer(f), Wake(f), Drain(f), Registration(f)}
  BY <1>t, RunnerFree
<1>s. Sleepers' = Sleepers \cup {f} /\ OncePerFrame(timers')
  <2> DEFINE e == [of |-> f, deadline |-> deadline]
  <2>1. PICK j \in 1..(Len(timers) + 1) : timers' = InsertAt(timers, j, e)
    BY DEF Sleep, InsertTimer
  <2>2. e \in Timer /\ e.of = f
    BY TimeAssumption DEF Timer
  <2> HIDE DEF e
  <2> QED
    BY <1>t, <1>f, <2>1, <2>2, InsertOne DEF Sleepers, Wires, Linked
<1>u. /\ waiter' = waiter /\ subs' = subs /\ scope' = scope /\ children' = children
      /\ task' = task /\ lineage' = lineage /\ status' = status /\ queue' = queue
      /\ at' = [at EXCEPT ![f] = Point("timer")]
      /\ current' = NoFrame /\ stage' = "host" /\ Nodes' = Nodes
  BY DEF Sleep, Park, Nodes
<1>1. Linked'
  BY <1>s, <1>u DEF Wires, Linked
<1>2. Parks'
  BY <1>t, <1>u, <1>f, <1>s DEF Wires, Parks, Selecting
<1>3. Woken'
  <2>1. ASSUME NEW g \in Frames PROVE Armed(g)' <=> Armed(g) \/ g = f
    BY <1>s, <1>u DEF Armed, Awaiting, Selecting
  <2> QED
    BY <1>t, <1>u, <1>f, <2>1, FramesAssumption DEF Wires, Woken, Suspended
<1>4. Drains'
  BY <1>u DEF Wires, Drains
<1>5. Family' /\ Awaited' /\ ScopesOpen' /\ Kept' /\ CurrentLive'
  BY <1>u DEF Wires, Family, Awaited, ScopesOpen, Kept, CurrentLive
<1>6. Ended'
  <2>1. \A c \in Frames : Point("timer") \notin {PointOn("observe", c), PointOn("close", c)}
    BY Apart
  <2> QED
    BY <1>t, <1>u, <2>1, FramesAssumption DEF Wires, Ended, Suspended
<1> QED
  BY <1>1, <1>2, <1>3, <1>4, <1>5, <1>6 DEF Wires

\* A scope opens.
LEMMA OpenScopeWires ==
    ASSUME IInv, Wires, NEW f \in Frames, OpenScope(f)
    PROVE  Wires'
<1>t. /\ scope \in [Frames -> {"Open", "Closing", "Closed"}] /\ current = f /\ scope[f] = "Closed"
      /\ scope' = [scope EXCEPT ![f] = "Open"]
  BY DEF IInv, TypeOK, OpenScope, Does
<1>u. /\ waiter' = waiter /\ subs' = subs /\ timers' = timers /\ children' = children
      /\ task' = task /\ lineage' = lineage /\ status' = status /\ queue' = queue /\ at' = at
      /\ current' = current /\ stage' = stage /\ Nodes' = Nodes /\ Sleepers' = Sleepers
  BY DEF OpenScope, Nodes, Sleepers
<1>f. status[f] = "live"
  BY <1>t, RunnerFree
<1>s. \A g \in Frames : scope'[g] = "Closing" <=> scope[g] = "Closing"
  BY <1>t
<1>1. Linked' /\ Parks'
  BY <1>u, <1>s DEF Wires, Linked, Parks, Selecting
<1>2. Woken' /\ Drains'
  BY <1>u, <1>s DEF Wires, Woken, Drains, Suspended, Armed, Awaiting, Selecting
<1>3. Family' /\ Awaited' /\ Kept' /\ CurrentLive' /\ Ended'
  BY <1>u DEF Wires, Family, Awaited, Kept, CurrentLive, Ended, Suspended
<1>4. ScopesOpen'
  BY <1>u, <1>t, <1>f DEF Wires, ScopesOpen
<1> QED
  BY <1>1, <1>2, <1>3, <1>4 DEF Wires

\* A frame that has not started is known to nobody.
LEMMA ColdUnknown ==
    ASSUME IInv, Tree, Wires, NEW c \in Frames, status[c] = "cold"
    PROVE  /\ c \notin Started /\ c # current /\ ~Armed(c) /\ Resume(c) \notin Nodes
           /\ waiter[c] = Unwaited /\ scope[c] = "Closed" /\ children[c] = <<>>
           /\ \A g \in Frames : c \notin ToSet(children[g]) /\ at[g].on # c
           /\ \A g \in Started : task[g] # c
<1>1. c \notin Started /\ ~Armed(c) /\ Resume(c) \notin Nodes /\ waiter[c] = Unwaited
  BY DEF Wires, Woken, Suspended, Awaited, Started
<1>2. scope[c] = "Closed" /\ children[c] = <<>> /\ c # current
  BY FramesAssumption DEF Wires, ScopesOpen, CurrentLive
<1>3. \A g \in Frames : c \notin ToSet(children[g]) /\ at[g].on # c
  BY <1>1, FramesAssumption, Holders DEF Tree, Below
<1>4. \A g \in Started : task[g] # c
  BY <1>1 DEF IInv, StartedTasks
<1> QED
  BY <1>1, <1>2, <1>3, <1>4

\* A child starts: it is queued, and held by the scope that started it.
LEMMA StartChildWires ==
    ASSUME IInv, Tree, Wires, NEW f \in Frames, NEW c \in Frames, StartChild(f, c)
    PROVE  Wires'
<1>t. /\ queue \in Seq(WorkNode) /\ Resume(c) \in WorkNode
      /\ at \in [Frames -> Points] /\ status \in [Frames -> {"cold", "live", "done", "freed"}]
      /\ task \in [Frames -> Frames \cup {NoFrame}] /\ lineage \in [Frames -> SUBSET Frames]
      /\ children \in [Frames -> Seq(Frames)]
      /\ current = f /\ stage = "run" /\ status[c] = "cold" /\ c \notin Roots /\ scope[f] = "Open"
  BY DEF IInv, TypeOK, Resume, WorkNode, StartChild, Does
<1>c. /\ c \notin Started /\ c # f /\ ~Armed(c) /\ Resume(c) \notin Nodes
      /\ waiter[c] = Unwaited /\ scope[c] = "Closed" /\ children[c] = <<>>
      /\ \A g \in Frames : c \notin ToSet(children[g]) /\ at[g].on # c
      /\ \A g \in Started : task[g] # c
  BY <1>t, ColdUnknown DEF Started
<1>f. status[f] = "live" /\ f \in Started /\ task[f] \in Frames
  BY <1>t, RunnerFree, CurrentStarted
<1>n. Nodes' = Nodes \cup {Resume(c)} /\ Once(queue')
  BY <1>t, <1>c, AppendOnce DEF Nodes, Wires, Linked, StartChild
<1>u. /\ waiter' = waiter /\ subs' = subs /\ timers' = timers /\ scope' = scope
      /\ status' = [status EXCEPT ![c] = "live"] /\ task' = [task EXCEPT ![c] = c]
      /\ lineage' = [lineage EXCEPT ![c] = lineage[task[f]] \cup {c}]
      /\ at' = [at EXCEPT ![c] = Point("start")]
      /\ children' = [children EXCEPT ![f] = <<c>> \o children[f]]
      /\ current' = current /\ stage' = stage /\ Sleepers' = Sleepers
  BY <1>t DEF StartChild, Sleepers
<1>k. /\ ToSet(children'[f]) = ToSet(children[f]) \cup {c}
      /\ \A g \in Frames : g # f => children'[g] = children[g]
  BY <1>t, <1>u, PushOnce
<1>1. Linked'
  BY <1>n, <1>u DEF Wires, Linked
<1>2. Parks'
  BY <1>t, <1>u, <1>c DEF Wires, Parks, Armed, Awaiting, Selecting
<1>3. Woken'
  <2>1. ASSUME NEW g \in Frames PROVE Armed(g)' <=> Armed(g)
    BY <1>t, <1>u DEF Armed, Awaiting, Selecting
  <2> QED
    BY <1>t, <1>u, <1>c, <1>n, <2>1, Distinct DEF Wires, Woken, Suspended
<1>4. Drains'
  BY <1>u, <1>n, Distinct DEF Wires, Drains
<1>5. Family'
  <2>1. ASSUME NEW g \in Frames, NEW d \in Frames, d \in ToSet(children'[g])
        PROVE  d \in ToSet(children[g]) \/ (d = c /\ g = f)
    BY <1>k, <2>1
  <2>2. ASSUME NEW g \in Frames, NEW d \in Frames, d \in ToSet(children[g])
        PROVE  /\ d # c /\ task'[d] = task[d] /\ lineage'[d] = lineage[d]
               /\ task'[g] = task[g] /\ lineage'[task[g]] = lineage[task[g]]
    BY <1>t, <1>u, <1>c, <2>2, Holders
  <2>3. task'[c] = c /\ lineage[task[f]] \subseteq lineage'[c] /\ task'[f] = task[f]
        /\ lineage'[task[f]] = lineage[task[f]]
    BY <1>t, <1>u, <1>c, <1>f
  <2>4. \A g, h, d \in Frames : d \in ToSet(children'[g]) /\ d \in ToSet(children'[h]) => g = h
    BY <1>c, <2>1 DEF Wires, Family
  <2>5. ASSUME NEW g \in Frames, NEW d \in Frames, d \in ToSet(children'[g])
        PROVE  task'[d] = d /\ lineage'[task'[g]] \subseteq lineage'[d]
    BY <2>1, <2>2, <2>3, <2>5 DEF Wires, Family
  <2> QED
    BY <2>4, <2>5 DEF Family
<1>6. Awaited'
  <2>1. ASSUME NEW g \in Frames, waiter[g].kind = "handle" PROVE g # c
    BY <1>c, <2>1, Distinct
  <2>2. \A g \in Frames : waiter[g].kind \in {"resume", "pump", "select"} => waiter[g].of \in Frames
    BY Distinct DEF IInv, TypeOK, Waiter
  <2> QED
    BY <1>t, <1>u, <1>c, <1>k, <2>1, <2>2 DEF Wires, Awaited
<1>7. ScopesOpen'
  BY <1>t, <1>u, <1>c, <1>k DEF Wires, ScopesOpen
<1>8. Ended'
  <2>1. \A d \in Frames : Point("start") \notin {PointOn("observe", d), PointOn("close", d)}
    BY Apart
  <2>2. \A g, d \in Frames : at[g] \in {PointOn("observe", d), PointOn("close", d)} => d # c
    BY <1>c, Apart
  <2> QED
    BY <1>t, <1>u, <2>1, <2>2 DEF Wires, Ended, Suspended
<1>9. CurrentLive' /\ Kept'
  BY <1>t, <1>u, <1>k DEF Wires, CurrentLive, Kept
<1> QED
  BY <1>1, <1>2, <1>3, <1>4, <1>5, <1>6, <1>7, <1>8, <1>9 DEF Wires

\* The frame that runs waits for one of its children, to observe or to close it.
LEMMA WaitWires ==
    ASSUME IInv, Wires, NEW f \in Frames, NEW c \in Frames, Observe(f, c) \/ CloseChild(f, c)
    PROVE  Wires'
<1>t. /\ at \in [Frames -> Points] /\ waiter \in [Frames -> Waiter]
      /\ current = f /\ stage = "run" /\ c \in ToSet(children[f]) /\ status[c] = "live"
  BY DEF IInv, TypeOK, Observe, CloseChild, Does, Held
<1>f. /\ status[f] = "live" /\ Resume(f) \notin Nodes /\ f \notin Sleepers
      /\ f \notin ToSet(subs) /\ scope[f] # "Closing"
      /\ \A d \in Frames : waiter[d] \notin {Transfer(f), Wake(f), Drain(f), Registration(f)}
  BY <1>t, RunnerFree
<1>w. waiter[c] = Unwaited
  BY <1>t, HeldUnwaited
<1>u. /\ subs' = subs /\ timers' = timers /\ scope' = scope /\ children' = children
      /\ task' = task /\ lineage' = lineage /\ status' = status /\ queue' = queue
      /\ waiter' = [waiter EXCEPT ![c] = Wake(f)]
      /\ current' = NoFrame /\ stage' = "host" /\ Sleepers' = Sleepers /\ Nodes' = Nodes
  BY DEF Observe, CloseChild, Park, Sleepers, Nodes
<1>p. PICK p \in {"observe", "close"} : at' = [at EXCEPT ![f] = PointOn(p, c)]
  BY DEF Observe, CloseChild, Park
<1>v. ASSUME NEW d \in Frames, NEW g \in Frames
      PROVE  /\ waiter'[d] = Registration(g) <=> waiter[d] = Registration(g)
             /\ waiter'[d] = Transfer(g) <=> waiter[d] = Transfer(g)
             /\ waiter'[d] = Wake(g) <=> waiter[d] = Wake(g) \/ (d = c /\ g = f)
             /\ waiter'[d] = Drain(g) <=> waiter[d] = Drain(g)
  <2>1. CASE d = c
    BY <1>t, <1>u, <1>w, <2>1, Distinct
  <2>2. CASE d # c
    BY <1>t, <1>u, <2>2
  <2> QED
    BY <2>1, <2>2
<1>1. Linked'
  BY <1>u DEF Wires, Linked
<1>2. Parks'
  <2>1. \A g \in Frames : g # f => at'[g] = at[g]
    BY <1>t, <1>p
  <2>2. at'[f] \in {PointOn("observe", c), PointOn("close", c)}
    BY <1>t, <1>p
  <2> QED
    BY <1>u, <1>v, <1>f, <2>1, <2>2 DEF Wires, Parks, Selecting
<1>3. Woken'
  <2>1. ASSUME NEW g \in Frames PROVE Armed(g)' <=> Armed(g) \/ g = f
    BY <1>u, <1>v DEF Armed, Awaiting, Selecting
  <2> QED
    BY <1>t, <1>u, <1>f, <2>1, FramesAssumption DEF Wires, Woken, Suspended
<1>4. Drains'
  BY <1>u, <1>v DEF Wires, Drains
<1>5. Family' /\ ScopesOpen' /\ Kept' /\ CurrentLive'
  BY <1>u DEF Wires, Family, ScopesOpen, Kept, CurrentLive
<1>6. Awaited'
  BY <1>t, <1>u, Distinct DEF Wires, Awaited
<1>7. Ended'
  <2>1. \A d \in Frames : at'[f] \in {PointOn("observe", d), PointOn("close", d)} => d = c
    BY <1>t, <1>p, Apart
  <2> QED
    BY <1>t, <1>u, <1>v, <1>p, <2>1, FramesAssumption DEF Wires, Ended, Suspended
<1> QED
  BY <1>1, <1>2, <1>3, <1>4, <1>5, <1>6, <1>7 DEF Wires

\* A selection registers with its candidates, none of which has a waiter.
LEMMA SelectWires ==
    ASSUME IInv, Wires, NEW f \in Frames, NEW candidates \in SUBSET Frames, NEW accept \in BOOLEAN,
           Select(f, candidates, accept)
    PROVE  Wires'
<1>t. /\ at \in [Frames -> Points] /\ waiter \in [Frames -> Waiter] /\ subs \in Seq(Frames)
      /\ current = f /\ stage = "run" /\ candidates # {}
      /\ \A c \in candidates : c \in ToSet(children[f]) /\ status[c] = "live"
  BY DEF IInv, TypeOK, Select, Does, Held
<1>f. /\ status[f] = "live" /\ Resume(f) \notin Nodes /\ f \notin Sleepers
      /\ f \notin ToSet(subs) /\ scope[f] # "Closing"
      /\ \A d \in Frames : waiter[d] \notin {Transfer(f), Wake(f), Drain(f), Registration(f)}
  BY <1>t, RunnerFree
<1>w. \A c \in candidates : waiter[c] = Unwaited
  BY <1>t, HeldUnwaited
<1>u. /\ timers' = timers /\ scope' = scope /\ children' = children
      /\ task' = task /\ lineage' = lineage /\ status' = status /\ queue' = queue
      /\ waiter' = [c \in Frames |-> IF c \in candidates THEN Registration(f) ELSE waiter[c]]
      /\ subs' = (IF accept THEN <<f>> \o subs ELSE subs)
      /\ at' = [at EXCEPT ![f] = Point("select")]
      /\ current' = NoFrame /\ stage' = "host" /\ Sleepers' = Sleepers /\ Nodes' = Nodes
  BY DEF Select, Park, Sleepers, Nodes
<1>s. ToSet(subs') \subseteq ToSet(subs) \cup {f} /\ Once(subs')
  BY <1>t, <1>f, <1>u, PushOnce DEF Wires, Linked
<1>v. ASSUME NEW d \in Frames, NEW g \in Frames
      PROVE  /\ waiter'[d] = Registration(g) <=> waiter[d] = Registration(g) \/ (d \in candidates /\ g = f)
             /\ waiter'[d] = Transfer(g) <=> waiter[d] = Transfer(g)
             /\ waiter'[d] = Wake(g) <=> waiter[d] = Wake(g)
             /\ waiter'[d] = Drain(g) <=> waiter[d] = Drain(g)
  <2>1. CASE d \in candidates
    BY <1>t, <1>u, <1>w, <2>1, Distinct
  <2>2. CASE d \notin candidates
    BY <1>t, <1>u, <2>2
  <2> QED
    BY <2>1, <2>2
<1>g. ASSUME NEW g \in Frames PROVE Selecting(g)' <=> Selecting(g) \/ g = f
  BY <1>t, <1>v DEF Selecting
<1>1. Linked'
  BY <1>s, <1>u DEF Wires, Linked
<1>2. Parks'
  BY <1>t, <1>u, <1>v, <1>f, <1>s, <1>g DEF Wires, Parks
<1>3. Woken'
  <2>1. ASSUME NEW g \in Frames PROVE Armed(g)' <=> Armed(g) \/ g = f
    BY <1>u, <1>v, <1>g DEF Armed, Awaiting
  <2> QED
    BY <1>t, <1>u, <1>f, <2>1, FramesAssumption DEF Wires, Woken, Suspended
<1>4. Drains'
  BY <1>u, <1>v DEF Wires, Drains
<1>5. Family' /\ ScopesOpen' /\ Kept' /\ CurrentLive'
  BY <1>u DEF Wires, Family, ScopesOpen, Kept, CurrentLive
<1>6. Awaited'
  BY <1>t, <1>u, Distinct DEF Wires, Awaited
<1>7. Ended'
  <2>1. \A d \in Frames : Point("select") \notin {PointOn("observe", d), PointOn("close", d)}
    BY Apart
  <2> QED
    BY <1>t, <1>u, <1>v, <2>1, FramesAssumption DEF Wires, Ended, Suspended
<1> QED
  BY <1>1, <1>2, <1>3, <1>4, <1>5, <1>6, <1>7 DEF Wires

\* A scope starts to close: its drain is queued.
LEMMA CloseScopeWires ==
    ASSUME IInv, Wires, NEW f \in Frames, NEW requestCancel \in BOOLEAN, CloseScope(f, requestCancel)
    PROVE  Wires'
<1>t. /\ queue \in Seq(WorkNode) /\ Pump(f) \in WorkNode /\ at \in [Frames -> Points]
      /\ scope \in [Frames -> {"Open", "Closing", "Closed"}]
      /\ current = f /\ stage = "run" /\ scope[f] = "Open"
  BY DEF IInv, TypeOK, Pump, WorkNode, CloseScope, Does
<1>f. /\ status[f] = "live" /\ Resume(f) \notin Nodes /\ f \notin Sleepers
      /\ f \notin ToSet(subs) /\ scope[f] # "Closing" /\ Pump(f) \notin Nodes
      /\ \A c \in Frames : waiter[c] \notin {Transfer(f), Wake(f), Drain(f), Registration(f)}
  BY <1>t, RunnerFree
<1>n. Nodes' = Nodes \cup {Pump(f)} /\ Once(queue')
  BY <1>t, <1>f, AppendOnce DEF Nodes, Wires, Linked, CloseScope
<1>u. /\ waiter' = waiter /\ subs' = subs /\ timers' = timers /\ children' = children
      /\ task' = task /\ lineage' = lineage /\ status' = status
      /\ scope' = [scope EXCEPT ![f] = "Closing"]
      /\ at' = [at EXCEPT ![f] = Point("scope")]
      /\ current' = NoFrame /\ stage' = "host" /\ Sleepers' = Sleepers
  BY DEF CloseScope, Park, Sleepers
<1>1. Linked'
  BY <1>n, <1>u DEF Wires, Linked
<1>2. Parks'
  BY <1>t, <1>u, <1>f DEF Wires, Parks, Selecting
<1>3. Woken'
  <2>1. ASSUME NEW g \in Frames PROVE Armed(g)' <=> Armed(g) \/ g = f
    BY <1>t, <1>u DEF Armed, Awaiting, Selecting
  <2> QED
    BY <1>t, <1>u, <1>f, <1>n, <2>1, Distinct, FramesAssumption DEF Wires, Woken, Suspended
<1>4. Drains'
  BY <1>t, <1>u, <1>f, <1>n, Distinct DEF Wires, Drains
<1>5. Family' /\ Awaited' /\ Kept' /\ CurrentLive'
  BY <1>u DEF Wires, Family, Awaited, Kept, CurrentLive
<1>6. ScopesOpen'
  BY <1>t, <1>u, <1>f DEF Wires, ScopesOpen
<1>7. Ended'
  <2>1. \A c \in Frames : Point("scope") \notin {PointOn("observe", c), PointOn("close", c)}
    BY Apart
  <2> QED
    BY <1>t, <1>u, <2>1, FramesAssumption DEF Wires, Ended, Suspended
<1> QED
  BY <1>1, <1>2, <1>3, <1>4, <1>5, <1>6, <1>7 DEF Wires

\* A call: the callee runs, and its caller waits for it.
LEMMA CallWires ==
    ASSUME IInv, Tree, Wires, NEW f \in Frames, NEW c \in Frames, Call(f, c)
    PROVE  Wires'
<1>t. /\ at \in [Frames -> Points] /\ status \in [Frames -> {"cold", "live", "done", "freed"}]
      /\ task \in [Frames -> Frames \cup {NoFrame}] /\ waiter \in [Frames -> Waiter]
      /\ current = f /\ stage = "run" /\ status[c] = "cold" /\ c \notin Roots
  BY DEF IInv, TypeOK, Call, Does
<1>c. /\ c \notin Started /\ c # f /\ ~Armed(c) /\ Resume(c) \notin Nodes
      /\ waiter[c] = Unwaited /\ scope[c] = "Closed" /\ children[c] = <<>>
      /\ \A g \in Frames : c \notin ToSet(children[g]) /\ at[g].on # c
      /\ \A g \in Started : task[g] # c
  BY <1>t, ColdUnknown DEF Started
<1>f. /\ status[f] = "live" /\ Resume(f) \notin Nodes /\ f \notin Sleepers
      /\ f \notin ToSet(subs) /\ scope[f] # "Closing" /\ Pump(f) \notin Nodes
      /\ \A d \in Frames : waiter[d] \notin {Transfer(f), Wake(f), Drain(f), Registration(f)}
      /\ f \in Started /\ task[f] \in Frames
  BY <1>t, RunnerFree, CurrentStarted
<1>u. /\ subs' = subs /\ timers' = timers /\ scope' = scope /\ children' = children
      /\ lineage' = lineage /\ queue' = queue
      /\ status' = [status EXCEPT ![c] = "live"] /\ task' = [task EXCEPT ![c] = task[f]]
      /\ waiter' = [waiter EXCEPT ![c] = Transfer(f)]
      /\ at' = [at EXCEPT ![f] = PointOn("call", c)]
      /\ current' = c /\ stage' = stage /\ Sleepers' = Sleepers /\ Nodes' = Nodes
  BY <1>t DEF Call, Sleepers, Nodes
<1>v. ASSUME NEW d \in Frames, NEW g \in Frames
      PROVE  /\ waiter'[d] = Registration(g) <=> waiter[d] = Registration(g)
             /\ waiter'[d] = Transfer(g) <=> waiter[d] = Transfer(g) \/ (d = c /\ g = f)
             /\ waiter'[d] = Wake(g) <=> waiter[d] = Wake(g)
             /\ waiter'[d] = Drain(g) <=> waiter[d] = Drain(g)
  <2>1. CASE d = c
    BY <1>t, <1>u, <1>c, <2>1, Distinct
  <2>2. CASE d # c
    BY <1>t, <1>u, <2>2
  <2> QED
    BY <2>1, <2>2
<1>1. Linked'
  BY <1>u DEF Wires, Linked
<1>2. Parks'
  BY <1>t, <1>u, <1>v, <1>f DEF Wires, Parks, Selecting
<1>3. Woken'
  <2>1. ASSUME NEW g \in Frames PROVE Armed(g)' <=> Armed(g) \/ g = f
    BY <1>u, <1>v DEF Armed, Awaiting, Selecting
  <2> QED
    BY <1>t, <1>u, <1>c, <1>f, <2>1 DEF Wires, Woken, Suspended
<1>4. Drains'
  BY <1>u, <1>v DEF Wires, Drains
<1>5. Family'
  <2>1. ASSUME NEW g \in Frames, NEW d \in Frames, d \in ToSet(children[g])
        PROVE  d # c /\ task'[d] = task[d] /\ task'[g] = task[g]
    BY <1>t, <1>u, <1>c, <2>1, Holders
  <2> QED
    BY <1>u, <2>1 DEF Wires, Family
<1>6. Awaited'
  BY <1>t, <1>u, <1>c, <1>f, Distinct DEF Wires, Awaited
<1>7. ScopesOpen'
  BY <1>t, <1>u, <1>c DEF Wires, ScopesOpen
<1>8. Ended'
  <2>1. \A d \in Frames : PointOn("call", c) \notin {PointOn("observe", d), PointOn("close", d)}
    BY Apart
  <2>2. \A g, d \in Frames : at[g] \in {PointOn("observe", d), PointOn("close", d)} => d # c
    BY <1>c, Apart
  <2> QED
    BY <1>t, <1>u, <1>v, <2>1, <2>2 DEF Wires, Ended, Suspended
<1>9. CurrentLive' /\ Kept'
  BY <1>t, <1>u, <1>c, <1>f DEF Wires, CurrentLive, Kept
<1> QED
  BY <1>1, <1>2, <1>3, <1>4, <1>5, <1>6, <1>7, <1>8, <1>9 DEF Wires

\* A body returns with its scope closed: it holds no children and waits for nothing.
LEMMA Returning ==
    ASSUME IInv, Wires, NEW f \in Frames, NEW outcome, Finish(f, outcome)
    PROVE  /\ status[f] = "live" /\ Resume(f) \notin Nodes /\ f \notin Sleepers
           /\ f \notin ToSet(subs) /\ scope[f] = "Closed" /\ children[f] = <<>> /\ f # NoFrame
           /\ Pump(f) \notin Nodes /\ ~Armed(f) /\ current = f /\ stage = "run"
           /\ \A c \in Frames : waiter[c] \notin {Transfer(f), Wake(f), Drain(f), Registration(f)}
<1>1. current = f /\ stage = "run" /\ scope[f] = "Closed"
  BY DEF Finish
<1>2. children[f] = <<>> /\ ~Suspended(f)
  BY <1>1 DEF Wires, ScopesOpen, Suspended
<1> QED
  BY <1>1, <1>2, RunnerFree, FramesAssumption DEF Wires, Woken

\* A frame nobody waits for returns.
LEMMA ReturnUnobservedWires ==
    ASSUME IInv, Wires, NEW f \in Frames, NEW outcome, ReturnUnobserved(f, outcome)
    PROVE  Wires'
<1>t. waiter[f] = Unwaited /\ status \in [Frames -> {"cold", "live", "done", "freed"}]
  BY DEF IInv, TypeOK, Waiter, ReturnUnobserved
<1>f. /\ status[f] = "live" /\ Resume(f) \notin Nodes /\ scope[f] = "Closed" /\ ~Armed(f)
      /\ current = f /\ f # NoFrame
  BY Returning DEF ReturnUnobserved
<1>u. /\ waiter' = waiter /\ subs' = subs /\ timers' = timers /\ scope' = scope /\ children' = children
      /\ task' = task /\ lineage' = lineage /\ queue' = queue /\ at' = at
      /\ status' = [status EXCEPT ![f] = "done"]
      /\ current' = NoFrame /\ stage' = "host" /\ Nodes' = Nodes /\ Sleepers' = Sleepers
  BY DEF ReturnUnobserved, Nodes, Sleepers
<1>1. Linked' /\ Parks' /\ Drains' /\ Family'
  BY <1>u DEF Wires, Linked, Parks, Drains, Family, Selecting
<1>2. Woken'
  <2>1. ASSUME NEW g \in Frames PROVE Armed(g)' <=> Armed(g)
    BY <1>u DEF Armed, Awaiting, Selecting
  <2> QED
    BY <1>t, <1>u, <1>f, <2>1, FramesAssumption DEF Wires, Woken, Suspended
<1>3. Awaited' /\ ScopesOpen' /\ Kept' /\ CurrentLive'
  BY <1>t, <1>u, <1>f DEF Wires, Awaited, ScopesOpen, Kept, CurrentLive
<1>4. Ended'
  BY <1>t, <1>u, <1>f, FramesAssumption DEF Wires, Ended, Suspended
<1> QED
  BY <1>1, <1>2, <1>3, <1>4 DEF Wires

\* A child returns to the observer or the drain that waits for it.
LEMMA ReturnToNodeWires ==
    ASSUME IInv, Wires, NEW f \in Frames, NEW outcome, ReturnToNode(f, outcome)
    PROVE  Wires'
<1>t. /\ status \in [Frames -> {"cold", "live", "done", "freed"}] /\ waiter \in [Frames -> Waiter]
      /\ queue \in Seq(WorkNode)
  BY DEF IInv, TypeOK
<1>0. PICK g \in Frames : \/ waiter[f] = Wake(g) /\ queue' = Append(queue, Resume(g))
                          \/ waiter[f] = Drain(g) /\ queue' = Append(queue, Pump(g))
  <2>1. waiter[f] \in Waiter /\ waiter[f].kind \in {"resume", "pump"}
    BY <1>t DEF ReturnToNode
  <2>2. waiter[f].of \in Frames /\ waiter[f] = [kind |-> waiter[f].kind, of |-> waiter[f].of]
    BY <2>1, Distinct DEF Waiter
  <2> QED
    BY <2>1, <2>2 DEF ReturnToNode, Wake, Drain, Resume, Pump
<1>f. /\ status[f] = "live" /\ Resume(f) \notin Nodes /\ scope[f] = "Closed" /\ ~Armed(f)
      /\ current = f /\ f # NoFrame
      /\ \A c \in Frames : waiter[c] \notin {Transfer(f), Wake(f), Drain(f), Registration(f)}
  BY Returning DEF ReturnToNode
<1>u. /\ subs' = subs /\ timers' = timers /\ scope' = scope /\ children' = children
      /\ task' = task /\ lineage' = lineage /\ at' = at
      /\ status' = [status EXCEPT ![f] = "done"] /\ waiter' = [waiter EXCEPT ![f] = Unwaited]
      /\ current' = NoFrame /\ stage' = "host" /\ Sleepers' = Sleepers
  BY DEF ReturnToNode, Sleepers
<1>v. ASSUME NEW d \in Frames, NEW h \in Frames
      PROVE  /\ waiter'[d] = Registration(h) <=> waiter[d] = Registration(h)
             /\ waiter'[d] = Transfer(h) <=> waiter[d] = Transfer(h)
             /\ waiter'[d] = Wake(h) <=> waiter[d] = Wake(h) /\ d # f
             /\ waiter'[d] = Drain(h) <=> waiter[d] = Drain(h) /\ d # f
  <2>1. CASE d = f
    BY <1>0, <1>t, <1>u, <2>1, Distinct
  <2>2. CASE d # f
    BY <1>t, <1>u, <2>2
  <2> QED
    BY <2>1, <2>2
<1>s. \A d \in Frames : d # f => status'[d] = status[d]
  BY <1>t, <1>u
<1>1. Parks'
  BY <1>u, <1>v DEF Wires, Parks, Selecting
<1>2. Family' /\ ScopesOpen' /\ Kept' /\ CurrentLive'
  BY <1>t, <1>u, <1>f DEF Wires, Family, ScopesOpen, Kept, CurrentLive
<1>3. Awaited'
  BY <1>t, <1>u, Distinct DEF Wires, Awaited
<1>4. Ended'
  BY <1>t, <1>u, <1>v, <1>f DEF Wires, Ended, Suspended
<1>5. CASE waiter[f] = Wake(g) /\ queue' = Append(queue, Resume(g))
  <2>1. Resume(g) \notin Nodes /\ Resume(g) \in WorkNode /\ g # f /\ Suspended(g)
    BY <1>5, <1>f DEF Wires, Woken, Armed, Awaiting, Resume, WorkNode
  <2>2. Nodes' = Nodes \cup {Resume(g)} /\ Once(queue')
    BY <1>t, <1>5, <2>1, AppendOnce DEF Nodes, Wires, Linked
  <2>3. Linked'
    BY <1>u, <2>2 DEF Wires, Linked
  <2>4. Drains'
    BY <1>u, <1>v, <1>5, <2>2, Distinct DEF Wires, Drains
  <2>5. ~Armed(g)'
    <3>1. at[g] \in {PointOn("observe", f), PointOn("close", f)}
      BY <1>5 DEF Wires, Parks
    <3>2. g \notin Sleepers /\ scope[g] # "Closing" /\ ~Selecting(g)
      <4>1. at[g] \notin {Point("timer"), Point("scope"), Point("select")}
        BY <3>1, Apart
      <4> QED
        BY <4>1 DEF Wires, Parks, Selecting
    <3>3. ASSUME NEW c \in Frames, waiter[c] \in {Wake(g), Transfer(g)} PROVE c = f /\ waiter[c] = Wake(g)
      <4>1. waiter[c] = Wake(g) => at[g] \in {PointOn("observe", c), PointOn("close", c)}
        BY DEF Wires, Parks
      <4>2. waiter[c] = Transfer(g) => at[g] = PointOn("call", c)
        BY DEF Wires, Parks
      <4> QED
        BY <3>1, <3>3, <4>1, <4>2, Apart
    <3> QED
      BY <1>u, <1>v, <3>2, <3>3 DEF Armed, Awaiting, Selecting
  <2>6. ASSUME NEW h \in Frames, h # g PROVE Armed(h)' <=> Armed(h)
    <3>1. waiter[f] # Wake(h)
      BY <1>5, <2>6, Distinct
    <3> QED
      BY <1>u, <1>v, <3>1 DEF Armed, Awaiting, Selecting
  <2>7. Woken'
    BY <1>t, <1>u, <1>f, <1>s, <2>1, <2>2, <2>5, <2>6, Distinct, FramesAssumption
    DEF Wires, Woken, Suspended
  <2> QED
    BY <1>1, <1>2, <1>3, <1>4, <2>3, <2>4, <2>7 DEF Wires
<1>6. CASE waiter[f] = Drain(g) /\ queue' = Append(queue, Pump(g))
  <2>1. Pump(g) \notin Nodes /\ Pump(g) \in WorkNode /\ scope[g] = "Closing"
    BY <1>6 DEF Wires, Drains, Pump, WorkNode
  <2>2. Nodes' = Nodes \cup {Pump(g)} /\ Once(queue')
    BY <1>t, <1>6, <2>1, AppendOnce DEF Nodes, Wires, Linked
  <2>3. Linked'
    BY <1>u, <2>2 DEF Wires, Linked
  <2>4. Drains'
    <3>1. \A c \in Frames : waiter[c] = Drain(g) => c = f
      BY <1>6 DEF Wires, Drains
    <3>2. \A h \in Frames : h # g => waiter[f] # Drain(h) /\ Pump(h) # Pump(g)
      BY <1>6, Distinct
    <3>3. \A h \in Frames : Pump(h) \in Nodes' <=> Pump(h) \in Nodes \/ h = g
      BY <2>2, <3>2, Distinct
    <3>4. ASSUME NEW h \in Frames, NEW c \in Frames
          PROVE  waiter'[c] = Drain(h) <=> waiter[c] = Drain(h) /\ h # g
      BY <1>v, <3>1, <3>2
    <3> QED
      BY <1>u, <2>1, <3>3, <3>4 DEF Wires, Drains
  <2>5. ASSUME NEW h \in Frames PROVE Armed(h)' <=> Armed(h)
    <3>1. waiter[f] # Wake(h)
      BY <1>6, Distinct
    <3> QED
      BY <1>u, <1>v, <3>1 DEF Armed, Awaiting, Selecting
  <2>6. Woken'
    BY <1>t, <1>u, <1>f, <1>s, <2>2, <2>5, Distinct, FramesAssumption DEF Wires, Woken, Suspended
  <2> QED
    BY <1>1, <1>2, <1>3, <1>4, <2>3, <2>4, <2>6 DEF Wires
<1> QED
  BY <1>0, <1>5, <1>6

\* A child returns to a selection, which detaches from every other candidate.
LEMMA ReturnToSelectionWires ==
    ASSUME IInv, Wires, NEW f \in Frames, NEW outcome, ReturnToSelection(f, outcome)
    PROVE  Wires'
<1>t. /\ status \in [Frames -> {"cold", "live", "done", "freed"}] /\ waiter \in [Frames -> Waiter]
      /\ queue \in Seq(WorkNode) /\ subs \in Seq(Frames)
  BY DEF IInv, TypeOK
<1>0. PICK g \in Frames : waiter[f] = Registration(g) /\ waiter[f].of = g
  <2>1. waiter[f] \in Waiter /\ waiter[f].kind = "select"
    BY <1>t DEF ReturnToSelection
  <2> QED
    BY <2>1, Distinct DEF Waiter, Registration
<1>f. /\ status[f] = "live" /\ Resume(f) \notin Nodes /\ scope[f] = "Closed" /\ ~Armed(f)
      /\ current = f /\ f # NoFrame
      /\ \A c \in Frames : waiter[c] \notin {Transfer(f), Wake(f), Drain(f), Registration(f)}
  BY Returning DEF ReturnToSelection
<1>u. /\ timers' = timers /\ scope' = scope /\ children' = children
      /\ task' = task /\ lineage' = lineage /\ at' = at
      /\ status' = [status EXCEPT ![f] = "done"] /\ queue' = Append(queue, Resume(g))
      /\ waiter' = [c \in Frames |-> IF waiter[c] = Registration(g) THEN Unwaited ELSE waiter[c]]
      /\ subs' = WithoutSubscription(g)
      /\ current' = NoFrame /\ stage' = "host" /\ Sleepers' = Sleepers
  BY <1>0 DEF ReturnToSelection, Sleepers, WithoutRegistrations
<1>w. ToSet(subs') = ToSet(subs) \ {g} /\ Once(subs')
  <2>1. CASE \E i \in DOMAIN subs : subs[i] = g
    <3>1. PICK i \in DOMAIN subs : subs[i] = g /\ subs' = RemoveAt(subs, i)
      BY <1>u, <2>1 DEF WithoutSubscription
    <3> QED
      BY <1>t, <3>1, RemoveAtOnce DEF Wires, Linked
  <2>2. CASE ~\E i \in DOMAIN subs : subs[i] = g
    BY <1>u, <2>2 DEF WithoutSubscription, ToSet, Wires, Linked
  <2> QED
    BY <2>1, <2>2
<1>v. ASSUME NEW d \in Frames, NEW h \in Frames
      PROVE  /\ waiter'[d] = Registration(h) <=> waiter[d] = Registration(h) /\ h # g
             /\ waiter'[d] = Transfer(h) <=> waiter[d] = Transfer(h)
             /\ waiter'[d] = Wake(h) <=> waiter[d] = Wake(h)
             /\ waiter'[d] = Drain(h) <=> waiter[d] = Drain(h)
  BY <1>t, <1>u, Distinct
<1>s. \A d \in Frames : d # f => status'[d] = status[d]
  BY <1>t, <1>u
<1>g. /\ at[g] = Point("select") /\ Resume(g) \notin Nodes /\ Suspended(g) /\ g # f
      /\ Resume(g) \in WorkNode
  BY <1>0, <1>f DEF Wires, Parks, Woken, Armed, Selecting, Suspended, Resume, WorkNode
<1>n. Nodes' = Nodes \cup {Resume(g)} /\ Once(queue')
  BY <1>t, <1>g, <1>u, AppendOnce DEF Nodes, Wires, Linked
<1>1. Linked'
  BY <1>n, <1>u, <1>w DEF Wires, Linked
<1>2. Parks'
  BY <1>u, <1>v, <1>w DEF Wires, Parks, Selecting
<1>3. Woken'
  <2>1. /\ g \notin Sleepers /\ scope[g] # "Closing"
        /\ \A c \in Frames : waiter[c] \notin {Transfer(g), Wake(g)}
    <3>1. Point("select") # Point("timer") /\ Point("select") # Point("scope")
      BY Apart
    <3>2. \A c \in Frames : /\ Point("select") # PointOn("call", c) /\ Point("select") # PointOn("observe", c)
                            /\ Point("select") # PointOn("close", c)
      BY Apart
    <3> QED
      BY <1>g, <3>1, <3>2 DEF Wires, Parks
  <2>2. ~Armed(g)'
    BY <1>u, <1>v, <2>1 DEF Armed, Awaiting, Selecting
  <2>3. ASSUME NEW h \in Frames, h # g PROVE Armed(h)' <=> Armed(h)
    BY <1>u, <1>v, <2>3 DEF Armed, Awaiting, Selecting
  <2> QED
    BY <1>t, <1>u, <1>f, <1>g, <1>n, <1>s, <2>2, <2>3, Distinct, FramesAssumption
    DEF Wires, Woken, Suspended
<1>4. Drains'
  BY <1>u, <1>n, <1>v, Distinct DEF Wires, Drains
<1>5. Family' /\ ScopesOpen' /\ Kept' /\ CurrentLive'
  BY <1>t, <1>u, <1>f DEF Wires, Family, ScopesOpen, Kept, CurrentLive
<1>6. Awaited'
  BY <1>0, <1>t, <1>u, Distinct DEF Wires, Awaited
<1>7. Ended'
  BY <1>t, <1>u, <1>v, <1>f DEF Wires, Ended, Suspended
<1> QED
  BY <1>1, <1>2, <1>3, <1>4, <1>5, <1>6, <1>7 DEF Wires

\* A callee returns: its caller runs again, and the callee is destroyed.
LEMMA ReturnToCallerWires ==
    ASSUME IInv, Wires, NEW f \in Frames, NEW outcome, ReturnToCaller(f, outcome)
    PROVE  Wires'
<1>t. /\ status \in [Frames -> {"cold", "live", "done", "freed"}] /\ waiter \in [Frames -> Waiter]
      /\ at \in [Frames -> Points]
  BY DEF IInv, TypeOK
<1>0. PICK g \in Frames : waiter[f] = Transfer(g) /\ waiter[f].of = g
  <2>1. waiter[f] \in Waiter /\ waiter[f].kind = "handle"
    BY <1>t DEF ReturnToCaller
  <2> QED
    BY <2>1, Distinct DEF Waiter, Transfer
<1>f. /\ status[f] = "live" /\ Resume(f) \notin Nodes /\ scope[f] = "Closed" /\ ~Armed(f)
      /\ current = f /\ f # NoFrame /\ stage = "run"
      /\ \A c \in Frames : waiter[c] \notin {Transfer(f), Wake(f), Drain(f), Registration(f)}
  BY Returning DEF ReturnToCaller
<1>u. /\ timers' = timers /\ subs' = subs /\ scope' = scope /\ children' = children
      /\ task' = task /\ lineage' = lineage /\ queue' = queue
      /\ at' = [at EXCEPT ![g] = Running] /\ status' = [c \in Frames |-> IF c \in {f} THEN "freed" ELSE status[c]]
      /\ waiter' = [waiter EXCEPT ![f] = Unwaited]
      /\ current' = g /\ stage' = stage /\ Sleepers' = Sleepers /\ Nodes' = Nodes
  BY <1>0 DEF ReturnToCaller, Continue, Sleepers, Nodes
<1>v. ASSUME NEW d \in Frames, NEW h \in Frames
      PROVE  /\ waiter'[d] = Registration(h) <=> waiter[d] = Registration(h)
             /\ waiter'[d] = Transfer(h) <=> waiter[d] = Transfer(h) /\ d # f
             /\ waiter'[d] = Wake(h) <=> waiter[d] = Wake(h)
             /\ waiter'[d] = Drain(h) <=> waiter[d] = Drain(h)
  <2>1. CASE d = f
    BY <1>0, <1>t, <1>u, <2>1, Distinct
  <2>2. CASE d # f
    BY <1>t, <1>u, <2>2
  <2> QED
    BY <2>1, <2>2
<1>s. \A d \in Frames : d # f => status'[d] = status[d]
  BY <1>t, <1>u
<1>g. at[g] = PointOn("call", f) /\ Resume(g) \notin Nodes /\ Suspended(g) /\ g # f
  BY <1>0, <1>f DEF Wires, Parks, Woken, Armed, Awaiting, Suspended
<1>h. /\ g \notin Sleepers /\ scope[g] # "Closing" /\ g \notin ToSet(subs)
      /\ \A c \in Frames : /\ waiter[c] \notin {Wake(g), Registration(g)}
                           /\ waiter[c] = Transfer(g) => c = f
  <2>1. /\ PointOn("call", f) \notin {Point("timer"), Point("scope"), Point("select")}
        /\ \A c : PointOn("call", f) \notin {PointOn("observe", c), PointOn("close", c)}
        /\ \A c : PointOn("call", f) = PointOn("call", c) => c = f
    BY Apart
  <2> QED
    BY <1>g, <2>1 DEF Wires, Parks, Selecting
<1>1. Linked' /\ Drains' /\ Family'
  BY <1>u, <1>v DEF Wires, Linked, Drains, Family
<1>2. Parks'
  BY <1>t, <1>u, <1>v, <1>h DEF Wires, Parks, Selecting
<1>3. Woken'
  <2>1. ~Armed(g)'
    BY <1>u, <1>v, <1>h DEF Armed, Awaiting, Selecting
  <2>2. ASSUME NEW h \in Frames, h # g PROVE Armed(h)' <=> Armed(h)
    <3>1. waiter[f] # Transfer(h)
      BY <1>0, <2>2, Distinct
    <3> QED
      BY <1>u, <1>v, <3>1 DEF Armed, Awaiting, Selecting
  <2> QED
    BY <1>t, <1>u, <1>f, <1>g, <1>s, <2>1, <2>2, Distinct DEF Wires, Woken, Suspended
<1>4. ScopesOpen' /\ Kept'
  BY <1>t, <1>u, <1>f DEF Wires, ScopesOpen, Kept
<1>5. CurrentLive'
  BY <1>u, <1>f, <1>g, <1>s DEF CurrentLive, Suspended
<1>6. Awaited'
  BY <1>0, <1>t, <1>u, Distinct DEF Wires, Awaited
<1>7. Ended'
  BY <1>t, <1>u, <1>v, <1>f DEF Wires, Ended, Suspended
<1> QED
  BY <1>1, <1>2, <1>3, <1>4, <1>5, <1>6, <1>7 DEF Wires

\* The host's calls keep the wiring.
LEMMA HostWires == ASSUME IInv, Tree, Wires, HostNext PROVE Wires'
<1>1. ASSUME NEW r \in Roots, StartRoot(r) PROVE Wires'
  BY <1>1, StartRootWires
<1>2. ASSUME NEW r \in Roots, CancelRoot(r) PROVE Wires'
  BY <1>2, QuietWires DEF CancelRoot, Wires, CurrentLive
<1>3. ASSUME NEW r \in Roots, TakeCompletion(r) PROVE Wires'
  BY <1>3, ConsumeWires, FramesAssumption DEF TakeCompletion
<1>4. ASSUME NEW r \in Roots, Advance(r) PROVE Wires'
  BY <1>4, QuietWires DEF Advance, Wires, CurrentLive
<1> QED
  BY <1>1, <1>2, <1>3, <1>4 DEF HostNext

\* What a running body does keeps the wiring.
LEMMA FrameWires == ASSUME IInv, Tree, Wires, FrameNext PROVE Wires'
<1>1. ASSUME NEW f \in Frames, NEW c \in Frames, CancelChild(f, c) PROVE Wires'
  BY <1>1, QuietWires DEF CancelChild, Wires, CurrentLive
<1>2. ASSUME NEW f \in Frames, Stop(f) PROVE Wires'
  BY <1>2, QuietWires DEF Stop, Wires, CurrentLive
<1>3. ASSUME NEW f \in Frames, NEW c \in Frames, ObserveDone(f, c) \/ CloseDone(f, c) PROVE Wires'
  BY <1>3, ConsumeWires DEF ObserveDone, CloseDone
<1> QED
  BY <1>1, <1>2, <1>3, YieldWires, SleepWires, OpenScopeWires, StartChildWires, CallWires,
     WaitWires, SelectWires, CloseScopeWires, ReturnUnobservedWires, ReturnToNodeWires,
     ReturnToSelectionWires, ReturnToCallerWires
  DEF FrameNext

\* Every step keeps the wiring.
LEMMA WiresStep == ASSUME IInv, Tree, Wires, [Next]_vars PROVE Wires'
<1>1. CASE Tick \/ UNCHANGED vars
  BY <1>1, QuietWires DEF Tick, Wires, CurrentLive
<1> QED
  BY <1>1, HostWires, PollWires, DispatchWires, FrameWires DEF Next

\* Nothing is wired at first.
LEMMA InitWires == Init => Wires
<1> SUFFICES ASSUME Init PROVE Wires
  OBVIOUS
<1>1. /\ DOMAIN queue = {} /\ DOMAIN timers = {} /\ DOMAIN subs = {}
      /\ \A f \in Frames : waiter[f] = Unwaited /\ status[f] = "cold" /\ scope[f] = "Closed"
                           /\ children[f] = <<>> /\ DOMAIN children[f] = {}
      /\ current = NoFrame /\ stage = "host"
  BY DEF Init
<1>2. Nodes = {} /\ Sleepers = {} /\ ToSet(subs) = {} /\ \A f \in Frames : ToSet(children[f]) = {}
  BY <1>1 DEF Nodes, Sleepers, ToSet, Ofs
<1>3. Linked
  BY <1>1 DEF Linked, Once, OncePerFrame
<1>4. Parks /\ Woken /\ Drains
  BY <1>1, <1>2, Distinct DEF Parks, Woken, Drains, Armed, Awaiting, Selecting, Suspended
<1>5. Family /\ Awaited /\ ScopesOpen /\ Ended /\ CurrentLive /\ Kept
  BY <1>1, <1>2, Distinct DEF Family, Awaited, ScopesOpen, Ended, CurrentLive, Kept, Suspended
<1> QED
  BY <1>3, <1>4, <1>5 DEF Wires

\* The wiring is an invariant, beside the invariants above.
LEMMA WiresInvariant == Spec => [](SInv /\ Wires)
<1>1. Init => SInv /\ Wires
  BY InitSInv, InitWires
<1>2. SInv /\ [Next]_vars => SInv'
  BY NextIInv, TreeStep, StopRightStep, StopPrevailsStep DEF SInv
<1>3. SInv /\ Wires /\ [Next]_vars => (SInv /\ Wires)'
  BY <1>2, WiresStep DEF SInv
<1> QED
  BY <1>1, <1>3, PTL DEF Spec

-----------------------------------------------------------------------------
(* The three results.                                                      *)

\* What a set of places counts to when there is at most one.
LEMMA AtMostOne ==
    ASSUME NEW S, \A x, y \in S : x = y
    PROVE  Cardinality(S) = IF S = {} THEN 0 ELSE 1
<1>1. CASE S = {}
  BY <1>1, FS_EmptySet
<1>2. CASE S # {}
  <2>1. PICK x \in S : TRUE
    BY <1>2
  <2>2. S = {x}
    BY <2>1
  <2> QED
    BY <1>2, <2>2, FS_Singleton
<1> QED
  BY <1>1, <1>2

\* At most one place of each kind may wake a frame, and the kinds exclude each other
\* because a frame is parked in one awaiter.
LEMMA OneWakeHolds == ASSUME Wires PROVE OneWake
<1> SUFFICES ASSUME NEW f \in Frames PROVE Wakes(f) = IF Suspended(f) THEN 1 ELSE 0
  BY DEF OneWake
<1> DEFINE Q == {i \in DOMAIN queue : queue[i] = Resume(f)}
           A == {c \in Frames : waiter[c] \in {Transfer(f), Wake(f)}}
           T == {i \in DOMAIN timers : timers[i].of = f}
<1>1. Cardinality(Q) = IF Resume(f) \in Nodes THEN 1 ELSE 0
  <2>1. \A i, j \in Q : i = j
    BY DEF Wires, Linked, Once
  <2>2. Q # {} <=> Resume(f) \in Nodes
    BY DEF Nodes, ToSet
  <2> HIDE DEF Q
  <2> QED
    BY <2>1, <2>2, AtMostOne
<1>2. Cardinality(A) = IF Awaiting(f) THEN 1 ELSE 0
  <2>1. ASSUME NEW c \in A, NEW d \in A PROVE c = d
    <3>1. /\ at[f] \in {PointOn("call", c), PointOn("observe", c), PointOn("close", c)}
          /\ at[f] \in {PointOn("call", d), PointOn("observe", d), PointOn("close", d)}
      BY DEF Wires, Parks
    <3> QED
      BY <3>1, Apart
  <2>2. A # {} <=> Awaiting(f)
    BY DEF Awaiting
  <2> HIDE DEF A
  <2> QED
    BY <2>1, <2>2, AtMostOne
<1>3. Cardinality(T) = IF f \in Sleepers THEN 1 ELSE 0
  <2>1. \A i, j \in T : i = j
    BY DEF Wires, Linked, OncePerFrame
  <2>2. T # {} <=> f \in Sleepers
    BY DEF Sleepers, Ofs
  <2> HIDE DEF T
  <2> QED
    BY <2>1, <2>2, AtMostOne
<1>4. Wakes(f) = (IF Resume(f) \in Nodes THEN 1 ELSE 0) + (IF Awaiting(f) THEN 1 ELSE 0)
                   + (IF f \in Sleepers THEN 1 ELSE 0) + (IF Selecting(f) THEN 1 ELSE 0)
                   + (IF scope[f] = "Closing" THEN 1 ELSE 0)
  BY <1>1, <1>2, <1>3 DEF Wakes, Selecting
<1>5. /\ Suspended(f) => Resume(f) \in Nodes \/ Armed(f)
      /\ Resume(f) \in Nodes => Suspended(f) /\ ~Armed(f)
      /\ Armed(f) => Suspended(f)
  BY DEF Wires, Woken
<1>6. /\ f \in Sleepers => at[f] = Point("timer")
      /\ Selecting(f) => at[f] = Point("select")
      /\ scope[f] = "Closing" => at[f] = Point("scope")
      /\ Awaiting(f) => at[f] \notin {Point("timer"), Point("select"), Point("scope")}
  <2>1. ASSUME NEW c \in Frames, waiter[c] \in {Transfer(f), Wake(f)}
        PROVE  at[f] \notin {Point("timer"), Point("select"), Point("scope")}
    <3>1. at[f] \in {PointOn("call", c), PointOn("observe", c), PointOn("close", c)}
      BY <2>1 DEF Wires, Parks
    <3> QED
      BY <3>1, Apart
  <2> QED
    BY <2>1 DEF Wires, Parks, Selecting, Awaiting
<1>7. Point("timer") # Point("select") /\ Point("timer") # Point("scope") /\ Point("select") # Point("scope")
  BY Apart
<1> QED
  BY <1>4, <1>5, <1>6, <1>7 DEF Armed

\* The assertions of OperationState::wait and detail::destroy follow from the wiring.
LEMMA WaiterProtocolHolds == ASSUME IInv, Wires PROVE WaiterProtocol
<1>1. ASSUME NEW f \in Frames, f = current \/ \E i \in DOMAIN queue : queue[i] = Pump(f),
             NEW c \in Held(f)
      PROVE  waiter[c] = Unwaited
  <2>1. f = current \/ Pump(f) \in Nodes
    BY <1>1 DEF Nodes, ToSet
  <2>2. c \in Frames /\ c \in ToSet(children[f])
    BY DEF Held, ToSet, IInv, TypeOK
  <2> QED
    BY <2>1, <2>2, HeldUnwaited
<1>2. \A c \in Frames : status[c] # "live" => waiter[c] = Unwaited
  BY DEF Wires, Awaited
<1>3. ASSUME NEW f \in Frames
      PROVE  Cardinality({i \in DOMAIN queue : queue[i] = Pump(f)})
               + Cardinality({c \in ToSet(children[f]) : waiter[c] = Drain(f)})
               = IF scope[f] = "Closing" THEN 1 ELSE 0
  <2> DEFINE Q == {i \in DOMAIN queue : queue[i] = Pump(f)}
             D == {c \in ToSet(children[f]) : waiter[c] = Drain(f)}
  <2>1. Cardinality(Q) = IF Pump(f) \in Nodes THEN 1 ELSE 0
    <3>1. \A i, j \in Q : i = j
      BY DEF Wires, Linked, Once
    <3>2. Q # {} <=> Pump(f) \in Nodes
      BY DEF Nodes, ToSet
    <3> HIDE DEF Q
    <3> QED
      BY <3>1, <3>2, AtMostOne
  <2>2. Cardinality(D) = IF \E c \in Frames : waiter[c] = Drain(f) THEN 1 ELSE 0
    <3>1. \A c \in ToSet(children[f]) : c \in Frames
      BY DEF ToSet, IInv, TypeOK
    <3>2. \A c, d \in D : c = d
      BY <3>1 DEF Wires, Drains
    <3>3. D # {} <=> \E c \in Frames : waiter[c] = Drain(f)
      BY <3>1, Distinct DEF Wires, Awaited
    <3> HIDE DEF D
    <3> QED
      BY <3>2, <3>3, AtMostOne
  <2>3. /\ scope[f] = "Closing" => Pump(f) \in Nodes \/ \E c \in Frames : waiter[c] = Drain(f)
        /\ Pump(f) \in Nodes => scope[f] = "Closing"
        /\ (\E c \in Frames : waiter[c] = Drain(f)) => scope[f] = "Closing" /\ Pump(f) \notin Nodes
    BY DEF Wires, Drains
  <2> HIDE DEF Q, D
  <2>4. Cardinality(Q) + Cardinality(D) = IF scope[f] = "Closing" THEN 1 ELSE 0
    BY <2>1, <2>2, <2>3
  <2> QED
    BY <2>4 DEF Q, D
<1> QED
  BY <1>1, <1>2, <1>3 DEF WaiterProtocol

\* For any task tree and any interleaving: a suspended coroutine is resumed from exactly one
\* place, no other is, and the assertions of wait and destroy never fail
\* (execution.hpp, child.hpp).
THEOREM WakeExactlyOnce == Spec => []WakesExact
<1>1. SInv /\ Wires => WakesExact
  BY OneWakeHolds, WaiterProtocolHolds DEF SInv, WakesExact
<1> QED
  BY <1>1, WiresInvariant, PTL

\* For any task tree: a child task that exists is held by a scope that has not closed, of an
\* activation that has not returned (child.hpp).
THEOREM StructuredConcurrency == Spec => []ChildrenInScope
<1>1. Wires => ChildrenInScope
  BY DEF Wires, Kept, ScopesOpen, ChildrenInScope, ToSet
<1> QED
  BY <1>1, WiresInvariant, PTL

-----------------------------------------------------------------------------
(* Frames were started in some order, and wait only for later ones.        *)

\* What a frame holds or calls.
Above(f, c) == c \in ToSet(children[f]) \/ waiter[c] = Transfer(f)

Ages == \E birth \in [Frames -> Nat], n \in Nat :
    /\ \A f \in Started : birth[f] < n
    /\ \A f, c \in Frames : Above(f, c) => birth[f] < birth[c]

Earlier == OpToRel(<, Nat)

\* Every nonempty set of naturals has a least element.
LEMMA LeastNat ==
    ASSUME NEW T \in SUBSET Nat, T # {}
    PROVE  \E x \in T : \A y \in T : x <= y
<1>1. IsWellFoundedOn(Earlier, Nat)
  BY NatLessThanWellFounded DEF Earlier
<1>2. PICK x \in T : \A y \in T : <<y, x>> \notin Earlier
  BY <1>1, WFMin
<1>3. \A y \in Nat : y < x => <<y, x>> \in Earlier
  BY DEF Earlier, OpToRel
<1>4. ASSUME NEW y \in T PROVE x <= y
  <2>1. x \in Nat /\ y \in Nat /\ ~(y < x)
    BY <1>2, <1>3
  <2> QED
    BY <2>1
<1> QED
  BY <1>4

\* Whoever holds or calls has started, and so has whatever is held or called.
LEMMA AboveStarted ==
    ASSUME IInv, Tree, Wires, NEW f \in Frames, NEW c \in Frames, Above(f, c)
    PROVE  f \in Started /\ c \in Started
<1>1. CASE c \in ToSet(children[f])
  BY <1>1, Holders
<1>2. CASE waiter[c] = Transfer(f)
  BY <1>2, Distinct DEF Wires, Awaited, IInv, KnownStarted, Started
<1> QED
  BY <1>1, <1>2 DEF Above

\* A frame gets something to hold or to wait for only by starting it.
LEMMA AboveChanges ==
    ASSUME IInv, Tree, Wires, [Next]_vars, NEW f \in Frames, NEW c \in Frames, Above(f, c)'
    PROVE  Above(f, c) \/ (f \in Started /\ c \notin Started /\ c \in Started')
<1> DEFINE Goal == Above(f, c) \/ (f \in Started /\ c \notin Started /\ c \in Started')
<1> SUFFICES Goal
  OBVIOUS
<1>t. /\ waiter \in [Frames -> Waiter] /\ children \in [Frames -> Seq(Frames)]
      /\ status \in [Frames -> {"cold", "live", "done", "freed"}]
  BY DEF IInv, TypeOK
<1>k. ASSUME ToSet(children'[f]) \subseteq ToSet(children[f]),
             waiter'[c] = Transfer(f) => waiter[c] = Transfer(f)
      PROVE  Goal
  BY <1>k DEF Above
<1>s. ASSUME children' = children, waiter' = waiter PROVE Goal
  BY <1>s, <1>k
<1>r. ASSUME children' = children, NEW g, waiter' = WithoutRegistrations(g) PROVE Goal
  BY <1>r, <1>k, Distinct DEF WithoutRegistrations
<1>w. ASSUME children' = children, NEW g \in Frames, NEW w, w # Transfer(f),
             waiter' = [waiter EXCEPT ![g] = w]
      PROVE  Goal
  BY <1>t, <1>w, <1>k
<1>1. CASE HostNext \/ Tick \/ UNCHANGED vars
  BY <1>1, <1>s DEF HostNext, StartRoot, CancelRoot, TakeCompletion, Advance, Tick
<1>2. CASE PollNext
  BY <1>2, <1>s, <1>r DEF PollNext, CancelSelection, CancelTimer, CancellationsDelivered, ExpireTimer
<1>3. CASE DispatchNext
  <2>1. ASSUME NEW i \in DOMAIN queue, DispatchFrame(i) PROVE Goal
    BY <2>1, <1>s DEF DispatchFrame
  <2>2. ASSUME NEW i \in DOMAIN queue, NEW k \in DOMAIN children[queue[i].of],
               DispatchDrainBlocked(i, k)
        PROVE  Goal
    <3>1. PICK g \in Frames : g = queue[i].of
      BY <2>2, DrainOwner DEF DispatchDrainBlocked
    <3>2. /\ children[g] \in Seq(Frames) /\ k \in DOMAIN children[g] /\ children[g][k] \in Frames
          /\ waiter' = [waiter EXCEPT ![children[g][k]] = Drain(g)]
          /\ children' = [children EXCEPT ![g] = SubSeq(children[g], k, Len(children[g]))]
      BY <1>t, <2>2, <3>1 DEF DispatchDrainBlocked
    <3>3. ToSet(SubSeq(children[g], k, Len(children[g]))) \subseteq ToSet(children[g])
      BY <3>2, SuffixOnce DEF ToSet
    <3>4. ToSet(children'[f]) \subseteq ToSet(children[f])
      BY <1>t, <3>2, <3>3
    <3> QED
      BY <1>t, <1>k, <3>2, <3>4, Distinct
  <2>3. ASSUME NEW i \in DOMAIN queue, DispatchDrainClosed(i) PROVE Goal
    <3>1. children' = [children EXCEPT ![queue[i].of] = <<>>] /\ waiter' = waiter
      BY <2>3 DEF DispatchDrainClosed
    <3>2. ToSet(children'[f]) \subseteq ToSet(children[f])
      BY <1>t, <3>1 DEF ToSet
    <3> QED
      BY <1>k, <3>1, <3>2
  <2>4. CASE NothingReady
    BY <2>4, <1>s DEF NothingReady
  <2> QED
    BY <1>3, <2>1, <2>2, <2>3, <2>4 DEF DispatchNext
<1>4. ASSUME NEW g \in Frames, NEW d \in Frames, StartChild(g, d) PROVE Goal
  <2>1. /\ g \in Started /\ d \notin Started /\ d \in Started' /\ waiter' = waiter
        /\ children' = [children EXCEPT ![g] = <<d>> \o children[g]]
    BY <1>t, <1>4, CurrentStarted DEF StartChild, Does, Started
  <2>2. CASE f = g
    <3>1. ToSet(children'[f]) = ToSet(children[f]) \cup {d}
      BY <1>t, <2>1, <2>2, PushOnce
    <3> QED
      BY <2>1, <2>2, <3>1 DEF Above
  <2>3. CASE f # g
    BY <1>t, <1>k, <2>1, <2>3
  <2> QED
    BY <2>2, <2>3
<1>5. ASSUME NEW g \in Frames, NEW d \in Frames, Call(g, d) PROVE Goal
  <2>1. /\ g \in Started /\ d \notin Started /\ d \in Started' /\ children' = children
        /\ waiter' = [waiter EXCEPT ![d] = Transfer(g)]
    BY <1>t, <1>5, CurrentStarted DEF Call, Does, Started
  <2>2. c = d => waiter'[c] = Transfer(g)
    BY <1>t, <2>1
  <2>3. c # d => waiter'[c] = waiter[c]
    BY <1>t, <2>1
  <2> QED
    BY <2>1, <2>2, <2>3, Distinct DEF Above
<1>6. ASSUME NEW g \in Frames, NEW d \in Frames, Observe(g, d) \/ CloseChild(g, d) PROVE Goal
  BY <1>6, <1>w, Distinct DEF Observe, CloseChild
<1>7. ASSUME NEW g \in Frames, NEW candidates \in SUBSET Frames, NEW accept \in BOOLEAN,
             Select(g, candidates, accept)
      PROVE  Goal
  <2>1. children' = children
        /\ waiter' = [h \in Frames |-> IF h \in candidates THEN Registration(g) ELSE waiter[h]]
    BY <1>7 DEF Select
  <2> QED
    BY <1>k, <2>1, Distinct
<1>8. ASSUME NEW g \in Frames, NEW d \in Frames,
             CancelChild(g, d) \/ ObserveDone(g, d) \/ CloseDone(g, d)
      PROVE  Goal
  BY <1>8, <1>s DEF CancelChild, ObserveDone, CloseDone
<1>9. ASSUME NEW g \in Frames,
             \/ Yield(g) \/ \E deadline \in 1..MaxTime : Sleep(g, deadline)
             \/ OpenScope(g) \/ Stop(g)
             \/ \E requestCancel \in BOOLEAN : CloseScope(g, requestCancel)
      PROVE  Goal
  BY <1>9, <1>s DEF Yield, Sleep, OpenScope, Stop, CloseScope
<1>10. ASSUME NEW g \in Frames, NEW outcome \in Outcomes,
              ReturnUnobserved(g, outcome) \/ ReturnToNode(g, outcome)
                \/ ReturnToSelection(g, outcome) \/ ReturnToCaller(g, outcome)
       PROVE  Goal
  BY <1>10, <1>s, <1>r, <1>w, Distinct
  DEF ReturnUnobserved, ReturnToNode, ReturnToSelection, ReturnToCaller
<1> HIDE DEF Goal
<1>11. CASE FrameNext
  BY <1>4, <1>5, <1>6, <1>7, <1>8, <1>9, <1>10, <1>11 DEF FrameNext
<1> QED
  BY <1>1, <1>2, <1>3, <1>11 DEF Next

\* What a step starts is younger than whatever had started.
LEMMA AgesStep == ASSUME IInv, Tree, Wires, Ages, [Next]_vars PROVE Ages'
<1>0. PICK birth \in [Frames -> Nat], n \in Nat :
        /\ \A f \in Started : birth[f] < n
        /\ \A f, c \in Frames : Above(f, c) => birth[f] < birth[c]
  BY DEF Ages
<1>g. Started \subseteq Started'
  BY StartedGrows DEF IInv
<1> DEFINE later == [f \in Frames |-> IF f \in Started THEN birth[f] ELSE n]
<1>1. later \in [Frames -> Nat] /\ n + 1 \in Nat
  BY <1>0
<1>2. \A f \in Frames : later[f] < n + 1
  BY <1>0
<1>3. ASSUME NEW f \in Frames, NEW c \in Frames, Above(f, c)' PROVE later[f] < later[c]
  <2>1. CASE Above(f, c)
    <3>1. f \in Started /\ c \in Started
      BY <2>1, AboveStarted
    <3> QED
      BY <1>0, <2>1, <3>1
  <2>2. CASE f \in Started /\ c \notin Started
    BY <1>0, <2>2
  <2> QED
    BY <1>3, <2>1, <2>2, AboveChanges
<1>4. Started' \subseteq Frames
  BY DEF Started
<1>5. PICK b \in [Frames -> Nat] : b = later
  BY <1>1
<1> HIDE DEF later
<1> QED
  BY <1>1, <1>2, <1>3, <1>4, <1>5 DEF Ages

\* Nothing holds or calls at first.
LEMMA InitAges == Init => Ages
<1> SUFFICES ASSUME Init PROVE Ages
  OBVIOUS
<1>1. Started = {} /\ \A f, c \in Frames : ~Above(f, c)
  BY Distinct DEF Init, Started, Above, ToSet
<1>2. [f \in Frames |-> 0] \in [Frames -> Nat] /\ 0 \in Nat
  OBVIOUS
<1> QED
  BY <1>1, <1>2 DEF Ages

\* A frame that is suspended and in the tree of r is queued, sleeps, drains, or waits for a
\* later frame of the tree.
LEMMA LatestFrameReady ==
    ASSUME IInv, Tree, Wires, Ages, NEW r \in Roots, stage = "host", status[r] = "live"
    PROVE  \/ \E i \in DOMAIN queue : Owned(r, queue[i])
           \/ \E i \in DOMAIN timers : r \in lineage[task[timers[i].of]]
<1> SUFFICES ASSUME \A i \in DOMAIN queue : ~Owned(r, queue[i]),
                    \A i \in DOMAIN timers : r \notin lineage[task[timers[i].of]]
             PROVE  FALSE
  OBVIOUS
<1>0. PICK birth \in [Frames -> Nat], n \in Nat :
        /\ \A f \in Started : birth[f] < n
        /\ \A f, c \in Frames : Above(f, c) => birth[f] < birth[c]
  BY DEF Ages
<1> DEFINE T == {f \in Frames : status[f] = "live" /\ r \in lineage[task[f]]}
           D == {n - birth[f] : f \in T}
<1>1. r \in T
  BY FramesAssumption DEF Tree, OneRoot
<1>2. \A f \in T : n - birth[f] \in Nat
  BY <1>0 DEF Started
<1>3. PICK f \in T : \A c \in T : n - birth[f] <= n - birth[c]
  <2>1. D \in SUBSET Nat /\ D # {}
    BY <1>1, <1>2
  <2> HIDE DEF D
  <2>2. PICK x \in D : \A y \in D : x <= y
    BY <2>1, LeastNat
  <2> QED
    BY <2>2 DEF D
<1>4. f \in Frames /\ Suspended(f)
  BY FramesAssumption DEF Suspended, Wires, CurrentLive
<1>5. ASSUME NEW c \in Frames, Above(f, c) PROVE c \notin T
  <2>1. birth[f] < birth[c] /\ birth[f] \in Nat /\ birth[c] \in Nat
    BY <1>0, <1>4, <1>5
  <2>2. ~(n - birth[f] <= n - birth[c])
    BY <1>0, <2>1
  <2> QED
    BY <1>3, <2>2
<1>6. ASSUME NEW c \in Frames, waiter[c] \in {Wake(f), Drain(f), Registration(f)}
      PROVE  FALSE
  <2>1. status[c] = "live" /\ c \in ToSet(children[f])
    BY <1>6, Distinct DEF Wires, Awaited
  <2>2. task[c] = c /\ lineage[task[f]] \subseteq lineage[c]
    BY <1>4, <2>1 DEF Wires, Family
  <2> QED
    BY <1>5, <2>1, <2>2 DEF Above
<1>7. ASSUME NEW c \in Frames, waiter[c] = Transfer(f) PROVE FALSE
  <2>1. status[c] = "live" /\ task[c] = task[f]
    BY <1>7, Distinct DEF Wires, Awaited, Tree, Callers
  <2> QED
    BY <1>5, <1>7, <2>1 DEF Above
<1>8. f \notin Sleepers
  BY DEF Sleepers, Ofs
<1>9. Resume(f) \notin Nodes /\ Pump(f) \notin Nodes
  <2>1. Resume(f).of = f /\ Pump(f).of = f
    BY DEF Resume, Pump
  <2> QED
    BY <2>1 DEF Nodes, ToSet, Owned
<1> QED
  BY <1>4, <1>6, <1>7, <1>8, <1>9 DEF Wires, Woken, Drains, Armed, Awaiting, Selecting

\* For any task tree: whenever the host has control, an unfinished root has work queued or a
\* task of its own in the timer queue, so drive_root never waits for nothing.
THEOREM NoRootStranded == Spec => []NeverStranded
<1>1. Init => SInv /\ Wires /\ Ages
  BY InitSInv, InitWires, InitAges
<1>2. SInv /\ [Next]_vars => SInv'
  BY NextIInv, TreeStep, StopRightStep, StopPrevailsStep DEF SInv
<1>3. SInv /\ Wires /\ Ages /\ [Next]_vars => (SInv /\ Wires /\ Ages)'
  BY <1>2, WiresStep, AgesStep DEF SInv
<1>4. SInv /\ Wires /\ Ages => NeverStranded
  BY LatestFrameReady DEF SInv, NeverStranded
<1> QED
  BY <1>1, <1>3, <1>4, PTL DEF Spec
=============================================================================
