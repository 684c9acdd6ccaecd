------------------------- MODULE ByteChannelProofs -------------------------
(***************************************************************************)
(* For any number of requests, messages, roots and any capacity: what a    *)
(* byte channel accepts it delivers in order and at most once, and the     *)
(* parked, polled and resumed operations implement the bounded log.        *)
(***************************************************************************)
EXTENDS ByteChannel, SequenceTheorems, TLAPS

-----------------------------------------------------------------------------
(* Facts about lists.                                                      *)

\* A list without one of its entries (ready, events) is still such a list.
LEMMA RemovedIsSeq ==
    ASSUME NEW S, NEW s \in Seq(S), NEW i \in DOMAIN s
    PROVE  RemoveAt(s, i) \in Seq(S)
<1>1. i \in 1..Len(s) /\ Len(s) \in Nat
  OBVIOUS
<1>2. SubSeq(s, 1, i - 1) \in Seq(S)
  BY <1>1, SubSeqProperties
<1>3. SubSeq(s, i + 1, Len(s)) \in Seq(S)
  BY <1>1, SubSeqProperties
<1> QED
  BY <1>2, <1>3, ConcatProperties DEF RemoveAt

\* push_back: what waits is still the end of the log.
LEMMA PushSuffix ==
    ASSUME NEW S, NEW s \in Seq(S), NEW t \in Nat, t <= Len(s), NEW m \in S
    PROVE  /\ Append(SubSeq(s, t + 1, Len(s)), m)
                = SubSeq(Append(s, m), t + 1, Len(Append(s, m)))
           /\ Len(Append(s, m)) = Len(s) + 1
           /\ Append(s, m) \in Seq(S)
           /\ Len(SubSeq(s, t + 1, Len(s))) = Len(s) - t
<1> DEFINE a == SubSeq(s, t + 1, Len(s))
           l == Append(s, m)
           b == SubSeq(l, t + 1, Len(l))
<1>1. /\ l \in Seq(S) /\ Len(l) = Len(s) + 1 /\ Len(s) \in Nat
      /\ \A j \in 1..Len(s) : l[j] = s[j]
      /\ l[Len(s) + 1] = m
  OBVIOUS
<1>2. a \in Seq(S) /\ Len(a) = Len(s) - t /\ \A j \in 1..(Len(s) - t) : a[j] = s[t + j]
  <2>1. \A j \in (t + 1)..Len(s) : s[j] \in S
    OBVIOUS
  <2> QED
    BY <1>1, <2>1, SubSeqProperties
<1> HIDE DEF l
<1>3. b \in Seq(S) /\ Len(b) = Len(s) + 1 - t /\ \A j \in 1..(Len(s) + 1 - t) : b[j] = l[t + j]
  <2>1. \A j \in (t + 1)..Len(l) : l[j] \in S
    BY <1>1
  <2> QED
    BY <1>1, <2>1, SubSeqProperties
<1> HIDE DEF a, b
<1>4. /\ Append(a, m) \in Seq(S) /\ Len(Append(a, m)) = Len(s) - t + 1
      /\ \A j \in 1..(Len(s) - t) : Append(a, m)[j] = a[j]
      /\ Append(a, m)[Len(s) - t + 1] = m
  BY <1>2
<1>5. ASSUME NEW j \in 1..(Len(s) - t + 1) PROVE Append(a, m)[j] = b[j]
  <2>1. CASE j = Len(s) - t + 1
    BY <1>1, <1>3, <1>4, <2>1
  <2>2. CASE j \in 1..(Len(s) - t)
    BY <1>1, <1>2, <1>3, <1>4, <2>2
  <2>3. j = Len(s) - t + 1 \/ j \in 1..(Len(s) - t)
    <3>1. Len(s) \in Nat
      BY <1>1
    <3> QED
      BY <3>1
  <2> QED
    BY <2>1, <2>2, <2>3
<1>6. Append(a, m) = b
  BY <1>1, <1>3, <1>4, <1>5, SeqEqual
<1> QED
  BY <1>1, <1>2, <1>6 DEF a, b, l

\* pop_front: what is delivered is the oldest message that waits.
LEMMA PopSuffix ==
    ASSUME NEW S, NEW s \in Seq(S), NEW t \in Nat, t <= Len(s),
           SubSeq(s, t + 1, Len(s)) # <<>>
    PROVE  /\ t + 1 <= Len(s)
           /\ Head(SubSeq(s, t + 1, Len(s))) = s[t + 1]
           /\ Tail(SubSeq(s, t + 1, Len(s))) = SubSeq(s, (t + 1) + 1, Len(s))
<1>1. Len(s) \in Nat
  OBVIOUS
<1>2. t + 1 <= Len(s)
  <2> SUFFICES ASSUME ~(t + 1 <= Len(s)) PROVE FALSE
    OBVIOUS
  <2> QED
    BY <1>1, SubSeqEmpty
<1>3. t + 1 \in 1..Len(s) /\ Len(s) \in (t + 1)..Len(s)
  BY <1>1, <1>2
<1> QED
  BY <1>2, <1>3, HeadTailOfSubSeq

\* The length of what waits.
LEMMA SuffixLength ==
    ASSUME NEW S, NEW s \in Seq(S), NEW t \in Nat, t <= Len(s)
    PROVE  Len(SubSeq(s, t + 1, Len(s))) = Len(s) - t
<1>1. Len(s) \in Nat /\ \A j \in (t + 1)..Len(s) : s[j] \in S
  OBVIOUS
<1> QED
  BY <1>1, SubSeqProperties

-----------------------------------------------------------------------------
(* The inductive invariant.  An operation has an outcome exactly from the   *)
(* attempt that completes it on, which is what keeps a source that polls    *)
(* see again from taking effect twice.                                      *)

Settled ==
    \A r \in Requests : result[r] = NoOutcome <=> op[r] \in {"cold", "queued", "parked"}

IInv == TypeOK /\ BufferIsLogSuffix /\ Settled /\ ExactlyOnce /\ EndIsFinal

\* What an operation may have been told.
Results == {NoOutcome, Sent, Refused, End, Cancelled} \cup {Data(m) : m \in Messages}

\* The kinds of completion differ.
LEMMA Kinds ==
    /\ NoOutcome # Sent /\ NoOutcome # Refused /\ NoOutcome # End /\ NoOutcome # Cancelled
    /\ Sent # Refused /\ Sent # End /\ Sent # Cancelled
    /\ Refused # End /\ Refused # Cancelled /\ End # Cancelled
    /\ \A m : /\ Data(m) # NoOutcome /\ Data(m) # Sent /\ Data(m) # Refused
              /\ Data(m) # End /\ Data(m) # Cancelled /\ Data(m).kind = "data"
    /\ \A m, n : Data(m) = Data(n) => m = n
    /\ NoOutcome.kind = "none" /\ Sent.kind = "sent" /\ Refused.kind = "refused"
    /\ End.kind = "end" /\ Cancelled.kind = "cancelled"
<1>1. \A m, n : Data(m) = Data(n) => m = n
  <2> TAKE m, n
  <2>1. Data(m).of = {m} /\ Data(n).of = {n}
    BY DEF Data
  <2> QED
    BY <2>1
<1>2. /\ NoOutcome.kind = "none" /\ Sent.kind = "sent" /\ Refused.kind = "refused"
      /\ End.kind = "end" /\ Cancelled.kind = "cancelled" /\ \A m : Data(m).kind = "data"
  BY DEF NoOutcome, Sent, Refused, Data, End, Cancelled
<1> QED
  BY <1>1, <1>2

\* The invariant holds before anything was attached.
LEMMA InitIInv == Init => IInv
<1> SUFFICES ASSUME Init PROVE IInv
  OBVIOUS
<1>1. TypeOK
  <2>1. <<>> \in Seq(Messages) /\ <<>> \in Seq(Requests)
    OBVIOUS
  <2>2. [r \in Requests |-> NoOutcome] \in [Requests -> Results]
    BY DEF Results
  <2>4. result \in [Requests -> Results]
    BY <2>2 DEF Init
  <2>5. op \in [Requests -> {"cold", "queued", "parked", "committed", "returned"}]
    BY DEF Init
  <2>6. /\ buffer \in Seq(Messages) /\ events \in Seq(Requests) /\ ready \in Seq(Requests)
        /\ log \in Seq(Messages) /\ closed \in BOOLEAN /\ asked \subseteq Requests
    BY <2>1 DEF Init
  <2>7. /\ stage \in {"host", "poll", "dispatch", "run"} /\ cursor \in Nat \ {0}
        /\ active \in Roots \cup {NoRoot} /\ taken \in Nat /\ root \in [Requests -> Roots]
    BY DEF Init
  <2> QED
    BY <2>4, <2>5, <2>6, <2>7 DEF TypeOK, Results
<1>2. BufferIsLogSuffix
  <2>1. SubSeq(<<>>, 1, 0) = <<>> /\ Len(<<>>) = 0
    BY SubSeqEmpty
  <2> QED
    BY <2>1, CapacityAssumption DEF Init, BufferIsLogSuffix
<1>3. Settled /\ EndIsFinal
  BY Kinds DEF Init, Settled, EndIsFinal
<1>4. ExactlyOnce
  <2>1. DOMAIN <<>> = {}
    OBVIOUS
  <2> QED
    BY <2>1, Kinds, SendersAssumption DEF Init, ExactlyOnce
<1> QED
  BY <1>1, <1>2, <1>3, <1>4 DEF IInv

-----------------------------------------------------------------------------
(* The operations on the queue.                                            *)

\* push_back accepts a message: it is now last in the log, and waits.
LEMMA Pushed ==
    ASSUME TypeOK, BufferIsLogSuffix, NEW m \in Messages,
           Len(buffer) # Capacity, PushBack(m), UNCHANGED taken
    PROVE  /\ buffer' \in Seq(Messages) /\ log' \in Seq(Messages)
           /\ BufferIsLogSuffix'
           /\ Len(log') = Len(log) + 1 /\ log'[Len(log) + 1] = m
           /\ \A i \in 1..Len(log) : log'[i] = log[i]
<1>1. /\ log \in Seq(Messages) /\ buffer \in Seq(Messages) /\ taken \in Nat /\ taken <= Len(log)
      /\ buffer = SubSeq(log, taken + 1, Len(log)) /\ Len(buffer) <= Capacity
      /\ Len(log) \in Nat /\ Len(buffer) \in Nat /\ Capacity \in Nat
  BY CapacityAssumption DEF TypeOK, BufferIsLogSuffix
<1>2. buffer' = Append(buffer, m) /\ log' = Append(log, m) /\ taken' = taken
  BY DEF PushBack
<1>3. /\ buffer' = SubSeq(log', taken + 1, Len(log')) /\ log' \in Seq(Messages)
      /\ Len(log') = Len(log) + 1
  <2>1. log \in Seq(Messages) /\ taken \in Nat /\ taken <= Len(log)
    BY <1>1
  <2>2. /\ Append(SubSeq(log, taken + 1, Len(log)), m)
             = SubSeq(Append(log, m), taken + 1, Len(Append(log, m)))
        /\ Len(Append(log, m)) = Len(log) + 1
        /\ Append(log, m) \in Seq(Messages)
        /\ Len(SubSeq(log, taken + 1, Len(log))) = Len(log) - taken
    BY <2>1, PushSuffix
  <2> QED
    BY <1>1, <1>2, <2>2
<1>4. buffer' \in Seq(Messages) /\ Len(buffer') = Len(buffer) + 1
  BY <1>1, <1>2
<1>5. log'[Len(log) + 1] = m /\ \A i \in 1..Len(log) : log'[i] = log[i]
  BY <1>1, <1>2
<1>6. taken' <= Len(log') /\ Len(buffer') <= Capacity
  BY <1>1, <1>2, <1>3, <1>4
<1> QED
  BY <1>2, <1>3, <1>4, <1>5, <1>6 DEF BufferIsLogSuffix

\* pop_front delivers the oldest accepted message that was not delivered.
LEMMA Popped ==
    ASSUME TypeOK, BufferIsLogSuffix, buffer # <<>>, PopFront, UNCHANGED log
    PROVE  /\ buffer' \in Seq(Messages) /\ taken' = taken + 1 /\ taken' \in Nat
           /\ BufferIsLogSuffix'
           /\ taken + 1 \in 1..Len(log) /\ Head(buffer) = log[taken + 1]
           /\ log[taken + 1] \in Messages
<1>1. /\ log \in Seq(Messages) /\ buffer \in Seq(Messages) /\ taken \in Nat /\ taken <= Len(log)
      /\ buffer = SubSeq(log, taken + 1, Len(log)) /\ Len(buffer) <= Capacity
      /\ Len(log) \in Nat /\ Len(buffer) \in Nat /\ Capacity \in Nat
  BY CapacityAssumption DEF TypeOK, BufferIsLogSuffix
<1>2. buffer' = Tail(buffer) /\ taken' = taken + 1 /\ log' = log
  BY DEF PopFront
<1>3. /\ taken + 1 <= Len(log) /\ Head(buffer) = log[taken + 1]
      /\ buffer' = SubSeq(log, (taken + 1) + 1, Len(log))
  BY <1>1, <1>2, PopSuffix
<1>4. buffer' \in Seq(Messages) /\ Len(buffer') = Len(buffer) - 1
  BY <1>1, <1>2, HeadTailProperties
<1>5. taken + 1 \in 1..Len(log) /\ log[taken + 1] \in Messages
  BY <1>1, <1>3, ElementOfSeq
<1>6. taken' \in Nat /\ taken' <= Len(log') /\ Len(buffer') <= Capacity
  BY <1>1, <1>2, <1>3, <1>4
<1> QED
  BY <1>2, <1>3, <1>4, <1>5, <1>6 DEF BufferIsLogSuffix

\* A sender's message is in the log only with its success, and names only it.
LEMMA NotYetSent ==
    ASSUME IInv, NEW r \in Senders, op[r] \in {"queued", "parked"}
    PROVE  \A i \in DOMAIN log : log[i] # r
  BY SendersAssumption, Kinds DEF IInv, Settled, ExactlyOnce

\* Request::attempt completes a pending operation: every part of the invariant
\* that relates the log to what the operations were told is kept.
LEMMA AttemptKeeps ==
    ASSUME IInv, NEW r \in Requests, op[r] \in {"queued", "parked"}, NEW o,
           Attempt(r, o), UNCHANGED closed, result' = [result EXCEPT ![r] = o]
    PROVE  /\ o \in Results /\ o # NoOutcome
           /\ buffer' \in Seq(Messages) /\ log' \in Seq(Messages) /\ taken' \in Nat
           /\ BufferIsLogSuffix' /\ ExactlyOnce' /\ EndIsFinal'
<1>1. /\ TypeOK /\ BufferIsLogSuffix /\ ExactlyOnce /\ EndIsFinal
      /\ result[r] = NoOutcome
      /\ DOMAIN result = Requests
      /\ DOMAIN log = 1..Len(log) /\ Len(log) \in Nat /\ taken \in Nat
  BY DEF IInv, Settled, TypeOK
<1>2. /\ result'[r] = o
      /\ \A s \in Requests : s # r => result'[s] = result[s]
  BY <1>1
<1>3. CASE /\ UNCHANGED <<buffer, log, taken>>
           /\ o \in {Cancelled, Refused, End}
           /\ o = End => closed /\ buffer = <<>>
  <2>1. o \in Results /\ o # NoOutcome /\ o # Sent /\ o.kind # "data"
        /\ \A m : o # Data(m)
    BY <1>3, Kinds DEF Results
  <2>2. ExactlyOnce'
    <3>1. \A s \in Senders : result'[s] = Sent <=> \E i \in DOMAIN log : log[i] = s
      BY <1>1, <1>2, <2>1, Kinds, SendersAssumption DEF ExactlyOnce
    <3>2. \A p, q \in Requests : result'[p] = result'[q] /\ result'[p].kind = "data" => p = q
      BY <1>1, <1>2, <2>1 DEF ExactlyOnce
    <3>3. \A s \in Requests, m \in Messages :
            result'[s] = Data(m) => \E i \in 1..taken : log[i] = m
      BY <1>1, <1>2, <2>1 DEF ExactlyOnce
    <3> QED
      BY <1>1, <1>3, <3>1, <3>2, <3>3 DEF ExactlyOnce
  <2>3. EndIsFinal'
    BY <1>1, <1>2, <1>3 DEF EndIsFinal
  <2> QED
    BY <1>1, <1>3, <2>1, <2>2, <2>3 DEF TypeOK, BufferIsLogSuffix
<1>4. CASE r \in Senders /\ o = Sent /\ ~closed /\ Len(buffer) # Capacity
           /\ PushBack(r) /\ UNCHANGED taken
  <2>1. /\ buffer' \in Seq(Messages) /\ log' \in Seq(Messages)
        /\ BufferIsLogSuffix'
        /\ Len(log') = Len(log) + 1 /\ log'[Len(log) + 1] = r
        /\ \A i \in 1..Len(log) : log'[i] = log[i]
    <3>1. r \in Messages
      BY <1>4 DEF Messages
    <3> QED
      BY <1>1, <1>4, <3>1, Pushed
  <2>2. DOMAIN log' = 1..(Len(log) + 1)
    BY <2>1
  <2>3. \A i \in DOMAIN log : log[i] # r
    BY <1>4, NotYetSent
  <2>4. \A s \in Senders : result'[s] = Sent <=> \E i \in DOMAIN log' : log'[i] = s
    <3> SUFFICES ASSUME NEW s \in Senders
                 PROVE  result'[s] = Sent <=> \E i \in DOMAIN log' : log'[i] = s
      OBVIOUS
    <3>1. CASE s = r
      BY <1>1, <1>2, <1>4, <2>1, <2>2, <3>1
    <3>2. CASE s # r
      <4>1. result'[s] = result[s] /\ (result[s] = Sent <=> \E i \in DOMAIN log : log[i] = s)
        BY <1>1, <1>2, <3>2, SendersAssumption DEF ExactlyOnce
      <4>2. (\E i \in DOMAIN log : log[i] = s) <=> (\E i \in DOMAIN log' : log'[i] = s)
        BY <1>1, <2>1, <2>2, <3>2
      <4> QED
        BY <4>1, <4>2
    <3> QED
      BY <3>1, <3>2
  <2>5. \A i, j \in DOMAIN log' : log'[i] = log'[j] => i = j
    BY <1>1, <2>1, <2>2, <2>3 DEF ExactlyOnce
  <2>6. \A p, q \in Requests : result'[p] = result'[q] /\ result'[p].kind = "data" => p = q
    BY <1>1, <1>2, <1>4, Kinds DEF ExactlyOnce
  <2>7. \A s \in Requests, m \in Messages :
          result'[s] = Data(m) => \E i \in 1..taken : log'[i] = m
    <3>1. \A s \in Requests, m \in Messages :
            result'[s] = Data(m) => \E i \in 1..taken : log[i] = m
      BY <1>1, <1>2, <1>4, Kinds DEF ExactlyOnce
    <3>2. taken <= Len(log)
      BY <1>1 DEF BufferIsLogSuffix
    <3> QED
      BY <1>1, <2>1, <3>1, <3>2
  <2>8. ExactlyOnce'
    BY <1>4, <2>4, <2>5, <2>6, <2>7 DEF ExactlyOnce
  <2>9. EndIsFinal'
    BY <1>1, <1>2, <1>4, Kinds DEF EndIsFinal
  <2> QED
    BY <1>1, <1>4, <2>1, <2>8, <2>9, Kinds DEF Results
<1>5. CASE buffer # <<>> /\ o = Data(Head(buffer)) /\ PopFront /\ UNCHANGED log
  <2>1. /\ buffer' \in Seq(Messages) /\ taken' = taken + 1 /\ taken' \in Nat
        /\ BufferIsLogSuffix'
        /\ taken + 1 \in 1..Len(log) /\ Head(buffer) = log[taken + 1]
        /\ log[taken + 1] \in Messages
    BY <1>1, <1>5, Popped
  <2>2. o = Data(log[taken + 1]) /\ o \in Results
    BY <1>5, <2>1 DEF Results
  <2>3. \A s \in Requests, m \in Messages : result[s] = Data(m) => m # log[taken + 1]
    BY <1>1, <2>1 DEF ExactlyOnce
  <2>4. \A s \in Senders : result'[s] = Sent <=> \E i \in DOMAIN log : log[i] = s
    BY <1>1, <1>2, <2>2, Kinds, SendersAssumption DEF ExactlyOnce
  <2>5. \A p, q \in Requests : result'[p] = result'[q] /\ result'[p].kind = "data" => p = q
    <3>1. \A s \in Requests : result[s] # o
      BY <2>1, <2>2, <2>3
    <3> QED
      BY <1>1, <1>2, <3>1 DEF ExactlyOnce
  <2>6. \A s \in Requests, m \in Messages :
          result'[s] = Data(m) => \E i \in 1..taken' : log[i] = m
    <3> SUFFICES ASSUME NEW s \in Requests, NEW m \in Messages, result'[s] = Data(m)
                 PROVE  \E i \in 1..taken' : log[i] = m
      OBVIOUS
    <3>1. CASE s = r
      <4>1. m = log[taken + 1]
        BY <1>2, <2>2, <3>1, Kinds
      <4> QED
        BY <1>1, <2>1, <4>1
    <3>2. CASE s # r
      <4>1. \E i \in 1..taken : log[i] = m
        BY <1>1, <1>2, <3>2 DEF ExactlyOnce
      <4> QED
        BY <1>1, <2>1, <4>1
    <3> QED
      BY <3>1, <3>2
  <2>7. ExactlyOnce'
    BY <1>1, <1>5, <2>4, <2>5, <2>6 DEF ExactlyOnce
  <2>8. EndIsFinal'
    BY <1>1, <1>2, <1>5, <2>2, Kinds DEF EndIsFinal
  <2> QED
    BY <1>1, <1>5, <2>1, <2>2, <2>7, <2>8, Kinds DEF TypeOK
<1> QED
  BY <1>3, <1>4, <1>5, Kinds DEF Attempt

-----------------------------------------------------------------------------
(* Every step preserves the invariant.                                     *)

\* A step that leaves the log and the outcomes alone and keeps pending
\* operations pending keeps everything but the types.
LEMMA Unrelated ==
    ASSUME IInv, UNCHANGED <<buffer, log, taken, result>>, closed => closed',
           TypeOK', Settled'
    PROVE  IInv'
<1>1. BufferIsLogSuffix'
  BY DEF IInv, BufferIsLogSuffix
<1>2. ExactlyOnce'
  BY DEF IInv, ExactlyOnce
<1>3. EndIsFinal'
  BY DEF IInv, EndIsFinal
<1> QED
  BY <1>1, <1>2, <1>3 DEF IInv

\* An attempt of a pending operation by a poll or by the body that starts.
LEMMA AttemptIInv ==
    ASSUME IInv, NEW r \in Requests, op[r] \in {"queued", "parked"}, NEW o, NEW p,
           Attempt(r, o), UNCHANGED closed, result' = [result EXCEPT ![r] = o],
           p \in {"committed", "returned"}, op' = [op EXCEPT ![r] = p],
           UNCHANGED <<asked, root, events>>, ready' \in Seq(Requests),
           stage' \in {"host", "poll", "dispatch", "run"},
           cursor' \in Nat \ {0}, UNCHANGED active
    PROVE  IInv'
<1>1. /\ o \in Results /\ o # NoOutcome
      /\ buffer' \in Seq(Messages) /\ log' \in Seq(Messages) /\ taken' \in Nat
      /\ BufferIsLogSuffix' /\ ExactlyOnce' /\ EndIsFinal'
  BY AttemptKeeps
<1>2. TypeOK
  BY DEF IInv
<1>3. result' \in [Requests -> Results] /\ op' \in [Requests -> {"cold", "queued", "parked", "committed", "returned"}]
  BY <1>1, <1>2 DEF TypeOK, Results
<1>4. TypeOK'
  BY <1>1, <1>2, <1>3 DEF TypeOK, Results
<1>5. Settled'
  BY <1>1, <1>2 DEF IInv, Settled, TypeOK
<1> QED
  BY <1>1, <1>4, <1>5 DEF IInv

\* The synchronous operations and the starting and cancelling of tasks.
LEMMA CallsIInv == IInv /\ Calls => IInv'
<1> SUFFICES ASSUME IInv, Calls PROVE IInv'
  OBVIOUS
<1>0. TypeOK /\ Settled /\ BufferIsLogSuffix /\ ExactlyOnce /\ EndIsFinal
  BY DEF IInv
<1>1. CASE Close
  <2>1. TypeOK'
    BY <1>0, <1>1 DEF TypeOK, Close, requestVars, driverVars, advanceVars
  <2>2. Settled'
    BY <1>0, <1>1 DEF Settled, Close, requestVars
  <2> QED
    BY <1>1, <2>1, <2>2, Unrelated DEF Close, requestVars
<1>2. CASE TryReceive
  <2>1. /\ buffer' \in Seq(Messages) /\ taken' = taken + 1 /\ taken' \in Nat
        /\ BufferIsLogSuffix'
    BY <1>0, <1>2, Popped DEF TryReceive
  <2>2. TypeOK'
    BY <1>0, <1>2, <2>1 DEF TypeOK, TryReceive, requestVars, driverVars, advanceVars
  <2>3. Settled' /\ buffer # <<>>
    BY <1>0, <1>2 DEF Settled, TryReceive, requestVars
  <2>4. ExactlyOnce'
    <3>1. taken \in Nat
      BY <1>0 DEF TypeOK
    <3>2. 1..taken \subseteq 1..taken'
      BY <2>1, <3>1
    <3> QED
      BY <1>0, <1>2, <3>2 DEF ExactlyOnce, TryReceive, requestVars
  <2>5. EndIsFinal'
    BY <1>0, <1>2, <2>3 DEF EndIsFinal, TryReceive, requestVars
  <2> QED
    BY <2>1, <2>2, <2>3, <2>4, <2>5 DEF IInv
<1>3. ASSUME NEW m \in Tries, TrySend(m) PROVE IInv'
  <2>1. /\ buffer' \in Seq(Messages) /\ log' \in Seq(Messages)
        /\ BufferIsLogSuffix'
        /\ Len(log') = Len(log) + 1 /\ log'[Len(log) + 1] = m
        /\ \A i \in 1..Len(log) : log'[i] = log[i]
    <3>1. m \in Messages
      BY DEF Messages
    <3> QED
      BY <1>0, <1>3, <3>1, Pushed DEF TrySend
  <2>2. /\ UNCHANGED <<closed, taken, op, result>> /\ ~closed
        /\ \A i \in DOMAIN log : log[i] # m
    BY <1>3 DEF TrySend, requestVars
  <2>3. TypeOK'
    BY <1>0, <1>3, <2>1 DEF TypeOK, TrySend, requestVars, driverVars, advanceVars
  <2>4. Settled' /\ EndIsFinal'
    BY <1>0, <2>2 DEF Settled, EndIsFinal
  <2>5. ExactlyOnce'
    <3>1. /\ DOMAIN log = 1..Len(log) /\ DOMAIN log' = 1..(Len(log) + 1)
          /\ Len(log) \in Nat /\ taken \in Nat /\ taken <= Len(log)
      BY <1>0, <2>1 DEF TypeOK, BufferIsLogSuffix
    <3>2. \A s \in Senders : (\E i \in DOMAIN log : log[i] = s) <=> (\E i \in DOMAIN log' : log'[i] = s)
      <4>1. \A s \in Senders : s # m
        BY SendersAssumption
      <4> QED
        BY <2>1, <3>1, <4>1
    <3>3. \A i, j \in DOMAIN log' : log'[i] = log'[j] => i = j
      BY <1>0, <2>1, <2>2, <3>1 DEF ExactlyOnce
    <3>4. \A s \in Requests, x \in Messages :
            result[s] = Data(x) => \E i \in 1..taken : log'[i] = x
      BY <1>0, <2>1, <3>1 DEF ExactlyOnce
    <3> QED
      BY <1>0, <2>2, <3>2, <3>3, <3>4 DEF ExactlyOnce
  <2> QED
    BY <2>1, <2>3, <2>4, <2>5 DEF IInv
<1>4. ASSUME NEW r \in Requests, Spawn(r) PROVE IInv'
  <2>1. TypeOK'
    BY <1>0, <1>4 DEF TypeOK, Spawn, channelVars, advanceVars
  <2>2. Settled'
    BY <1>0, <1>4 DEF Settled, Spawn, TypeOK
  <2> QED
    BY <1>4, <2>1, <2>2, Unrelated DEF Spawn, channelVars
<1>5. ASSUME NEW r \in Requests, Cancel(r) PROVE IInv'
  <2>1. TypeOK'
    BY <1>0, <1>5 DEF TypeOK, Cancel, channelVars, requestVars, driverVars, advanceVars
  <2>2. Settled'
    BY <1>0, <1>5 DEF Settled, Cancel, requestVars
  <2> QED
    BY <1>5, <2>1, <2>2, Unrelated DEF Cancel, channelVars, requestVars
<1> QED
  BY <1>1, <1>2, <1>3, <1>4, <1>5 DEF Calls

\* Driver::poll: a source under the cursor passes or commits.
LEMMA PollIInv == IInv /\ Poll => IInv'
<1> SUFFICES ASSUME IInv, Poll PROVE IInv'
  OBVIOUS
<1>0. TypeOK /\ Settled
  BY DEF IInv
<1>1. ASSUME NEW r \in ToSet(events), PollPasses(r) PROVE IInv'
  <2>1. TypeOK'
    BY <1>0, <1>1 DEF TypeOK, PollPasses, Visiting, channelVars, requestVars, driverVars
  <2>2. Settled'
    BY <1>0, <1>1 DEF Settled, PollPasses, requestVars
  <2> QED
    BY <1>1, <2>1, <2>2, Unrelated DEF PollPasses, channelVars, requestVars
<1>2. ASSUME NEW r \in ToSet(events), NEW o \in Outcomes, PollCommits(r, o) PROVE IInv'
  <2>1. r \in Requests
    BY <1>0, <1>2 DEF TypeOK, PollCommits, Visiting
  <2>2. ready' \in Seq(Requests) /\ cursor' \in Nat \ {0} /\ stage' \in {"host", "poll", "dispatch", "run"}
    BY <1>0, <1>2, <2>1 DEF TypeOK, PollCommits
  <2> QED
    BY <1>2, <2>1, <2>2, AttemptIInv DEF PollCommits
<1>3. ASSUME PollEnds PROVE IInv'
  <2>1. TypeOK'
    BY <1>0, <1>3 DEF TypeOK, PollEnds, channelVars, requestVars, driverVars
  <2>2. Settled'
    BY <1>0, <1>3 DEF Settled, PollEnds, requestVars
  <2> QED
    BY <1>3, <2>1, <2>2, Unrelated DEF PollEnds, channelVars, requestVars
<1> QED
  BY <1>1, <1>2, <1>3 DEF Poll

\* Driver::dispatch_one: an operation starts or its task is resumed.
LEMMA DispatchIInv == IInv /\ Dispatch => IInv'
<1> SUFFICES ASSUME IInv, Dispatch PROVE IInv'
  OBVIOUS
<1>0. TypeOK /\ Settled
  BY DEF IInv
<1>a. ASSUME NEW i \in DOMAIN ready PROVE ready[i] \in Requests /\ RemoveAt(ready, i) \in Seq(Requests)
  BY <1>0, RemovedIsSeq DEF TypeOK
<1>1. ASSUME NEW i \in DOMAIN ready, NEW o \in Outcomes, StartCompletes(i, o) PROVE IInv'
  <2>1. ready' \in Seq(Requests) /\ cursor' \in Nat \ {0} /\ stage' \in {"host", "poll", "dispatch", "run"}
    BY <1>0, <1>1, <1>a DEF TypeOK, StartCompletes
  <2> QED
    BY <1>1, <1>a, <2>1, AttemptIInv DEF StartCompletes
<1>2. ASSUME NEW i \in DOMAIN ready, StartParks(i) PROVE IInv'
  <2>1. events' \in Seq(Requests) /\ ready' \in Seq(Requests)
    BY <1>0, <1>2, <1>a DEF TypeOK, StartParks
  <2>2. TypeOK'
    BY <1>0, <1>2, <1>a, <2>1 DEF TypeOK, StartParks, channelVars
  <2>3. Settled'
    BY <1>0, <1>2, <1>a DEF Settled, StartParks, TypeOK
  <2> QED
    BY <1>2, <2>2, <2>3, Unrelated DEF StartParks, channelVars
<1>3. ASSUME NEW i \in DOMAIN ready, Resume(i) PROVE IInv'
  <2>1. Detached(ready[i]) \in Seq(Requests)
    BY <1>0, RemovedIsSeq DEF TypeOK, Detached
  <2>2. TypeOK'
    BY <1>0, <1>3, <1>a, <2>1 DEF TypeOK, Resume, channelVars
  <2>3. Settled'
    BY <1>0, <1>3, <1>a DEF Settled, Resume, TypeOK
  <2> QED
    BY <1>3, <2>2, <2>3, Unrelated DEF Resume, channelVars
<1>4. ASSUME NothingReady PROVE IInv'
  <2>1. TypeOK'
    BY <1>0, <1>4 DEF TypeOK, NothingReady, channelVars, requestVars, driverVars
  <2>2. Settled'
    BY <1>0, <1>4 DEF Settled, NothingReady, requestVars
  <2> QED
    BY <1>4, <2>1, <2>2, Unrelated DEF NothingReady, channelVars, requestVars
<1> QED
  BY <1>1, <1>2, <1>3, <1>4 DEF Dispatch

\* Every step of the channel and its driver.
LEMMA NextIInv == IInv /\ [Next]_vars => IInv'
<1> SUFFICES ASSUME IInv, [Next]_vars PROVE IInv'
  OBVIOUS
<1>0. TypeOK /\ Settled
  BY DEF IInv
<1>1. CASE Calls
  BY <1>1, CallsIInv
<1>2. CASE Poll
  BY <1>2, PollIInv
<1>3. CASE Dispatch
  BY <1>3, DispatchIInv
<1>4. CASE Return
  <2>1. TypeOK'
    BY <1>0, <1>4 DEF TypeOK, Return, channelVars, requestVars, driverVars
  <2>2. Settled'
    BY <1>0, <1>4 DEF Settled, Return, requestVars
  <2> QED
    BY <1>4, <2>1, <2>2, Unrelated DEF Return, channelVars, requestVars
<1>5. ASSUME NEW t \in Roots, Advance(t) PROVE IInv'
  <2>1. TypeOK'
    BY <1>0, <1>5 DEF TypeOK, Advance, channelVars, requestVars, driverVars
  <2>2. Settled'
    BY <1>0, <1>5 DEF Settled, Advance, requestVars
  <2> QED
    BY <1>5, <2>1, <2>2, Unrelated DEF Advance, channelVars, requestVars
<1>6. CASE UNCHANGED vars
  <2>1. TypeOK' /\ Settled'
    BY <1>0, <1>6 DEF TypeOK, Settled, vars, channelVars, requestVars, driverVars, advanceVars
  <2> QED
    BY <1>6, <2>1, Unrelated DEF vars, channelVars, requestVars
<1> QED
  BY <1>1, <1>2, <1>3, <1>4, <1>5, <1>6 DEF Next

\* The invariant holds in every behaviour.
LEMMA Invariance == Spec => []IInv
<1>1. Init => IInv
  BY InitIInv
<1>2. IInv /\ [Next]_vars => IInv'
  BY NextIInv
<1> QED
  BY <1>1, <1>2, PTL DEF Spec

-----------------------------------------------------------------------------
(* Results.                                                                *)

\* Every variable keeps its type.
THEOREM TypeCorrect == Spec => []TypeOK
<1>1. IInv => TypeOK
  BY DEF IInv
<1> QED
  BY <1>1, Invariance, PTL

\* The buffer holds exactly the accepted messages that were not delivered, in
\* the order in which they were accepted, and never more than the capacity.
THEOREM Ordered == Spec => []BufferIsLogSuffix
<1>1. IInv => BufferIsLogSuffix
  BY DEF IInv
<1> QED
  BY <1>1, Invariance, PTL

\* No message is delivered twice, and a sender was told Sent exactly when its
\* message was accepted, whatever cancellations and closes happened.
THEOREM NothingDoubled == Spec => []ExactlyOnce
<1>1. IInv => ExactlyOnce
  BY DEF IInv
<1> QED
  BY <1>1, Invariance, PTL

\* A receiver told End was not told too early: the channel is closed and empty.
THEOREM EndRight == Spec => []EndIsFinal
<1>1. IInv => EndIsFinal
  BY DEF IInv
<1> QED
  BY <1>1, Invariance, PTL

\* Only an attempt of a pending operation gives an outcome.
LEMMA WhoCompletes ==
    ASSUME IInv, [Next]_vars
    PROVE  \/ UNCHANGED result
           \/ \E r \in Requests, o \in Outcomes :
                op[r] \in {"queued", "parked"} /\ result' = [result EXCEPT ![r] = o]
<1>0. TypeOK
  BY DEF IInv
<1>1. ASSUME NEW r \in ToSet(events), NEW o \in Outcomes, PollCommits(r, o)
      PROVE  r \in Requests /\ op[r] = "parked" /\ result' = [result EXCEPT ![r] = o]
  BY <1>0, <1>1 DEF TypeOK, PollCommits, Visiting
<1>2. ASSUME NEW i \in DOMAIN ready, NEW o \in Outcomes, StartCompletes(i, o)
      PROVE  /\ ready[i] \in Requests /\ op[ready[i]] = "queued"
             /\ result' = [result EXCEPT ![ready[i]] = o]
  BY <1>0, <1>2 DEF TypeOK, StartCompletes
<1>3. CASE Calls
  BY <1>3 DEF Calls, Close, TryReceive, TrySend, Spawn, Cancel, requestVars
<1>4. CASE Poll
  BY <1>1, <1>4 DEF Poll, PollPasses, PollEnds, requestVars
<1>5. CASE Dispatch
  BY <1>2, <1>5 DEF Dispatch, StartParks, Resume, NothingReady, requestVars
<1>6. CASE Return \/ (\E t \in Roots : Advance(t)) \/ UNCHANGED vars
  BY <1>6 DEF Return, Advance, vars, requestVars
<1> QED
  BY <1>3, <1>4, <1>5, <1>6 DEF Next

\* What one poll committed, no later poll, cancellation or close replaces.
THEOREM CommittedOnce == Spec => CommitOnce
<1>1. IInv /\ [Next]_vars => \A r \in Requests : result[r] # NoOutcome => result'[r] = result[r]
  <2> SUFFICES ASSUME IInv, [Next]_vars, NEW r \in Requests, result[r] # NoOutcome
               PROVE  result'[r] = result[r]
    OBVIOUS
  <2>1. DOMAIN result = Requests /\ op[r] \notin {"queued", "parked"}
    BY DEF IInv, TypeOK, Settled
  <2> QED
    BY <2>1, WhoCompletes
<1> QED
  BY <1>1, Invariance, PTL DEF Spec, CommitOnce

-----------------------------------------------------------------------------
(* The channel implements the bounded log.                                 *)

Pending == {r \in Requests : op[r] \in {"queued", "parked"}}

\* How many messages wait, in terms of the log.
LEMMA WaitingIsBuffer ==
    ASSUME TypeOK, BufferIsLogSuffix
    PROVE  /\ Log!Waiting = Len(buffer) /\ Len(buffer) \in Nat
           /\ Len(buffer) # Capacity => Log!Waiting < Capacity
           /\ buffer # <<>> => Log!Waiting > 0 /\ Head(buffer) = log[taken + 1]
           /\ buffer = <<>> => Log!Waiting = 0
<1>1. /\ log \in Seq(Messages) /\ buffer \in Seq(Messages) /\ taken \in Nat /\ taken <= Len(log)
      /\ buffer = SubSeq(log, taken + 1, Len(log)) /\ Len(buffer) <= Capacity
      /\ Len(log) \in Nat /\ Len(buffer) \in Nat /\ Capacity \in Nat
  BY CapacityAssumption DEF TypeOK, BufferIsLogSuffix
<1>2. Len(buffer) = Len(log) - taken
  BY <1>1, SuffixLength
<1>3. Log!Waiting = Len(log) - taken
  BY DEF Log!Waiting
<1>4. buffer # <<>> => Head(buffer) = log[taken + 1]
  BY <1>1, PopSuffix
<1>5. buffer # <<>> => Len(buffer) > 0
  BY <1>1
<1>6. buffer = <<>> => Len(buffer) = 0
  BY <1>1
<1> QED
  BY <1>1, <1>2, <1>3, <1>4, <1>5, <1>6

\* An attempt is one step of the log.
LEMMA AttemptRefines ==
    ASSUME IInv, NEW r \in Requests, op[r] \in {"queued", "parked"}, NEW o, NEW p,
           Attempt(r, o), UNCHANGED <<closed, asked>>, result' = [result EXCEPT ![r] = o],
           p \in {"committed", "returned"}, op' = [op EXCEPT ![r] = p]
    PROVE  Log!Next
<1>1. TypeOK /\ BufferIsLogSuffix
  BY DEF IInv
<1>2. Log!Complete(r, o)
  <2>1. r \in Pending /\ Pending' = Pending \ {r}
    BY <1>1 DEF Pending, TypeOK
  <2> QED
    BY <2>1 DEF Log!Complete, Pending
<1>3. CASE o = Cancelled /\ r \in asked /\ UNCHANGED <<buffer, log, taken>>
  BY <1>2, <1>3 DEF Log!Next, Log!Cancel, Log!Cancelled, Cancelled
<1>4. CASE r \in Senders /\ o = Sent /\ ~closed /\ Len(buffer) # Capacity
           /\ PushBack(r) /\ UNCHANGED taken
  BY <1>1, <1>2, <1>4, WaitingIsBuffer DEF Log!Next, Log!Send, Log!Sent, Sent, PushBack
<1>5. CASE r \in Senders /\ o = Refused /\ closed /\ UNCHANGED <<buffer, log, taken>>
  BY <1>2, <1>5 DEF Log!Next, Log!Refuse, Log!Refused, Refused
<1>6. CASE r \notin Senders /\ buffer # <<>> /\ o = Data(Head(buffer)) /\ PopFront /\ UNCHANGED log
  <2>1. Log!Waiting > 0 /\ Head(buffer) = log[taken + 1]
    BY <1>1, <1>6, WaitingIsBuffer
  <2>2. o = Log!Data(log[taken + 1])
    BY <1>6, <2>1 DEF Log!Data, Data
  <2>3. Log!Complete(r, Log!Data(log[taken + 1]))
    BY <1>2, <2>2 DEF Log!Complete
  <2>4. Log!Receive(r)
    BY <1>6, <2>1, <2>3 DEF Log!Receive, PopFront
  <2> QED
    BY <2>4 DEF Log!Next
<1>7. CASE r \notin Senders /\ o = End /\ buffer = <<>> /\ closed /\ UNCHANGED <<buffer, log, taken>>
  BY <1>1, <1>2, <1>7, WaitingIsBuffer DEF Log!Next, Log!Finish, Log!End, End
<1> QED
  BY <1>3, <1>4, <1>5, <1>6, <1>7 DEF Attempt

\* Every step of the channel is a step of the log or a stutter.
LEMMA StepRefines == IInv /\ [Next]_vars => [Log!Next]_(Log!vars)
<1> SUFFICES ASSUME IInv, [Next]_vars PROVE Log!Next \/ UNCHANGED Log!vars
  OBVIOUS
<1>0. TypeOK /\ Settled /\ BufferIsLogSuffix
  BY DEF IInv
<1>s. ASSUME UNCHANGED <<log, taken, closed, asked, result>>, Pending' = Pending
      PROVE  UNCHANGED Log!vars
  BY <1>s DEF Log!vars, Pending
<1>1. CASE Close
  BY <1>1 DEF Close, Log!Next, Log!Close, requestVars
<1>2. CASE TryReceive
  BY <1>0, <1>2, WaitingIsBuffer DEF TryReceive, PopFront, Log!Next, Log!TryReceive, requestVars
<1>3. ASSUME NEW m \in Tries, TrySend(m) PROVE Log!Next
  BY <1>0, <1>3, WaitingIsBuffer DEF TrySend, PushBack, Log!Next, Log!TrySend, requestVars
<1>4. ASSUME NEW r \in Requests, Spawn(r) PROVE Log!Next
  <2>1. Pending' = Pending \cup {r} /\ r \notin Pending
    BY <1>0, <1>4 DEF Spawn, Pending, TypeOK
  <2>2. result[r] = NoOutcome
    BY <1>0, <1>4 DEF Spawn, Settled
  <2>3. Log!Begin(r)
    BY <1>4, <2>1, <2>2 DEF Log!Begin, Spawn, Pending, Log!NoOutcome, NoOutcome, channelVars
  <2> QED
    BY <2>3 DEF Log!Next
<1>5. ASSUME NEW r \in Requests, Cancel(r) PROVE Log!Next
  BY <1>5 DEF Cancel, Log!Next, Log!Ask, channelVars, requestVars
<1>6. ASSUME NEW r \in ToSet(events), NEW o \in Outcomes, PollCommits(r, o) PROVE Log!Next
  <2>1. r \in Requests
    BY <1>0, <1>6 DEF TypeOK, PollCommits, Visiting
  <2> QED
    BY <1>6, <2>1, AttemptRefines DEF PollCommits
<1>7. ASSUME NEW i \in DOMAIN ready, NEW o \in Outcomes, StartCompletes(i, o) PROVE Log!Next
  <2>1. ready[i] \in Requests
    BY <1>0 DEF TypeOK
  <2> QED
    BY <1>7, <2>1, AttemptRefines DEF StartCompletes
<1>8. ASSUME NEW i \in DOMAIN ready, StartParks(i) PROVE UNCHANGED Log!vars
  <2>1. Pending' = Pending
    BY <1>0, <1>8 DEF StartParks, Pending, TypeOK
  <2> QED
    BY <1>s, <1>8, <2>1 DEF StartParks, channelVars
<1>9. ASSUME NEW i \in DOMAIN ready, Resume(i) PROVE UNCHANGED Log!vars
  <2>1. Pending' = Pending
    BY <1>0, <1>9 DEF Resume, Pending, TypeOK
  <2> QED
    BY <1>s, <1>9, <2>1 DEF Resume, channelVars
<1>10. CASE \/ \E r \in ToSet(events) : PollPasses(r)
            \/ PollEnds \/ NothingReady \/ Return \/ (\E t \in Roots : Advance(t))
            \/ UNCHANGED vars
  <2>1. UNCHANGED <<channelVars, requestVars, asked>>
    BY <1>10 DEF PollPasses, PollEnds, NothingReady, Return, Advance, vars
  <2>2. Pending' = Pending
    BY <2>1 DEF requestVars, Pending
  <2> QED
    BY <1>s, <2>1, <2>2 DEF channelVars, requestVars
<1> QED
  BY <1>1, <1>2, <1>3, <1>4, <1>5, <1>6, <1>7, <1>8, <1>9, <1>10
     DEF Next, Calls, Poll, Dispatch

\* A channel behaves as one log on which every operation takes effect at one
\* instant between its start and its end, or never: parking, the repeated
\* attempts of the polls and the late cancellation requests do not show.
THEOREM Linearization == Spec => Linearizable
<1>1. Init => Log!Init
  BY DEF Init, Log!Init, Log!NoOutcome, NoOutcome
<1>2. IInv /\ [Next]_vars => [Log!Next]_(Log!vars)
  BY StepRefines
<1> QED
  BY <1>1, <1>2, Invariance, PTL DEF Spec, Linearizable, Log!Spec
-----------------------------------------------------------------------------
(* The lists of the driver hold no node twice.                              *)

\* RemoveAt closes the gap.
LEMMA RemovedAt ==
    ASSUME NEW S, NEW s \in Seq(S), NEW i \in DOMAIN s
    PROVE  /\ DOMAIN RemoveAt(s, i) = 1..(Len(s) - 1)
           /\ \A j \in 1..(Len(s) - 1) :
                RemoveAt(s, i)[j] = IF j < i THEN s[j] ELSE s[j + 1]
<1> DEFINE a == SubSeq(s, 1, i - 1)
           b == SubSeq(s, i + 1, Len(s))
<1>1. i \in 1..Len(s) /\ Len(s) \in Nat
  OBVIOUS
<1>2. a \in Seq(S) /\ Len(a) = i - 1 /\ \A j \in 1..(i - 1) : a[j] = s[j]
  <2>1. \A j \in 1..(i - 1) : s[j] \in S
    BY <1>1
  <2> QED
    BY <1>1, <2>1, SubSeqProperties
<1>3. b \in Seq(S) /\ Len(b) = Len(s) - i /\ \A j \in 1..(Len(s) - i) : b[j] = s[i + j]
  <2>1. \A j \in (i + 1)..Len(s) : s[j] \in S
    BY <1>1
  <2> QED
    BY <1>1, <2>1, SubSeqProperties
<1>4. RemoveAt(s, i) = a \o b
  BY DEF RemoveAt
<1> HIDE DEF a, b
<1>5. /\ a \o b \in Seq(S) /\ Len(a \o b) = Len(s) - 1
      /\ \A j \in 1..(Len(s) - 1) : (a \o b)[j] = IF j < i THEN s[j] ELSE s[j + 1]
  <2>1. /\ a \o b \in Seq(S) /\ Len(a \o b) = Len(a) + Len(b)
        /\ \A j \in 1..(Len(a) + Len(b)) :
             (a \o b)[j] = IF j <= Len(a) THEN a[j] ELSE b[j - Len(a)]
    BY <1>2, <1>3, ConcatProperties
  <2>3. Len(a) + Len(b) = Len(s) - 1
    BY <1>1, <1>2, <1>3
  <2>2. ASSUME NEW j \in 1..(Len(s) - 1)
        PROVE  (a \o b)[j] = IF j < i THEN s[j] ELSE s[j + 1]
    <3>1. CASE j < i
      BY <1>1, <1>2, <1>3, <3>1
    <3>2. CASE ~(j < i)
      <4>1. j - (i - 1) \in 1..(Len(s) - i) /\ i + (j - (i - 1)) = j + 1
        BY <1>1, <3>2
      <4>2. (a \o b)[j] = b[j - Len(a)]
        BY <1>1, <1>2, <2>1, <2>3, <3>2
      <4>3. b[j - (i - 1)] = s[j + 1]
        BY <1>3, <4>1
      <4> QED
        BY <1>2, <3>2, <4>2, <4>3
    <3> QED
      BY <3>1, <3>2
  <2> QED
    BY <2>1, <2>2, <2>3
<1>6. DOMAIN (a \o b) = 1..(Len(s) - 1)
  BY <1>5
<1> QED
  BY <1>4, <1>5, <1>6

\* push_back of a node that is not in the list.
LEMMA AppendedOnce ==
    ASSUME NEW S, NEW s \in Seq(S), NEW m \in S, Once(s), m \notin ToSet(s)
    PROVE  Once(Append(s, m)) /\ ToSet(Append(s, m)) = ToSet(s) \cup {m}
<1>1. /\ Len(s) \in Nat /\ DOMAIN s = 1..Len(s)
      /\ DOMAIN Append(s, m) = 1..(Len(s) + 1)
      /\ \A j \in 1..Len(s) : Append(s, m)[j] = s[j]
      /\ Append(s, m)[Len(s) + 1] = m
  OBVIOUS
<1>2. \A j \in 1..Len(s) : s[j] # m
  BY <1>1 DEF ToSet
<1>3. \A j \in 1..(Len(s) + 1) : j \in 1..Len(s) \/ j = Len(s) + 1
  BY <1>1
<1>4. Once(Append(s, m))
  BY <1>1, <1>2, <1>3 DEF Once
<1>5. ToSet(Append(s, m)) = ToSet(s) \cup {m}
  <2>1. Len(s) + 1 \in 1..(Len(s) + 1) /\ 1..Len(s) \subseteq 1..(Len(s) + 1)
    BY <1>1
  <2> QED
    BY <1>1, <1>3, <2>1 DEF ToSet
<1> QED
  BY <1>4, <1>5

\* push_front of a node that is not in the list.
LEMMA PrependedOnce ==
    ASSUME NEW S, NEW s \in Seq(S), NEW m \in S, Once(s), m \notin ToSet(s)
    PROVE  Once(<<m>> \o s) /\ ToSet(<<m>> \o s) = ToSet(s) \cup {m}
<1> DEFINE t == <<m>> \o s
<1>1. /\ Len(s) \in Nat /\ DOMAIN s = 1..Len(s) /\ DOMAIN t = 1..(Len(s) + 1)
      /\ t[1] = m /\ \A j \in 1..Len(s) : t[j + 1] = s[j]
  OBVIOUS
<1> HIDE DEF t
<1>2. \A j \in 1..Len(s) : s[j] # m
  BY <1>1 DEF ToSet
<1>3. \A j \in 1..(Len(s) + 1) : j = 1 \/ (j - 1 \in 1..Len(s) /\ t[j] = s[j - 1])
  <2> TAKE j \in 1..(Len(s) + 1)
  <2>1. j = 1 \/ (j - 1 \in 1..Len(s) /\ (j - 1) + 1 = j)
    BY <1>1
  <2> QED
    BY <1>1, <2>1
<1>4. Once(t)
  <2> SUFFICES ASSUME NEW i \in 1..(Len(s) + 1), NEW j \in 1..(Len(s) + 1), t[i] = t[j]
               PROVE  i = j
    BY <1>1 DEF Once
  <2>1. CASE i = 1 \/ j = 1
    BY <1>1, <1>2, <1>3, <2>1
  <2>2. CASE i # 1 /\ j # 1
    <3>1. i - 1 = j - 1
      BY <1>1, <1>3, <2>2 DEF Once
    <3> QED
      BY <1>1, <3>1
  <2> QED
    BY <2>1, <2>2
<1>5. ToSet(t) = ToSet(s) \cup {m}
  <2>1. 1 \in 1..(Len(s) + 1) /\ \A j \in 1..Len(s) : j + 1 \in 1..(Len(s) + 1)
    BY <1>1
  <2>2. ToSet(t) \subseteq ToSet(s) \cup {m}
    BY <1>1, <1>3 DEF ToSet
  <2>3. ToSet(s) \subseteq ToSet(t)
    BY <1>1, <2>1 DEF ToSet
  <2>4. m \in ToSet(t)
    BY <1>1, <2>1 DEF ToSet
  <2> QED
    BY <2>2, <2>3, <2>4
<1> QED
  BY <1>4, <1>5 DEF t

\* Unlinking a node leaves every other one, and not the node.
LEMMA RemovedOnce ==
    ASSUME NEW S, NEW s \in Seq(S), NEW i \in DOMAIN s, Once(s)
    PROVE  Once(RemoveAt(s, i)) /\ ToSet(RemoveAt(s, i)) = ToSet(s) \ {s[i]}
<1> DEFINE t == RemoveAt(s, i)
           Old(j) == IF j < i THEN j ELSE j + 1
<1>1. /\ Len(s) \in Nat /\ DOMAIN s = 1..Len(s) /\ i \in 1..Len(s)
      /\ DOMAIN t = 1..(Len(s) - 1)
      /\ \A j \in 1..(Len(s) - 1) : t[j] = IF j < i THEN s[j] ELSE s[j + 1]
  BY RemovedAt
<1> HIDE DEF t
<1>2. \A j \in 1..(Len(s) - 1) : Old(j) \in 1..Len(s) /\ Old(j) # i /\ t[j] = s[Old(j)]
  BY <1>1
<1>3. \A j, k \in 1..(Len(s) - 1) : Old(j) = Old(k) => j = k
  BY <1>1
<1>4. \A k \in 1..Len(s) : k # i => \E j \in 1..(Len(s) - 1) : Old(j) = k
  <2> SUFFICES ASSUME NEW k \in 1..Len(s), k # i
               PROVE  \E j \in 1..(Len(s) - 1) : Old(j) = k
    OBVIOUS
  <2>1. CASE k < i
    BY <1>1, <2>1
  <2>2. CASE k > i
    <3>1. k - 1 \in 1..(Len(s) - 1) /\ Old(k - 1) = k
      BY <1>1, <2>2
    <3> HIDE DEF Old
    <3> QED
      BY <3>1
  <2> QED
    BY <1>1, <2>1, <2>2
<1> HIDE DEF Old
<1>5. Once(t)
  BY <1>1, <1>2, <1>3 DEF Once
<1>6. ToSet(t) \subseteq ToSet(s) \ {s[i]}
  BY <1>1, <1>2 DEF ToSet, Once
<1>7. ToSet(s) \ {s[i]} \subseteq ToSet(t)
  <2> SUFFICES ASSUME NEW k \in 1..Len(s), s[k] # s[i] PROVE s[k] \in ToSet(t)
    BY <1>1 DEF ToSet
  <2>1. PICK j \in 1..(Len(s) - 1) : Old(j) = k
    BY <1>4
  <2> QED
    BY <1>1, <1>2, <2>1 DEF ToSet
<1> QED
  BY <1>5, <1>6, <1>7 DEF t

-----------------------------------------------------------------------------
\* Detaching a source that is attached unlinks it and nothing else.
LEMMA DetachedOnce ==
    ASSUME TypeOK, Once(events), NEW r \in ToSet(events)
    PROVE  Once(Detached(r)) /\ ToSet(Detached(r)) = ToSet(events) \ {r}
<1>1. \E k \in DOMAIN events : events[k] = r
  BY DEF ToSet
<1> DEFINE k == CHOOSE k \in DOMAIN events : events[k] = r
<1>2. k \in DOMAIN events /\ events[k] = r
  BY <1>1
<1>3. Detached(r) = RemoveAt(events, k)
  BY <1>1 DEF Detached
<1> HIDE DEF k
<1>4. events \in Seq(Requests)
  BY DEF TypeOK
<1> QED
  BY <1>2, <1>3, <1>4, RemovedOnce

\* Every step leaves the lists of the driver exact.
LEMMA NextAttached == TypeOK /\ SourcesAttached /\ [Next]_vars => SourcesAttached'
<1> SUFFICES ASSUME TypeOK, SourcesAttached, [Next]_vars PROVE SourcesAttached'
  OBVIOUS
<1>1. /\ events \in Seq(Requests) /\ ready \in Seq(Requests)
      /\ op \in [Requests -> {"cold", "queued", "parked", "committed", "returned"}]
  BY DEF TypeOK
<1>2. /\ Once(events) /\ ToSet(events) = {r \in Requests : op[r] \in {"parked", "committed"}}
      /\ Once(ready) /\ ToSet(ready) = {r \in Requests : op[r] \in {"queued", "committed"}}
  BY DEF SourcesAttached
<1>3. ASSUME events' = events, ready' = ready, op' = op PROVE SourcesAttached'
  BY <1>2, <1>3 DEF SourcesAttached
<1>4. ASSUME NEW i \in DOMAIN ready
      PROVE  ready[i] \in Requests /\ ready[i] \in ToSet(ready)
  BY <1>1, <1>4 DEF ToSet
<1>5. CASE Calls
  <2>1. ASSUME NEW r \in Requests, Spawn(r) PROVE SourcesAttached'
    <3>1. op[r] = "cold" /\ op' = [op EXCEPT ![r] = "queued"]
          /\ ready' = Append(ready, r) /\ events' = events
      BY <2>1 DEF Spawn
    <3>2. r \notin ToSet(ready)
      BY <1>2, <3>1
    <3>3. Once(ready') /\ ToSet(ready') = ToSet(ready) \cup {r}
      BY <1>1, <1>2, <3>1, <3>2, AppendedOnce
    <3>4. {q \in Requests : op'[q] \in {"parked", "committed"}} = ToSet(events)
      BY <1>1, <1>2, <3>1
    <3>5. {q \in Requests : op'[q] \in {"queued", "committed"}} = ToSet(ready) \cup {r}
      BY <1>1, <1>2, <3>1
    <3>6. Once(events') /\ ToSet(events') = ToSet(events)
      BY <1>2, <3>1
    <3> QED
      BY <3>3, <3>4, <3>5, <3>6 DEF SourcesAttached
  <2>2. ASSUME NEW r \in Requests, Cancel(r) PROVE SourcesAttached'
    BY <1>3, <2>2 DEF Cancel, requestVars, driverVars
  <2>3. CASE Close
    BY <1>3, <2>3 DEF Close, requestVars, driverVars
  <2>4. CASE TryReceive
    BY <1>3, <2>4 DEF TryReceive, requestVars, driverVars
  <2>5. ASSUME NEW m \in Tries, TrySend(m) PROVE SourcesAttached'
    BY <1>3, <2>5 DEF TrySend, requestVars, driverVars
  <2> QED
    BY <1>5, <2>1, <2>2, <2>3, <2>4, <2>5 DEF Calls
<1>6. CASE Poll
  <2>1. ASSUME NEW r, NEW o, PollCommits(r, o), r \in ToSet(events) PROVE SourcesAttached'
    <3>1. op[r] = "parked" /\ op' = [op EXCEPT ![r] = "committed"]
          /\ ready' = Append(ready, r) /\ events' = events
      BY <2>1 DEF PollCommits
    <3>2. r \in Requests /\ r \notin ToSet(ready)
      BY <1>2, <2>1, <3>1
    <3>3. Once(ready') /\ ToSet(ready') = ToSet(ready) \cup {r}
      BY <1>1, <1>2, <3>1, <3>2, AppendedOnce
    <3>4. {q \in Requests : op'[q] \in {"parked", "committed"}} = ToSet(events)
      BY <1>1, <1>2, <3>1, <3>2
    <3>5. {q \in Requests : op'[q] \in {"queued", "committed"}} = ToSet(ready) \cup {r}
      BY <1>1, <1>2, <3>1, <3>2
    <3>6. Once(events') /\ ToSet(events') = ToSet(events)
      BY <1>2, <3>1
    <3> QED
      BY <3>3, <3>4, <3>5, <3>6 DEF SourcesAttached
  <2>2. ASSUME NEW r, PollPasses(r) PROVE SourcesAttached'
    BY <1>3, <2>2 DEF PollPasses, requestVars, driverVars
  <2>3. CASE PollEnds
    BY <1>3, <2>3 DEF PollEnds, requestVars, driverVars
  <2> QED
    BY <1>6, <2>1, <2>2, <2>3 DEF Poll
<1>7. CASE Dispatch
  <2>1. ASSUME NEW i \in DOMAIN ready, NEW o, StartCompletes(i, o) PROVE SourcesAttached'
    <3>1. op[ready[i]] = "queued" /\ op' = [op EXCEPT ![ready[i]] = "returned"]
          /\ ready' = RemoveAt(ready, i) /\ events' = events
      BY <2>1 DEF StartCompletes
    <3>2. Once(ready') /\ ToSet(ready') = ToSet(ready) \ {ready[i]}
      BY <1>1, <1>2, <3>1, RemovedOnce
    <3>3. {q \in Requests : op'[q] \in {"parked", "committed"}} = ToSet(events)
      BY <1>1, <1>2, <1>4, <3>1
    <3>4. {q \in Requests : op'[q] \in {"queued", "committed"}} = ToSet(ready) \ {ready[i]}
      BY <1>1, <1>2, <1>4, <3>1
    <3>5. Once(events') /\ ToSet(events') = ToSet(events)
      BY <1>2, <3>1
    <3> QED
      BY <3>2, <3>3, <3>4, <3>5 DEF SourcesAttached
  <2>2. ASSUME NEW i \in DOMAIN ready, StartParks(i) PROVE SourcesAttached'
    <3>1. op[ready[i]] = "queued" /\ op' = [op EXCEPT ![ready[i]] = "parked"]
          /\ ready' = RemoveAt(ready, i) /\ events' = <<ready[i]>> \o events
      BY <2>2 DEF StartParks, Selected
    <3>2. Once(ready') /\ ToSet(ready') = ToSet(ready) \ {ready[i]}
      BY <1>1, <1>2, <3>1, RemovedOnce
    <3>3. ready[i] \in Requests /\ ready[i] \notin ToSet(events)
      BY <1>2, <1>4, <3>1
    <3>7. events \in Seq(Requests) /\ Once(events)
      BY <1>1, <1>2
    <3>4. /\ Once(<<ready[i]>> \o events)
          /\ ToSet(<<ready[i]>> \o events) = ToSet(events) \cup {ready[i]}
      BY <3>3, <3>7, PrependedOnce
    <3>5. {q \in Requests : op'[q] \in {"parked", "committed"}} = ToSet(events) \cup {ready[i]}
      BY <1>1, <1>2, <3>1, <3>3
    <3>6. {q \in Requests : op'[q] \in {"queued", "committed"}} = ToSet(ready) \ {ready[i]}
      BY <1>1, <1>2, <3>1, <3>3
    <3> QED
      BY <3>1, <3>2, <3>4, <3>5, <3>6 DEF SourcesAttached
  <2>3. ASSUME NEW i \in DOMAIN ready, Resume(i) PROVE SourcesAttached'
    <3>1. op[ready[i]] = "committed" /\ op' = [op EXCEPT ![ready[i]] = "returned"]
          /\ ready' = RemoveAt(ready, i) /\ events' = Detached(ready[i])
      BY <2>3 DEF Resume
    <3>2. Once(ready') /\ ToSet(ready') = ToSet(ready) \ {ready[i]}
      BY <1>1, <1>2, <3>1, RemovedOnce
    <3>3. ready[i] \in Requests /\ ready[i] \in ToSet(events)
      BY <1>2, <1>4, <3>1
    <3>4. Once(events') /\ ToSet(events') = ToSet(events) \ {ready[i]}
      BY <1>2, <3>1, <3>3, DetachedOnce
    <3>5. {q \in Requests : op'[q] \in {"parked", "committed"}} = ToSet(events) \ {ready[i]}
      BY <1>1, <1>2, <3>1, <3>3
    <3>6. {q \in Requests : op'[q] \in {"queued", "committed"}} = ToSet(ready) \ {ready[i]}
      BY <1>1, <1>2, <3>1, <3>3
    <3> QED
      BY <3>2, <3>4, <3>5, <3>6 DEF SourcesAttached
  <2>4. CASE NothingReady
    BY <1>3, <2>4 DEF NothingReady, requestVars, driverVars
  <2> QED
    BY <1>7, <2>1, <2>2, <2>3, <2>4 DEF Dispatch
<1>8. CASE Return
  BY <1>3, <1>8 DEF Return, requestVars, driverVars
<1>9. ASSUME NEW t \in Roots, Advance(t) PROVE SourcesAttached'
  BY <1>3, <1>9 DEF Advance, requestVars, driverVars
<1>10. CASE UNCHANGED vars
  BY <1>3, <1>10 DEF vars, requestVars, driverVars
<1> QED
  BY <1>5, <1>6, <1>7, <1>8, <1>9, <1>10 DEF Next

\* For any requests, capacity and roots: what the driver polls and queues is exactly
\* what is suspended, once each, so a request is never resumed twice nor polled after
\* its destruction (channel/native.cpp:90).
THEOREM Attached == Spec => []SourcesAttached
<1>1. Init => SourcesAttached
  BY DEF Init, SourcesAttached, Once, ToSet
<1>2. TypeOK /\ SourcesAttached /\ [Next]_vars => SourcesAttached'
  BY NextAttached
<1> QED
  BY <1>1, <1>2, TypeCorrect, PTL DEF Spec
-----------------------------------------------------------------------------
\* What the walk of a poll has seen while nothing is queued: every source before the
\* cursor is blocked.  Each attempt that changes the channel queues its operation.
Walked ==
    /\ stage # "poll" => cursor = 1
    /\ stage = "poll" /\ ready = <<>> =>
         \A i \in DOMAIN events : i < cursor /\ op[events[i]] = "parked" => ~Attemptable(events[i])

\* Every step of a poll keeps what it has seen, and its end makes it complete.
LEMMA NextWalked ==
    TypeOK /\ SourcesAttached /\ Walked /\ NoFalseDeadlock /\ [Next]_vars
      => Walked' /\ NoFalseDeadlock'
<1> SUFFICES ASSUME TypeOK, SourcesAttached, Walked, NoFalseDeadlock, [Next]_vars
             PROVE  Walked' /\ NoFalseDeadlock'
  OBVIOUS
<1>1. /\ events \in Seq(Requests) /\ ready \in Seq(Requests) /\ cursor \in Nat \ {0}
  BY DEF TypeOK
<1>2. ASSUME stage' = "host" \/ stage' = "run", cursor' = 1 PROVE Walked' /\ NoFalseDeadlock'
  BY <1>2 DEF Walked, NoFalseDeadlock
<1>3. CASE Calls
  <2>1. InControl /\ stage' = stage /\ cursor' = cursor
    BY <1>3 DEF Calls, Close, TryReceive, TrySend, Spawn, Cancel, advanceVars
  <2> QED
    BY <1>2, <2>1 DEF InControl, Walked
<1>4. CASE Poll
  <2>1. ASSUME NEW r, NEW o, PollCommits(r, o) PROVE Walked' /\ NoFalseDeadlock'
    <3>1. stage = "poll" /\ stage' = stage /\ ready' = Append(ready, r)
      BY <2>1 DEF PollCommits, Visiting
    <3>2. ready' # <<>>
      BY <1>1, <3>1
    <3> QED
      BY <3>1, <3>2 DEF Walked, NoFalseDeadlock
  <2>2. ASSUME NEW r, PollPasses(r) PROVE Walked' /\ NoFalseDeadlock'
    <3>1. /\ stage = "poll" /\ cursor \in DOMAIN events /\ r = events[cursor]
          /\ op[r] # "parked" \/ ~Attemptable(r)
          /\ cursor' = cursor + 1 /\ stage' = stage
      BY <2>2 DEF PollPasses, Visiting
    <3>2. UNCHANGED <<buffer, closed, op, asked, events, ready>>
      BY <2>2 DEF PollPasses, channelVars, requestVars, driverVars
    <3>3. \A q : Attemptable(q)' = Attemptable(q)
      BY <3>2 DEF Attemptable
    <3>4. \A i \in DOMAIN events : i < cursor' => i < cursor \/ i = cursor
      BY <1>1, <3>1
    <3> QED
      BY <3>1, <3>2, <3>3, <3>4 DEF Walked, NoFalseDeadlock
  <2>3. ASSUME PollEnds PROVE Walked' /\ NoFalseDeadlock'
    <3>1. /\ stage = "poll" /\ stage' = "dispatch" /\ cursor' = 1
          /\ cursor \notin DOMAIN events
          /\ UNCHANGED <<buffer, closed, op, asked, events, ready>>
      BY <2>3 DEF PollEnds, channelVars, requestVars, driverVars
    <3>2. \A q : Attemptable(q)' = Attemptable(q)
      BY <3>1 DEF Attemptable
    <3>3. \A i \in DOMAIN events : i < cursor
      BY <1>1, <3>1
    <3>4. ASSUME ready = <<>>, NEW q \in Requests, op[q] = "parked" PROVE ~Attemptable(q)
      <4>1. PICK i \in DOMAIN events : events[i] = q
        BY <3>4 DEF SourcesAttached, ToSet
      <4> QED
        BY <3>1, <3>3, <3>4, <4>1 DEF Walked
    <3> QED
      BY <3>1, <3>2, <3>4 DEF Walked, NoFalseDeadlock
  <2> QED
    BY <1>4, <2>1, <2>2, <2>3 DEF Poll
<1>5. CASE Dispatch
  <2>1. stage = "dispatch" /\ cursor' = cursor
    BY <1>5 DEF Dispatch, StartCompletes, StartParks, Resume, NothingReady, Selected
  <2>2. stage' = "host" \/ stage' = "run"
    BY <1>5 DEF Dispatch, StartCompletes, StartParks, Resume, NothingReady
  <2> QED
    BY <1>2, <2>1, <2>2 DEF Walked
<1>6. CASE Return
  BY <1>2, <1>6 DEF Return, Walked
<1>7. ASSUME NEW t \in Roots, Advance(t) PROVE Walked' /\ NoFalseDeadlock'
  <2>1. stage = "host" /\ stage' = "poll" /\ cursor' = cursor /\ events' = events
    BY <1>7 DEF Advance, driverVars
  <2>2. cursor' = 1 /\ \A i \in DOMAIN events' : ~(i < 1)
    BY <1>1, <2>1 DEF Walked
  <2> QED
    BY <2>1, <2>2 DEF Walked, NoFalseDeadlock
<1>8. CASE UNCHANGED vars
  <2>1. UNCHANGED <<buffer, closed, op, asked, events, ready, stage, cursor>>
    BY <1>8 DEF vars, channelVars, requestVars, driverVars, advanceVars
  <2>2. \A q : Attemptable(q)' = Attemptable(q)
    BY <2>1 DEF Attemptable
  <2> QED
    BY <2>1, <2>2 DEF Walked, NoFalseDeadlock
<1> QED
  BY <1>3, <1>4, <1>5, <1>6, <1>7, <1>8 DEF Next

\* For any requests, capacity and roots: a driver that finds nothing queued after a poll
\* has no source that could go on, so drive_root, which then terminates the program
\* (execution.hpp:871), never terminates one that could.
THEOREM NoneStranded == Spec => []NoFalseDeadlock
<1>1. Init => Walked /\ NoFalseDeadlock
  BY DEF Init, Walked, NoFalseDeadlock
<1>2. TypeOK /\ SourcesAttached /\ Walked /\ NoFalseDeadlock /\ [Next]_vars
        => Walked' /\ NoFalseDeadlock'
  BY NextWalked
<1> QED
  BY <1>1, <1>2, TypeCorrect, Attached, PTL DEF Spec

\* The driver serves exactly the operations that wait for it.
THEOREM DriverServesAll == Spec => []DriverServes
<1>1. SourcesAttached /\ NoFalseDeadlock => DriverServes
  BY DEF DriverServes
<1> QED
  BY <1>1, Attached, NoneStranded, PTL
=============================================================================
