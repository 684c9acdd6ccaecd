-------------------------- MODULE ProcessesProofs -------------------------
(***************************************************************************)
(* For any children, requests and process numbers: a number is only        *)
(* signalled while its child holds it, no child is forgotten, and what is  *)
(* told of an exit is true.                                                *)
(***************************************************************************)
EXTENDS Processes, SequenceTheorems, FiniteSetTheorems, TLAPS

-----------------------------------------------------------------------------
(* The inductive invariant.                                                *)

Typed ==
    /\ holder \in [Pids -> Children \cup {Foreign, Nobody}]
    /\ pid \in [Children -> SUBSET Pids] /\ status \in [Children -> SUBSET Statuses]
    /\ exit \in [Children -> {{}, {0}, {Killed}}] /\ told \in [Children -> SUBSET Statuses]
    /\ alive \subseteq Children /\ fresh \subseteq Children /\ handles \subseteq Children
    /\ op \in [Requests -> {"none", "cold", "parked", "queued", "returned"}]
    /\ DOMAIN completion = Requests
    /\ events \in Seq(Requests) /\ group \in Seq(Children) /\ scan \in Nat

\* A child that has a number has a State that has not reaped it and knows the
\* number, and the State of a child that was not reaped finds it there.
Held ==
    \A k \in Pids : \A p \in Children :
      holder[k] = p => pid[p] = {k} /\ status[p] = {} /\ Live(p)
Reachable ==
    \A p \in Children : Live(p) /\ status[p] = {} => \E k \in Pids : pid[p] = {k} /\ holder[k] = p

\* A child that was not spawned has left no trace.
Unspawned ==
    \A p \in fresh :
      /\ pid[p] = {} /\ exit[p] = {} /\ status[p] = {} /\ told[p] = {}
      /\ p \notin alive /\ ~Live(p)

\* A child that runs has no exit, and whoever knows an exit knows the one
\* there is; so does every wait that came to an end.
Truthful ==
    /\ \A p \in alive : exit[p] = {}
    /\ \A p \in Children : status[p] \subseteq exit[p] /\ told[p] \subseteq exit[p]
Answered ==
    \A r \in Requests :
      Kind[r] = "Wait" /\ completion[r].code \notin {"None", "Busy", "Cancelled"} =>
         completion[r].code = "Done" /\ exit[On[r]] = {completion[r].count}

\* An entry occurs once.
Once(s) == \A i \in DOMAIN s : \A j \in DOMAIN s : s[i] = s[j] => i = j

\* The sources of the driver are parked or queued operations, each once, and
\* the thread blocks only when there is one.
Sources ==
    /\ \A r \in ToSet(events) : op[r] \in {"parked", "queued"}
    /\ Once(events)
    /\ stage = "wait" => events # <<>>

\* A group owns its children alone, and its owner knows their order.
Grouped ==
    /\ callers = group
    /\ \A p \in ToSet(group) : p \notin handles /\ \A r \in Requests : On[r] # p
    /\ stage = "group" => scan \in DOMAIN group

PInv ==
    /\ Typed /\ Held /\ Reachable /\ Unspawned /\ Truthful /\ Answered
    /\ Sources /\ Grouped
    /\ harmed = {}

-----------------------------------------------------------------------------
(* Sequences.                                                              *)

\* RemoveAt drops exactly the entry at i and keeps the order of the others.
LEMMA RemoveAtProperties ==
    ASSUME NEW S, NEW s \in Seq(S), NEW i \in DOMAIN s
    PROVE  /\ RemoveAt(s, i) \in Seq(S)
           /\ Len(RemoveAt(s, i)) = Len(s) - 1
           /\ \A j \in 1..(Len(s) - 1) :
                RemoveAt(s, i)[j] = IF j < i THEN s[j] ELSE s[j + 1]
<1>1. i \in 1..Len(s) /\ Len(s) \in Nat
  OBVIOUS
<1> DEFINE a == SubSeq(s, 1, i - 1)
           b == SubSeq(s, i + 1, Len(s))
<1>2. /\ a \in Seq(S) /\ Len(a) = i - 1
      /\ \A j \in 1..(i - 1) : a[j] = s[j]
  BY <1>1
<1>3. /\ b \in Seq(S) /\ Len(b) = Len(s) - i
      /\ \A j \in 1..(Len(s) - i) : b[j] = s[i + j]
  BY <1>1
<1> HIDE DEF a, b
<1>4. /\ a \o b \in Seq(S)
      /\ Len(a \o b) = Len(s) - 1
      /\ \A j \in 1..(Len(s) - 1) : (a \o b)[j] = IF j <= i - 1 THEN a[j] ELSE b[j - (i - 1)]
  <2>1. /\ a \o b \in Seq(S) /\ Len(a \o b) = Len(a) + Len(b)
        /\ \A j \in 1..(Len(a) + Len(b)) :
             (a \o b)[j] = IF j <= Len(a) THEN a[j] ELSE b[j - Len(a)]
    BY <1>2, <1>3, ConcatProperties
  <2>2. Len(a) = i - 1 /\ Len(a) + Len(b) = Len(s) - 1
    BY <1>1, <1>2, <1>3
  <2> QED
    BY <2>1, <2>2
<1>5. ASSUME NEW j \in 1..(Len(s) - 1)
      PROVE  (a \o b)[j] = IF j < i THEN s[j] ELSE s[j + 1]
  <2>1. CASE j < i
    <3>1. j <= i - 1 /\ j \in 1..(i - 1)
      BY <1>1, <2>1
    <3> QED
      BY <1>2, <1>4, <2>1, <3>1
  <2>2. CASE ~(j < i)
    <3>1. ~(j <= i - 1) /\ j - (i - 1) \in 1..(Len(s) - i) /\ i + (j - (i - 1)) = j + 1
      BY <1>1, <2>2
    <3> QED
      BY <1>3, <1>4, <2>2, <3>1
  <2> QED
    BY <2>1, <2>2
<1>6. RemoveAt(s, i) = a \o b
  BY DEF RemoveAt, a, b
<1> QED
  BY <1>4, <1>5, <1>6

\* Unlinking an entry.
LEMMA RemoveAtElements ==
    ASSUME NEW S, NEW s \in Seq(S), NEW i \in DOMAIN s
    PROVE  /\ s[i] \in S /\ RemoveAt(s, i) \in Seq(S)
           /\ ToSet(RemoveAt(s, i)) \subseteq ToSet(s)
           /\ ToSet(s) \subseteq ToSet(RemoveAt(s, i)) \cup {s[i]}
           /\ Once(s) => Once(RemoveAt(s, i)) /\ s[i] \notin ToSet(RemoveAt(s, i))
<1> DEFINE t == RemoveAt(s, i)
<1>1. /\ t \in Seq(S) /\ Len(t) = Len(s) - 1 /\ Len(s) \in Nat /\ i \in 1..Len(s)
      /\ DOMAIN s = 1..Len(s) /\ DOMAIN t = 1..(Len(s) - 1)
      /\ \A j \in 1..(Len(s) - 1) : t[j] = IF j < i THEN s[j] ELSE s[j + 1]
  BY RemoveAtProperties
<1> HIDE DEF t
<1>2. \A j \in DOMAIN t : \E k \in DOMAIN s : k # i /\ t[j] = s[k] /\ (k = j \/ k = j + 1)
                                                    /\ (k = j <=> j < i)
  BY <1>1
<1>3. \A k \in DOMAIN s : k # i => \E j \in DOMAIN t : t[j] = s[k]
  <2> SUFFICES ASSUME NEW k \in DOMAIN s, k # i PROVE \E j \in DOMAIN t : t[j] = s[k]
    OBVIOUS
  <2>1. CASE k < i
    BY <1>1, <2>1
  <2>2. CASE k > i
    <3>1. k - 1 \in DOMAIN t /\ ~(k - 1 < i) /\ (k - 1) + 1 = k
      BY <1>1, <2>2
    <3> QED
      BY <1>1, <3>1
  <2> QED
    BY <1>1, <2>1, <2>2
<1>4. ToSet(t) \subseteq ToSet(s) /\ ToSet(s) \subseteq ToSet(t) \cup {s[i]}
  BY <1>2, <1>3 DEF ToSet
<1>5. ASSUME Once(s) PROVE Once(t) /\ s[i] \notin ToSet(t)
  <2>1. s[i] \notin ToSet(t)
    BY <1>2, <1>5 DEF ToSet, Once
  <2>2. ASSUME NEW a \in DOMAIN t, NEW b \in DOMAIN t, t[a] = t[b] PROVE a = b
    <3>1. PICK k \in DOMAIN s : t[a] = s[k] /\ (k = a \/ k = a + 1) /\ (k = a <=> a < i)
      BY <1>2
    <3>2. PICK m \in DOMAIN s : t[b] = s[m] /\ (m = b \/ m = b + 1) /\ (m = b <=> b < i)
      BY <1>2
    <3>3. k = m
      BY <1>5, <2>2, <3>1, <3>2 DEF Once
    <3> QED
      BY <1>1, <3>1, <3>2, <3>3
  <2> QED
    BY <2>1, <2>2 DEF Once
<1>6. s[i] \in S
  OBVIOUS
<1> QED
  BY <1>1, <1>4, <1>5, <1>6 DEF t

\* Appending and prepending an entry.
LEMMA AppendElements ==
    ASSUME NEW S, NEW s \in Seq(S), NEW e \in S
    PROVE  Append(s, e) \in Seq(S) /\ ToSet(Append(s, e)) = ToSet(s) \cup {e}
<1>1. /\ Append(s, e) \in Seq(S) /\ DOMAIN s = 1..Len(s) /\ Len(s) \in Nat
      /\ DOMAIN Append(s, e) = 1..(Len(s) + 1)
      /\ \A i \in 1..Len(s) : Append(s, e)[i] = s[i]
      /\ Append(s, e)[Len(s) + 1] = e
  OBVIOUS
<1>2. \A i \in 1..(Len(s) + 1) : i \in 1..Len(s) \/ i = Len(s) + 1
  BY <1>1
<1>3. \A i \in 1..Len(s) : i \in 1..(Len(s) + 1)
  BY <1>1
<1>4. Len(s) + 1 \in 1..(Len(s) + 1)
  BY <1>1
<1> QED
  BY <1>1, <1>2, <1>3, <1>4 DEF ToSet

\* A new source is put before the others.
LEMMA PrependElements ==
    ASSUME NEW S, NEW s \in Seq(S), NEW e \in S, e \notin ToSet(s), Once(s)
    PROVE  /\ <<e>> \o s \in Seq(S) /\ ToSet(<<e>> \o s) = ToSet(s) \cup {e}
           /\ Once(<<e>> \o s)
<1> DEFINE t == <<e>> \o s
<1>1. /\ t \in Seq(S) /\ DOMAIN s = 1..Len(s) /\ Len(s) \in Nat
      /\ DOMAIN t = 1..(Len(s) + 1) /\ t[1] = e
      /\ \A i \in 1..Len(s) : t[i + 1] = s[i]
  OBVIOUS
<1> HIDE DEF t
<1>2. \A i \in DOMAIN t : i = 1 \/ \E j \in DOMAIN s : i = j + 1 /\ t[i] = s[j]
  <2> SUFFICES ASSUME NEW i \in DOMAIN t, i # 1 PROVE i - 1 \in DOMAIN s /\ i = (i - 1) + 1
    BY <1>1
  <2> QED
    BY <1>1
<1>3. 1 \in DOMAIN t /\ \A j \in DOMAIN s : j + 1 \in DOMAIN t
  BY <1>1
<1>4. ToSet(t) = ToSet(s) \cup {e}
  BY <1>1, <1>2, <1>3 DEF ToSet
<1>5. Once(t)
  <2> SUFFICES ASSUME NEW a \in DOMAIN t, NEW b \in DOMAIN t, t[a] = t[b] PROVE a = b
    BY DEF Once
  <2>1. \A j \in DOMAIN s : s[j] # e
    BY DEF ToSet
  <2> QED
    BY <1>1, <1>2, <2>1 DEF Once
<1> QED
  BY <1>1, <1>4, <1>5 DEF t

-----------------------------------------------------------------------------
(* Process numbers.                                                         *)

\* The State of a child that was not reaped finds the child under its number.
LEMMA OwnerRight ==
    ASSUME PInv, NEW p \in Children, Live(p), status[p] = {}
    PROVE  Owners(p) = {p} /\ \E k \in Pids : pid[p] = {k} /\ holder[k] = p
  BY DEF PInv, Reachable, Owners

\* A signal on behalf of children that were not reaped reaches them alone.
LEMMA KillRight ==
    ASSUME PInv, NEW S \in SUBSET Children, \A p \in S : Live(p) /\ status[p] = {}, Kill(S)
    PROVE  /\ alive' = alive \ S /\ harmed' = {}
           /\ exit' \in [Children -> {{}, {0}, {Killed}}]
           /\ \A p \in Children : exit[p] # {} => exit'[p] = exit[p]
           /\ \A p \in Children : exit'[p] = exit[p] \/ p \notin fresh
           /\ \A p \in alive' : exit'[p] = {}
<1>1. \A p \in S : Owners(p) = {p}
  BY OwnerRight
<1>2. UNION {Owners(p) : p \in S} = S /\ UNION {Owners(p) \ {p} : p \in S} = {}
  BY <1>1
<1>3. /\ alive' = alive \ S /\ harmed' = harmed \cup {}
      /\ exit' = [p \in Children |-> IF p \in S \cap alive THEN {Killed} ELSE exit[p]]
  BY <1>2 DEF Kill
<1> QED
  BY <1>3 DEF PInv, Typed, Truthful, Unspawned

\* What is told of the exit of a child that has a State.
LEMMA AnswerRight ==
    ASSUME PInv, NEW p \in Children, Live(p)
    PROVE  \/ ExitAnswer(p) = None /\ exit[p] = {}
           \/ \E s \in Statuses : ExitAnswer(p) = Result("Done", s) /\ exit[p] = {s}
<1>1. exit[p] = {} \/ \E s \in Statuses : exit[p] = {s}
  BY DEF PInv, Typed, Statuses
<1>2. status[p] \subseteq exit[p]
  BY DEF PInv, Truthful
<1>3. CASE status[p] # {}
  <2>1. PICK s \in Statuses : exit[p] = {s} /\ status[p] = {s}
    BY <1>1, <1>2, <1>3
  <2>2. (CHOOSE x \in status[p] : TRUE) = s
    BY <2>1
  <2>3. ExitAnswer(p) = Result("Done", s)
    BY <1>3, <2>2 DEF ExitAnswer
  <2> QED
    BY <2>1, <2>3
<1>4. CASE status[p] = {}
  <2>1. Owners(p) = {p}
    BY <1>4, OwnerRight
  <2>2. Exited(p) = exit[p] /\ Owners(p) \cap Children # {}
    BY <2>1 DEF Exited
  <2>3. CASE exit[p] = {}
    BY <1>4, <2>2, <2>3 DEF ExitAnswer
  <2>4. CASE exit[p] # {}
    <3>1. PICK s \in Statuses : exit[p] = {s}
      BY <1>1, <2>4
    <3>2. (CHOOSE x \in exit[p] : TRUE) = s
      BY <3>1
    <3>3. ExitAnswer(p) = Result("Done", s)
      BY <1>4, <2>2, <2>4, <3>2 DEF ExitAnswer
    <3> QED
      BY <3>1, <3>3
  <2> QED
    BY <2>3, <2>4
<1> QED
  BY <1>3, <1>4

\* Reaping: a number is given up with the child that held it, and the status is
\* the exit.
LEMMA PollRight ==
    ASSUME PInv, NEW S \in SUBSET Children, \A p \in S : Live(p), PollExit(S),
           UNCHANGED <<pid, exit>>,
           \A p \in Children : Live(p)' => Live(p),
           \A p \in Children : Live(p) => Live(p)' \/ (p \in S /\ exit[p] # {})
    PROVE  /\ holder' \in [Pids -> Children \cup {Foreign, Nobody}]
           /\ status' \in [Children -> SUBSET Statuses]
           /\ \A p \in Children : status'[p] \subseteq exit[p]
           /\ \A p \in Children : status'[p] = status[p] \/ p \notin fresh
           /\ Held' /\ Reachable'
<1>1. \A p \in S : status[p] = {} => Exited(p) = exit[p] /\ Owners(p) = {p}
  BY OwnerRight DEF Exited
<1>2. /\ status' = [p \in Children |-> IF p \in S /\ status[p] = {} THEN exit[p] ELSE status[p]]
  BY <1>1 DEF PollExit
<1>3. holder' = [k \in Pids |->
         IF \E p \in S : status[p] = {} /\ exit[p] # {} /\ k \in pid[p] THEN Nobody ELSE holder[k]]
  BY <1>1 DEF PollExit
<1>4. /\ holder' \in [Pids -> Children \cup {Foreign, Nobody}]
      /\ status' \in [Children -> SUBSET Statuses]
  BY <1>2, <1>3 DEF PInv, Typed, Statuses
<1>5. /\ \A p \in Children : status'[p] \subseteq exit[p]
      /\ \A p \in Children : status'[p] = status[p] \/ p \notin fresh
  BY <1>2 DEF PInv, Truthful, Unspawned
<1>6. Held'
  <2> SUFFICES ASSUME NEW k \in Pids, NEW p \in Children, holder'[k] = p
               PROVE  pid'[p] = {k} /\ status'[p] = {} /\ Live(p)'
    BY DEF Held
  <2>1. holder[k] = p /\ ~\E q \in S : status[q] = {} /\ exit[q] # {} /\ k \in pid[q]
    BY <1>3, NamesAssumption
  <2>2. pid[p] = {k} /\ status[p] = {} /\ Live(p)
    BY <2>1 DEF PInv, Held
  <2>3. ~(p \in S /\ exit[p] # {})
    BY <2>1, <2>2
  <2> QED
    BY <1>2, <2>1, <2>2, <2>3
<1>7. Reachable'
  <2> SUFFICES ASSUME NEW p \in Children, Live(p)', status'[p] = {}
               PROVE  \E k \in Pids : pid'[p] = {k} /\ holder'[k] = p
    BY DEF Reachable
  <2>1. Live(p) /\ status[p] = {} /\ (p \in S => exit[p] = {})
    BY <1>2
  <2>2. PICK k \in Pids : pid[p] = {k} /\ holder[k] = p
    BY <2>1, OwnerRight
  <2>3. \A q \in S : status[q] = {} /\ exit[q] # {} => k \notin pid[q]
    BY <2>1, <2>2, OwnerRight
  <2> QED
    BY <1>3, <2>2, <2>3
<1> QED
  BY <1>4, <1>5, <1>6, <1>7

\* The end of a State kills and reaps the child that was not reaped, and gives
\* no other number up.
LEMMA DestroyRight ==
    ASSUME PInv, NEW S \in SUBSET Children, \A p \in S : Live(p), Destroy(S),
           UNCHANGED <<pid, status>>,
           \A p \in Children : Live(p)' <=> Live(p) /\ p \notin S
    PROVE  /\ holder' \in [Pids -> Children \cup {Foreign, Nobody}]
           /\ exit' \in [Children -> {{}, {0}, {Killed}}]
           /\ alive' \subseteq alive /\ harmed' = {}
           /\ \A p \in Children : exit[p] # {} => exit'[p] = exit[p]
           /\ \A p \in Children : exit'[p] = exit[p] \/ p \notin fresh
           /\ \A p \in alive' : exit'[p] = {}
           /\ Held' /\ Reachable'
<1> DEFINE U == {p \in S : status[p] = {}}
<1>1. /\ Kill(U)
      /\ holder' = [k \in Pids |->
           IF holder[k] \in Children /\ \E p \in U : k \in pid[p] THEN Nobody ELSE holder[k]]
  BY DEF Destroy
<1>2. /\ U \in SUBSET Children /\ U \subseteq S
      /\ \A p \in U : Live(p) /\ status[p] = {}
  OBVIOUS
<1>3. \A p \in S : status[p] = {} => p \in U
  OBVIOUS
<1> HIDE DEF U
<1>4. /\ alive' = alive \ U /\ harmed' = {}
      /\ exit' \in [Children -> {{}, {0}, {Killed}}]
      /\ \A p \in Children : exit[p] # {} => exit'[p] = exit[p]
      /\ \A p \in Children : exit'[p] = exit[p] \/ p \notin fresh
      /\ \A p \in alive' : exit'[p] = {}
  <2>1. U \in SUBSET Children
    BY <1>2
  <2>2. \A p \in U : Live(p) /\ status[p] = {}
    BY <1>2
  <2>3. Kill(U)
    BY <1>1
  <2> QED
    BY <2>1, <2>2, <2>3, KillRight
<1>5. holder' \in [Pids -> Children \cup {Foreign, Nobody}]
  BY <1>1 DEF PInv, Typed
<1>6. Held'
  <2> SUFFICES ASSUME NEW k \in Pids, NEW p \in Children, holder'[k] = p
               PROVE  pid'[p] = {k} /\ status'[p] = {} /\ Live(p)'
    BY DEF Held
  <2>1. holder[k] = p /\ ~\E q \in U : k \in pid[q]
    BY <1>1, NamesAssumption
  <2>2. pid[p] = {k} /\ status[p] = {} /\ Live(p)
    BY <2>1 DEF PInv, Held
  <2>3. p \notin S
    BY <1>3, <2>1, <2>2
  <2> QED
    BY <2>1, <2>2, <2>3
<1>7. Reachable'
  <2> SUFFICES ASSUME NEW p \in Children, Live(p)', status'[p] = {}
               PROVE  \E k \in Pids : pid'[p] = {k} /\ holder'[k] = p
    BY DEF Reachable
  <2>1. Live(p) /\ status[p] = {} /\ p \notin U
    BY <1>2
  <2>2. PICK k \in Pids : pid[p] = {k} /\ holder[k] = p
    BY <2>1, OwnerRight
  <2>3. \A q \in U : k \notin pid[q]
    BY <1>2, <2>1, <2>2, OwnerRight
  <2> QED
    BY <1>1, <2>2, <2>3
<1> QED
  BY <1>4, <1>5, <1>6, <1>7

-----------------------------------------------------------------------------
(* Steps.                                                                   *)

\* What is known of exits stays true while they are final and what is newly
\* known is one.
LEMMA ExitsKept ==
    ASSUME PInv, exit' \in [Children -> {{}, {0}, {Killed}}], UNCHANGED <<pid, fresh>>,
           \A p \in Children : told'[p] = told[p] \/ (p \notin fresh /\ told'[p] \subseteq exit'[p]),
           \A p \in Children : exit[p] # {} => exit'[p] = exit[p],
           \A p \in Children : exit'[p] = exit[p] \/ p \notin fresh,
           alive' \subseteq alive, \A p \in alive' : exit'[p] = {},
           \A p \in Children : status'[p] \subseteq exit'[p],
           \A p \in Children : status'[p] = status[p] \/ p \notin fresh,
           \A p \in Children : Live(p)' => Live(p)
    PROVE  Unspawned' /\ Truthful'
<1>1. \A p \in fresh : p \in Children /\ ~Live(p) /\ p \notin alive
  BY DEF PInv, Typed, Unspawned
<1>2. \A p \in fresh' :
        /\ pid'[p] = {} /\ exit'[p] = {} /\ status'[p] = {} /\ told'[p] = {}
        /\ p \notin alive' /\ ~Live(p)'
  BY <1>1 DEF PInv, Unspawned
<1>3. \A p \in Children : told'[p] \subseteq exit'[p]
  BY DEF PInv, Truthful
<1> QED
  BY <1>2, <1>3 DEF Unspawned, Truthful

\* An answer stays true, since an exit is final; and a wait is only ever given
\* an answer that is.
LEMMA AnswersKept ==
    ASSUME PInv, \A p \in Children : exit[p] # {} => exit'[p] = exit[p],
           \A r \in Requests : \/ completion'[r] = completion[r]
                               \/ Kind[r] # "Wait"
                               \/ completion'[r].code \in {"None", "Busy", "Cancelled"}
                               \/ completion'[r].code = "Done" /\ exit'[On[r]] = {completion'[r].count}
    PROVE  Answered'
<1>1. \A r \in Requests : On[r] \in Children
  BY RequestsAssumption
<1> QED
  BY <1>1 DEF PInv, Answered

\* Who has a State depends on the handles, the group and the requests.
LEMMA LiveKept ==
    ASSUME NEW p \in Children, UNCHANGED <<handles, group>>,
           \A r \in Requests : (op'[r] \in {"cold", "parked", "queued"}) <=>
                               (op[r] \in {"cold", "parked", "queued"})
    PROVE  Live(p)' <=> Live(p)
  BY DEF Live

\* A step that touches neither numbers nor exits nor who has a State.
LEMMA NumbersKept ==
    ASSUME PInv, UNCHANGED <<holder, alive, exit, harmed, pid, status, told, fresh>>,
           \A p \in Children : Live(p)' <=> Live(p)
    PROVE  Held' /\ Reachable' /\ Unspawned' /\ Truthful' /\ harmed' = {}
<1>1. Held' /\ Reachable'
  BY DEF PInv, Held, Reachable
<1>2. /\ exit' \in [Children -> {{}, {0}, {Killed}}]
      /\ \A p \in alive' : exit'[p] = {}
      /\ \A p \in Children : status'[p] \subseteq exit'[p]
  BY DEF PInv, Typed, Truthful
<1> QED
  BY <1>1, <1>2, ExitsKept DEF PInv

\* Steps the invariant does not see.
LEMMA QuietStep ==
    ASSUME PInv, UNCHANGED <<kernel, fresh, pid, status, handles>>,
           UNCHANGED <<op, completion, events, group, callers, told>>,
           stage' = "wait" => events # <<>>,
           stage' = "group" => scan' \in DOMAIN group,
           scan' \in Nat
    PROVE  PInv'
<1>1. UNCHANGED <<holder, alive, exit, harmed, pid, status, told, fresh>>
  BY DEF kernel
<1>2. UNCHANGED <<handles, op, completion, events, group, callers>>
  OBVIOUS
<1>3. \A p \in Children : Live(p)' <=> Live(p)
  BY <1>2, LiveKept
<1>4. Held' /\ Reachable' /\ Unspawned' /\ Truthful' /\ harmed' = {}
  BY <1>1, <1>3, NumbersKept
<1>5. Answered'
  BY <1>1, <1>2, AnswersKept
<1>6. Typed'
  BY <1>1, <1>2 DEF PInv, Typed
<1>7. Sources' /\ Grouped'
  BY <1>2 DEF PInv, Sources, Grouped
<1> QED
  BY <1>4, <1>5, <1>6, <1>7 DEF PInv

\* The sequence of the group is not empty where it is waited for.
LEMMA QuietSteps ==
    ASSUME PInv,
           \/ \E p \in Children : Writes(p) \/ Reads(p) \/ CloseInput(p)
           \/ \E r \in Requests : Cancel(r)
           \/ GroupWait \/ EndTurn \/ ResumeOther \/ Block \/ Woken
    PROVE  PInv'
<1>1. scan \in Nat /\ group \in Seq(Children)
  BY DEF PInv, Typed
<1>2. /\ stage = "wait" => events # <<>>
      /\ stage = "group" => scan \in DOMAIN group
  BY DEF PInv, Sources, Grouped
<1>3. CASE \E p \in Children : Writes(p) \/ Reads(p)
  BY <1>1, <1>2, <1>3, QuietStep DEF Writes, Reads, kernel, state, request, groups
<1>4. CASE \E p \in Children : CloseInput(p)
  BY <1>1, <1>2, <1>4, QuietStep DEF CloseInput, request, groups
<1>5. CASE \E r \in Requests : Cancel(r)
  BY <1>1, <1>2, <1>5, QuietStep DEF Cancel, state, groups
<1>6. CASE GroupWait
  <2>1. 1 \in DOMAIN group
    BY <1>1, <1>6 DEF GroupWait
  <2> QED
    BY <1>6, <2>1, QuietStep DEF GroupWait, state, request
<1>7. CASE EndTurn \/ ResumeOther \/ Block \/ Woken
  BY <1>1, <1>2, <1>7, QuietStep DEF EndTurn, ResumeOther, Block, Woken, state, request, groups
<1> QED
  BY <1>3, <1>4, <1>5, <1>6, <1>7

\* A child ends: it had no exit before.
LEMMA ExitsStep == ASSUME PInv, NEW c \in Children, Exits(c) PROVE PInv'
<1>1. UNCHANGED <<holder, harmed, fresh, pid, status, handles, op, completion, events, group,
                  callers, told, scan, stage>>
  BY DEF Exits, state, request, groups
<1>2. /\ alive' = alive \ {c} /\ c \in alive /\ exit' = [exit EXCEPT ![c] = {0}]
      /\ exit[c] = {} /\ c \notin fresh
  BY DEF Exits, PInv, Truthful, Unspawned
<1>3. \A p \in Children : Live(p)' <=> Live(p)
  BY <1>1, LiveKept
<1>4. Held' /\ Reachable'
  BY <1>1, <1>3 DEF PInv, Held, Reachable
<1>5. /\ exit' \in [Children -> {{}, {0}, {Killed}}]
      /\ \A p \in Children : exit[p] # {} => exit'[p] = exit[p]
      /\ \A p \in Children : exit'[p] = exit[p] \/ p \notin fresh
      /\ \A p \in alive' : exit'[p] = {}
      /\ \A p \in Children : status'[p] \subseteq exit'[p]
  BY <1>1, <1>2 DEF PInv, Typed, Truthful
<1>6. Unspawned' /\ Truthful'
  BY <1>1, <1>2, <1>3, <1>5, ExitsKept
<1>7. Answered'
  BY <1>1, <1>5, AnswersKept
<1>8. Typed'
  BY <1>1, <1>2, <1>5 DEF PInv, Typed
<1>9. Sources' /\ Grouped'
  BY <1>1 DEF PInv, Sources, Grouped
<1> QED
  BY <1>1, <1>4, <1>6, <1>7, <1>8, <1>9 DEF PInv

\* A number is given away only when no child has it.
LEMMA ReuseStep == ASSUME PInv, NEW n \in Pids, Reuse(n) PROVE PInv'
<1>1. UNCHANGED <<alive, exit, harmed, fresh, pid, status, handles, op, completion, events, group,
                  callers, told, scan, stage>>
  BY DEF Reuse, state, request, groups
<1>2. holder[n] = Nobody /\ holder' = [holder EXCEPT ![n] = Foreign]
  BY DEF Reuse
<1>3. \A p \in Children : Live(p)' <=> Live(p)
  BY <1>1, LiveKept
<1>4. holder' \in [Pids -> Children \cup {Foreign, Nobody}]
  BY <1>2 DEF PInv, Typed
<1>5. /\ \A k \in Pids : \A p \in Children : holder'[k] = p <=> holder[k] = p
  BY <1>2, NamesAssumption DEF PInv, Typed
<1>6. Held' /\ Reachable'
  BY <1>1, <1>3, <1>5 DEF PInv, Held, Reachable
<1>7. /\ exit' \in [Children -> {{}, {0}, {Killed}}]
      /\ \A p \in alive' : exit'[p] = {}
      /\ \A p \in Children : status'[p] \subseteq exit'[p]
  BY <1>1 DEF PInv, Typed, Truthful
<1>8. Unspawned' /\ Truthful'
  BY <1>1, <1>3, <1>7, ExitsKept
<1>9. Answered'
  BY <1>1, AnswersKept
<1>10. Typed'
  BY <1>1, <1>4 DEF PInv, Typed
<1>11. Sources' /\ Grouped'
  BY <1>1 DEF PInv, Sources, Grouped
<1> QED
  BY <1>1, <1>6, <1>8, <1>9, <1>10, <1>11 DEF PInv

\* A child is spawned under a number nobody has.
LEMMA ForkStep ==
    ASSUME PInv, NEW c \in Children, Fork(c), UNCHANGED <<told, scan>>,
           \/ handles' = handles \cup {c} /\ UNCHANGED <<group, callers>>
              /\ \E r \in Requests : On[r] = c
           \/ group' = Append(group, c) /\ callers' = Append(callers, c) /\ UNCHANGED handles
              /\ \A r \in Requests : On[r] # c
    PROVE  PInv'
<1>1. /\ UNCHANGED <<exit, harmed, status, op, completion, events, stage>>
      /\ c \in fresh /\ fresh' = fresh \ {c} /\ alive' = alive \cup {c} /\ stage = "run"
  BY DEF Fork, Code, request
<1>2. PICK n \in Pids : /\ holder[n] = Nobody /\ holder' = [holder EXCEPT ![n] = c]
                        /\ pid' = [pid EXCEPT ![c] = {n}]
  BY DEF Fork
<1>3. /\ c \notin handles /\ c \notin ToSet(group) /\ exit[c] = {} /\ status[c] = {} /\ told[c] = {}
      /\ \A r \in Requests : On[r] = c => op[r] \notin {"cold", "parked", "queued"}
  BY <1>1 DEF PInv, Unspawned, Live
<1>4. /\ group' \in Seq(Children) /\ ToSet(group') \subseteq ToSet(group) \cup {c}
      /\ ToSet(group) \subseteq ToSet(group') /\ c \in handles' \cup ToSet(group')
      /\ handles \subseteq handles' /\ handles' \subseteq handles \cup {c}
  <2>1. group \in Seq(Children)
    BY DEF PInv, Typed
  <2>2. Append(group, c) \in Seq(Children) /\ ToSet(Append(group, c)) = ToSet(group) \cup {c}
    BY <2>1, AppendElements
  <2>3. \/ group' = group /\ handles' = handles \cup {c}
        \/ group' = Append(group, c) /\ handles' = handles
    OBVIOUS
  <2> QED
    BY <2>1, <2>2, <2>3
<1>5. \A p \in Children : Live(p)' <=> Live(p) \/ p = c
  BY <1>1, <1>4 DEF Live
<1>6. /\ holder' \in [Pids -> Children \cup {Foreign, Nobody}] /\ pid' \in [Children -> SUBSET Pids]
      /\ holder'[n] = c /\ pid'[c] = {n}
      /\ \A k \in Pids : k # n => holder'[k] = holder[k]
      /\ \A p \in Children : p # c => pid'[p] = pid[p]
  BY <1>2 DEF PInv, Typed
<1>7. \A k \in Pids : holder[k] # c
  BY <1>3, <1>1 DEF PInv, Held, Unspawned
<1>8. Held'
  <2> SUFFICES ASSUME NEW k \in Pids, NEW p \in Children, holder'[k] = p
               PROVE  pid'[p] = {k} /\ status'[p] = {} /\ Live(p)'
    BY DEF Held
  <2>1. CASE k = n
    BY <1>1, <1>3, <1>5, <1>6, <2>1
  <2>2. CASE k # n
    <3>1. holder[k] = p /\ p # c
      BY <1>6, <1>7, <2>2
    <3>2. pid[p] = {k} /\ status[p] = {} /\ Live(p)
      BY <3>1 DEF PInv, Held
    <3> QED
      BY <1>1, <1>5, <1>6, <3>1, <3>2
  <2> QED
    BY <2>1, <2>2
<1>9. Reachable'
  <2> SUFFICES ASSUME NEW p \in Children, Live(p)', status'[p] = {}
               PROVE  \E k \in Pids : pid'[p] = {k} /\ holder'[k] = p
    BY DEF Reachable
  <2>1. CASE p = c
    BY <1>6, <2>1
  <2>2. CASE p # c
    <3>1. PICK k \in Pids : pid[p] = {k} /\ holder[k] = p
      BY <1>1, <1>5, <2>2 DEF PInv, Reachable
    <3>2. k # n
      BY <1>2, <3>1, NamesAssumption
    <3> QED
      BY <1>6, <2>2, <3>1, <3>2
  <2> QED
    BY <2>1, <2>2
<1>10. Unspawned' /\ Truthful'
  <2>1. fresh \subseteq Children
    BY DEF PInv, Typed
  <2> QED
    BY <1>1, <1>3, <1>5, <1>6, <2>1 DEF PInv, Unspawned, Truthful
<1>11. Answered'
  BY <1>1, AnswersKept
<1>12. Typed'
  BY <1>1, <1>4, <1>6 DEF PInv, Typed
<1>13. Sources' /\ Grouped'
  <2>1. Sources'
    BY <1>1 DEF PInv, Sources
  <2>2. callers' = group'
    BY DEF PInv, Grouped
  <2>3. \A p \in ToSet(group') : p \notin handles' /\ \A r \in Requests : On[r] # p
    <3>1. \A p \in ToSet(group) : p \notin handles /\ \A r \in Requests : On[r] # p
      BY DEF PInv, Grouped
    <3>2. \/ group' = group /\ handles' = handles \cup {c} /\ \E r \in Requests : On[r] = c
          \/ handles' = handles /\ \A r \in Requests : On[r] # c
      OBVIOUS
    <3>3. CASE group' = group /\ handles' = handles \cup {c} /\ \E r \in Requests : On[r] = c
      BY <3>1, <3>3
    <3>4. CASE handles' = handles /\ \A r \in Requests : On[r] # c
      BY <1>3, <1>4, <3>1, <3>4
    <3> QED
      BY <3>2, <3>3, <3>4
  <2> QED
    BY <1>1, <2>1, <2>2, <2>3 DEF Grouped
<1> QED
  BY <1>1, <1>8, <1>9, <1>10, <1>11, <1>12, <1>13 DEF PInv

\* terminate() signals a child that was not reaped and no other.
LEMMA TerminateStep == ASSUME PInv, NEW c \in Children, Terminate(c) PROVE PInv'
<1> DEFINE S == {q \in {c} : status[q] = {}}
<1>1. UNCHANGED <<holder, fresh, pid, status, handles, op, completion, events, group,
                  callers, told, scan, stage>>
  BY DEF Terminate, state, request, groups
<1>2. Kill(S) /\ c \in handles
  BY DEF Terminate
<1>3. S \in SUBSET Children
  OBVIOUS
<1>4. \A p \in S : Live(p) /\ status[p] = {}
  BY <1>2 DEF Live
<1> HIDE DEF S
<1>5. /\ alive' = alive \ S /\ harmed' = {}
      /\ exit' \in [Children -> {{}, {0}, {Killed}}]
      /\ \A p \in Children : exit[p] # {} => exit'[p] = exit[p]
      /\ \A p \in Children : exit'[p] = exit[p] \/ p \notin fresh
      /\ \A p \in alive' : exit'[p] = {}
  BY <1>2, <1>3, <1>4, KillRight
<1>6. \A p \in Children : Live(p)' <=> Live(p)
  BY <1>1, LiveKept
<1>7. Held' /\ Reachable'
  BY <1>1, <1>6 DEF PInv, Held, Reachable
<1>8. \A p \in Children : status'[p] \subseteq exit'[p]
  BY <1>1, <1>5 DEF PInv, Truthful
<1>9. Unspawned' /\ Truthful'
  BY <1>1, <1>5, <1>6, <1>8, ExitsKept
<1>10. Answered'
  BY <1>1, <1>5, AnswersKept
<1>11. Typed'
  BY <1>1, <1>5 DEF PInv, Typed
<1>12. Sources' /\ Grouped'
  BY <1>1 DEF PInv, Sources, Grouped
<1> QED
  BY <1>5, <1>7, <1>9, <1>10, <1>11, <1>12 DEF PInv

-----------------------------------------------------------------------------
(* Steps that end a State.                                                  *)

\* A State that ends leaves the other numbers and all that was told alone.
LEMMA DestroyKeeps ==
    ASSUME PInv, NEW S \in SUBSET Children, \A p \in S : Live(p), Destroy(S),
           UNCHANGED <<pid, status, fresh, told>>,
           \A p \in Children : Live(p)' <=> Live(p) /\ p \notin S
    PROVE  /\ Held' /\ Reachable' /\ Unspawned' /\ Truthful' /\ harmed' = {}
           /\ holder' \in [Pids -> Children \cup {Foreign, Nobody}]
           /\ exit' \in [Children -> {{}, {0}, {Killed}}] /\ alive' \subseteq Children
           /\ \A p \in Children : exit[p] # {} => exit'[p] = exit[p]
<1>1. UNCHANGED <<pid, status>>
  OBVIOUS
<1>2. /\ holder' \in [Pids -> Children \cup {Foreign, Nobody}]
      /\ exit' \in [Children -> {{}, {0}, {Killed}}]
      /\ alive' \subseteq alive /\ harmed' = {}
      /\ \A p \in Children : exit[p] # {} => exit'[p] = exit[p]
      /\ \A p \in Children : exit'[p] = exit[p] \/ p \notin fresh
      /\ \A p \in alive' : exit'[p] = {}
      /\ Held' /\ Reachable'
  BY <1>1, DestroyRight
<1>3. \A p \in Children : status'[p] \subseteq exit'[p]
  BY <1>2 DEF PInv, Truthful
<1>4. Unspawned' /\ Truthful'
  BY <1>2, <1>3, ExitsKept
<1>5. alive' \subseteq Children
  BY <1>2 DEF PInv, Typed
<1> QED
  BY <1>2, <1>4, <1>5

\* The States that end with a request: that of its child, if nobody else has it.
LEMMA Returning ==
    ASSUME PInv, NEW r \in Requests, op[r] \in {"cold", "parked", "queued"},
           op' = [op EXCEPT ![r] = "returned"], UNCHANGED <<handles, group>>
    PROVE  /\ LastOf({r}, {}) \in SUBSET Children
           /\ \A p \in LastOf({r}, {}) : Live(p)
           /\ \A p \in Children : Live(p)' <=> Live(p) /\ p \notin LastOf({r}, {})
           /\ op' \in [Requests -> {"none", "cold", "parked", "queued", "returned"}]
<1> DEFINE L == LastOf({r}, {})
<1>1. \A p : p \in L <=>
        /\ p = On[r] /\ p \notin handles /\ p \notin ToSet(group)
        /\ \A q \in Requests : q # r /\ On[q] = p => op[q] \in {"none", "returned"}
  BY DEF LastOf
<1> HIDE DEF L
<1>2. On[r] \in Children
  BY RequestsAssumption
<1>3. /\ op' \in [Requests -> {"none", "cold", "parked", "queued", "returned"}]
      /\ op'[r] = "returned" /\ \A q \in Requests : q # r => op'[q] = op[q]
      /\ \A q \in Requests : op[q] \in {"none", "cold", "parked", "queued", "returned"}
  BY DEF PInv, Typed
<1>4. \A p \in L : Live(p) /\ ~Live(p)'
  BY <1>1, <1>3 DEF Live
<1>5. \A p \in Children : Live(p)' => Live(p)
  BY <1>3 DEF Live
<1>6. \A p \in Children : Live(p) /\ p \notin L => Live(p)'
  BY <1>1, <1>3 DEF Live
<1>7. L \in SUBSET Children
  BY <1>1, <1>2
<1> QED
  BY <1>3, <1>4, <1>5, <1>6, <1>7 DEF L

\* What is left when a request has returned.
LEMMA ReturnStep ==
    ASSUME PInv, NEW r \in Requests, op[r] \in {"cold", "parked", "queued"},
           op' = [op EXCEPT ![r] = "returned"], Destroy(LastOf({r}, {})),
           UNCHANGED <<handles, group, callers, scan, told, pid, status, fresh>>,
           DOMAIN completion' = Requests,
           \A q \in Requests : \/ completion'[q] = completion[q]
                               \/ Kind[q] # "Wait"
                               \/ completion'[q].code \in {"None", "Busy", "Cancelled"},
           events' \in Seq(Requests), ToSet(events') \subseteq ToSet(events) \ {r}, Once(events'),
           stage' = "run"
    PROVE  PInv'
<1>1. UNCHANGED <<handles, group>> /\ UNCHANGED <<pid, status, fresh, told>>
  OBVIOUS
<1>2. /\ LastOf({r}, {}) \in SUBSET Children
      /\ \A p \in LastOf({r}, {}) : Live(p)
      /\ \A p \in Children : Live(p)' <=> Live(p) /\ p \notin LastOf({r}, {})
      /\ op' \in [Requests -> {"none", "cold", "parked", "queued", "returned"}]
  BY <1>1, Returning
<1>3. /\ Held' /\ Reachable' /\ Unspawned' /\ Truthful' /\ harmed' = {}
      /\ holder' \in [Pids -> Children \cup {Foreign, Nobody}]
      /\ exit' \in [Children -> {{}, {0}, {Killed}}] /\ alive' \subseteq Children
      /\ \A p \in Children : exit[p] # {} => exit'[p] = exit[p]
  BY <1>1, <1>2, DestroyKeeps
<1>4. Answered'
  BY <1>3, AnswersKept
<1>5. Typed'
  BY <1>1, <1>2, <1>3 DEF PInv, Typed
<1>6. \A q \in ToSet(events') : op'[q] \in {"parked", "queued"}
  <2>1. \A q \in ToSet(events') : q \in Requests /\ q # r /\ op[q] \in {"parked", "queued"}
    <3>1. \A q \in ToSet(events') : q \in Requests
      BY DEF ToSet
    <3> QED
      BY <3>1 DEF PInv, Sources
  <2>2. \A q \in Requests : q # r => op'[q] = op[q]
    BY DEF PInv, Typed
  <2> QED
    BY <2>1, <2>2
<1>7. Sources' /\ Grouped'
  BY <1>6 DEF PInv, Sources, Grouped
<1> QED
  BY <1>3, <1>4, <1>5, <1>7 DEF PInv

\* A request that is not a source of the driver is none afterwards.
LEMMA NoSource ==
    ASSUME PInv, NEW r \in Requests, op[r] \notin {"parked", "queued"}
    PROVE  events \in Seq(Requests) /\ ToSet(events) \subseteq ToSet(events) \ {r} /\ Once(events)
  BY DEF PInv, Sources, Typed

\* A cold operation that is never awaited goes with its share of the State.
LEMMA DiscardStep == ASSUME PInv, NEW r \in Requests, Discard(r) PROVE PInv'
<1>1. /\ op[r] = "cold" /\ op' = [op EXCEPT ![r] = "returned"] /\ Destroy(LastOf({r}, {}))
      /\ UNCHANGED <<handles, group, callers, scan, told, pid, status, fresh>>
      /\ UNCHANGED <<completion, events>> /\ stage' = "run"
  BY DEF Discard, Code, state, groups
<1>2. DOMAIN completion' = Requests
  BY <1>1 DEF PInv, Typed
<1>3. events' \in Seq(Requests) /\ ToSet(events') \subseteq ToSet(events) \ {r} /\ Once(events')
  BY <1>1, NoSource
<1> QED
  BY <1>1, <1>2, <1>3, ReturnStep

\* A request that is refused answers Busy or Cancelled and tells of no exit.
LEMMA StartRefusedStep == ASSUME PInv, NEW r \in Requests, StartRefused(r) PROVE PInv'
<1>1. /\ op[r] = "cold" /\ op' = [op EXCEPT ![r] = "returned"] /\ Destroy(LastOf({r}, {}))
      /\ UNCHANGED <<handles, group, callers, scan, told, pid, status, fresh>>
      /\ UNCHANGED events /\ stage' = "run"
      /\ completion' = [completion EXCEPT ![r] = Refusal(r)]
  BY DEF StartRefused, Returns, Code, state, groups
<1>2. Refusal(r).code \in {"None", "Busy", "Cancelled"}
  BY DEF Refusal, Result, None
<1>3. DOMAIN completion' = Requests
  BY <1>1 DEF PInv, Typed
<1>4. events' \in Seq(Requests) /\ ToSet(events') \subseteq ToSet(events) \ {r} /\ Once(events')
  BY <1>1, NoSource
<1>5. \A q \in Requests : completion'[q] = completion[q] \/ completion'[q].code \in {"None", "Busy", "Cancelled"}
  BY <1>1, <1>2 DEF PInv, Typed
<1> QED
  BY <1>1, <1>3, <1>4, <1>5, ReturnStep

\* The dispatched request leaves the sources with its task.
LEMMA ResumeStep == ASSUME PInv, NEW r \in Requests, Resume(r) PROVE PInv'
<1>1. /\ op[r] = "queued" /\ op' = [op EXCEPT ![r] = "returned"] /\ Destroy(LastOf({r}, {}))
      /\ UNCHANGED <<handles, group, callers, scan, told, pid, status, fresh>>
      /\ UNCHANGED completion /\ stage' = "run"
  BY DEF Resume, state, groups
<1>2. PICK i \in DOMAIN events : events[i] = r /\ events' = RemoveAt(events, i)
  BY DEF Resume
<1>3. events \in Seq(Requests) /\ Once(events) /\ DOMAIN completion' = Requests
  BY <1>1 DEF PInv, Typed, Sources
<1>4. events' \in Seq(Requests) /\ ToSet(events') \subseteq ToSet(events) \ {r} /\ Once(events')
  BY <1>2, <1>3, RemoveAtElements
<1> QED
  BY <1>1, <1>3, <1>4, ReturnStep

\* A handle goes, and with it perhaps the State.
LEMMA DropStep == ASSUME PInv, NEW c \in Children, Drop(c) PROVE PInv'
<1> DEFINE L == LastOf({}, {c})
<1>1. /\ c \in handles /\ handles' = handles \ {c} /\ Destroy(L)
      /\ UNCHANGED <<group, callers, scan, told, pid, status, fresh>>
      /\ UNCHANGED <<op, completion, events, stage>>
  BY DEF Drop, request, groups
<1>2. \A p : p \in L <=>
        /\ p = c /\ p \notin ToSet(group)
        /\ \A q \in Requests : On[q] = p => op[q] \in {"none", "returned"}
  BY DEF LastOf
<1> HIDE DEF L
<1>3. \A q \in Requests : op[q] \in {"none", "cold", "parked", "queued", "returned"}
  BY DEF PInv, Typed
<1>4. L \in SUBSET Children /\ \A p \in L : Live(p)
  BY <1>1, <1>2 DEF Live
<1>5. \A p \in Children : Live(p)' <=> Live(p) /\ p \notin L
  BY <1>1, <1>2, <1>3 DEF Live
<1>6. /\ Held' /\ Reachable' /\ Unspawned' /\ Truthful' /\ harmed' = {}
      /\ holder' \in [Pids -> Children \cup {Foreign, Nobody}]
      /\ exit' \in [Children -> {{}, {0}, {Killed}}] /\ alive' \subseteq Children
      /\ \A p \in Children : exit[p] # {} => exit'[p] = exit[p]
  BY <1>1, <1>4, <1>5, DestroyKeeps
<1>7. Answered'
  BY <1>1, <1>6, AnswersKept
<1>8. Typed'
  BY <1>1, <1>6 DEF PInv, Typed
<1>9. Sources' /\ Grouped'
  BY <1>1 DEF PInv, Sources, Grouped
<1> QED
  BY <1>6, <1>7, <1>8, <1>9 DEF PInv

\* The group goes with all its children, which nobody else holds.
LEMMA GroupDropStep == ASSUME PInv, GroupDrop PROVE PInv'
<1>1. /\ Destroy(ToSet(group)) /\ group' = <<>> /\ callers' = <<>> /\ stage = "run" /\ stage' = "run"
      /\ UNCHANGED <<handles, scan, told, pid, status, fresh, op, completion, events>>
  BY DEF GroupDrop, Code, state, request
<1>2. ToSet(group) \in SUBSET Children /\ \A p \in ToSet(group) : Live(p)
  BY DEF PInv, Typed, ToSet, Live
<1>3. ToSet(group') = {} /\ group' \in Seq(Children)
  BY <1>1 DEF ToSet
<1>4. \A p \in ToSet(group) : p \notin handles /\ \A r \in Requests : On[r] # p
  BY DEF PInv, Grouped
<1>5. \A p \in Children : Live(p)' <=> Live(p) /\ p \notin ToSet(group)
  BY <1>1, <1>3, <1>4 DEF Live
<1>6. /\ Held' /\ Reachable' /\ Unspawned' /\ Truthful' /\ harmed' = {}
      /\ holder' \in [Pids -> Children \cup {Foreign, Nobody}]
      /\ exit' \in [Children -> {{}, {0}, {Killed}}] /\ alive' \subseteq Children
      /\ \A p \in Children : exit[p] # {} => exit'[p] = exit[p]
  BY <1>1, <1>2, <1>5, DestroyKeeps
<1>7. Answered'
  BY <1>1, <1>6, AnswersKept
<1>8. Typed'
  BY <1>1, <1>3, <1>6 DEF PInv, Typed
<1>9. Sources' /\ Grouped'
  BY <1>1, <1>3 DEF PInv, Sources, Grouped
<1> QED
  BY <1>6, <1>7, <1>8, <1>9 DEF PInv

-----------------------------------------------------------------------------
(* The other steps of requests, groups and the driver.                      *)

\* A cold operation shares the State of a child that has one.
LEMMA CreateStep == ASSUME PInv, NEW r \in Requests, Create(r) PROVE PInv'
<1>1. /\ UNCHANGED <<holder, alive, exit, harmed, pid, status, told, fresh>>
      /\ UNCHANGED <<handles, completion, events, group, callers, scan, stage>>
      /\ op[r] = "none" /\ On[r] \in handles /\ op' = [op EXCEPT ![r] = "cold"]
  BY DEF Create, kernel, state, groups
<1>2. \A p \in Children : Live(p)' <=> Live(p)
  BY <1>1 DEF Live, PInv, Typed
<1>3. Held' /\ Reachable' /\ Unspawned' /\ Truthful' /\ harmed' = {}
  BY <1>1, <1>2, NumbersKept
<1>4. Answered'
  BY <1>1, AnswersKept
<1>5. Typed'
  BY <1>1 DEF PInv, Typed
<1>6. Sources' /\ Grouped'
  BY <1>1 DEF PInv, Typed, Sources, Grouped
<1> QED
  BY <1>3, <1>4, <1>5, <1>6 DEF PInv

\* A request that is parked becomes a source of the driver.
LEMMA StartStep == ASSUME PInv, NEW r \in Requests, Start(r) PROVE PInv'
<1>1. /\ UNCHANGED <<holder, alive, exit, harmed, pid, status, told, fresh>>
      /\ UNCHANGED <<handles, completion, group, callers, scan, stage>> /\ stage = "run"
      /\ op[r] = "cold" /\ op' = [op EXCEPT ![r] = "parked"] /\ events' = <<r>> \o events
  BY DEF Start, Code, kernel, state, groups
<1>2. \A q \in Requests : op'[q] = IF q = r THEN "parked" ELSE op[q]
  BY <1>1 DEF PInv, Typed
<1>3. \A p \in Children : Live(p)' <=> Live(p)
  BY <1>1, <1>2, LiveKept
<1>4. Held' /\ Reachable' /\ Unspawned' /\ Truthful' /\ harmed' = {}
  BY <1>1, <1>3, NumbersKept
<1>5. Answered'
  BY <1>1, AnswersKept
<1>6. events \in Seq(Requests) /\ Once(events) /\ r \notin ToSet(events)
  BY <1>1 DEF PInv, Typed, Sources
<1>7. events' \in Seq(Requests) /\ ToSet(events') = ToSet(events) \cup {r} /\ Once(events')
  BY <1>1, <1>6, PrependElements
<1>8. Typed'
  BY <1>1, <1>7 DEF PInv, Typed
<1>9. ToSet(events) \subseteq Requests
  BY <1>6 DEF ToSet
<1>10. Sources' /\ Grouped'
  BY <1>1, <1>2, <1>7, <1>9 DEF PInv, Sources, Grouped
<1> QED
  BY <1>4, <1>5, <1>8, <1>10 DEF PInv

\* A request that completes at its first attempt: a wait has reaped its child.
LEMMA StartDoneStep == ASSUME PInv, NEW r \in Requests, StartDone(r) PROVE PInv'
<1>1. /\ UNCHANGED <<handles, group, callers, scan, told, pid, fresh>>
      /\ UNCHANGED events /\ stage = "run" /\ stage' = "run"
      /\ op[r] = "cold" /\ op' = [op EXCEPT ![r] = "returned"]
      /\ completion' = [completion EXCEPT ![r] = Attempt(r)] /\ Attempt(r) # None
  BY DEF StartDone, Returns, Code, groups
<1>2. /\ DOMAIN completion' = Requests /\ completion'[r] = Attempt(r)
      /\ \A q \in Requests : q # r => completion'[q] = completion[q]
  BY <1>1 DEF PInv, Typed
<1>3. events' \in Seq(Requests) /\ ToSet(events') \subseteq ToSet(events) \ {r} /\ Once(events')
  BY <1>1, NoSource
<1>4. CASE Kind[r] # "Wait"
  <2>1. Destroy(LastOf({r}, {})) /\ UNCHANGED status
    BY <1>4 DEF StartDone
  <2>2. \A q \in Requests : completion'[q] = completion[q] \/ Kind[q] # "Wait"
    BY <1>2, <1>4
  <2> QED
    BY <1>1, <1>2, <1>3, <2>1, <2>2, ReturnStep
<1>5. CASE Kind[r] = "Wait"
  <2> DEFINE S == {On[r]}
  <2>1. PollExit(S) /\ UNCHANGED <<alive, exit, harmed>>
    BY <1>5 DEF StartDone
  <2>2. S \in SUBSET Children /\ On[r] \in Children
    BY RequestsAssumption
  <2>3. \A p \in S : Live(p)
    BY <1>1 DEF Live
  <2>4. \E s \in Statuses : Attempt(r) = Result("Done", s) /\ exit[On[r]] = {s}
    BY <1>1, <1>5, <2>2, <2>3, AnswerRight DEF Attempt
  <2>5. /\ \A p \in Children : Live(p)' => Live(p)
        /\ \A p \in Children : Live(p) => Live(p)' \/ p \in S
    <3>1. /\ op'[r] = "returned" /\ \A q \in Requests : q # r => op'[q] = op[q]
      BY <1>1 DEF PInv, Typed
    <3> QED
      BY <1>1, <3>1 DEF Live
  <2>6. \A p \in Children : Live(p) => Live(p)' \/ (p \in S /\ exit[p] # {})
    BY <2>4, <2>5
  <2> HIDE DEF S
  <2>7. /\ holder' \in [Pids -> Children \cup {Foreign, Nobody}]
        /\ status' \in [Children -> SUBSET Statuses]
        /\ \A p \in Children : status'[p] \subseteq exit[p]
        /\ \A p \in Children : status'[p] = status[p] \/ p \notin fresh
        /\ Held' /\ Reachable'
    BY <1>1, <2>1, <2>2, <2>3, <2>5, <2>6, PollRight
  <2>8. /\ exit' \in [Children -> {{}, {0}, {Killed}}] /\ \A p \in alive' : exit'[p] = {}
        /\ harmed' = {} /\ alive' \subseteq Children
    BY <2>1 DEF PInv, Typed, Truthful
  <2>9. Unspawned' /\ Truthful'
    BY <1>1, <2>1, <2>5, <2>7, <2>8, ExitsKept
  <2>10. completion'[r].code = "Done" /\ exit'[On[r]] = {completion'[r].count}
    BY <1>2, <2>1, <2>4 DEF Result
  <2>11. Answered'
    BY <1>2, <2>1, <2>10, AnswersKept
  <2>12. op' \in [Requests -> {"none", "cold", "parked", "queued", "returned"}]
         /\ \A q \in Requests : q # r => op'[q] = op[q]
    BY <1>1 DEF PInv, Typed
  <2>13. Typed'
    BY <1>1, <1>2, <1>3, <2>7, <2>8, <2>12 DEF PInv, Typed
  <2>14. ToSet(events) \subseteq Requests
    BY DEF PInv, Typed, ToSet
  <2>15. Sources' /\ Grouped'
    BY <1>1, <1>3, <2>12, <2>14 DEF PInv, Sources, Grouped
  <2> QED
    BY <2>7, <2>8, <2>9, <2>11, <2>13, <2>15 DEF PInv
<1> QED
  BY <1>4, <1>5

\* Every source is asked once; the children whose waits are among them and that
\* have ended are reaped.
LEMMA PollStep == ASSUME PInv, Poll PROVE PInv'
<1> DEFINE W == {q \in Requests : op[q] = "parked" /\ q \notin asked /\ Kind[q] = "Wait"}
           S == {On[q] : q \in W}
           answer(r) == IF r \in asked THEN Result("Cancelled", 0) ELSE Attempt(r)
           done == {r \in Requests : op[r] = "parked" /\ answer(r) # None}
<1>1. /\ UNCHANGED <<alive, exit, harmed>>
      /\ UNCHANGED <<handles, group, callers, scan, told, pid, fresh>>
      /\ UNCHANGED events /\ stage' = "dispatch"
      /\ op' = [r \in Requests |-> IF r \in done THEN "queued" ELSE op[r]]
      /\ completion' = [r \in Requests |-> IF r \in done THEN answer(r) ELSE completion[r]]
  <2>1. {r \in {q \in Requests : op[q] = "parked"} : answer(r) # None} = done
    OBVIOUS
  <2> QED
    BY <2>1 DEF Poll, groups
<1>2. PollExit(S)
  <2>1. {q \in {x \in Requests : op[x] = "parked"} \ asked : Kind[q] = "Wait"} = W
    OBVIOUS
  <2> QED
    BY <2>1 DEF Poll
<1>3. S \in SUBSET Children /\ \A p \in S : Live(p)
  BY RequestsAssumption DEF Live
<1>4. \A r \in Requests : /\ r \in done => op[r] = "parked" /\ op'[r] = "queued"
                          /\ r \notin done => op'[r] = op[r]
  BY <1>1
<1>5. \A r \in done : Kind[r] = "Wait" =>
        \/ completion'[r].code = "Cancelled"
        \/ completion'[r].code = "Done" /\ exit[On[r]] = {completion'[r].count}
  <2> SUFFICES ASSUME NEW r \in done, Kind[r] = "Wait"
               PROVE  \/ answer(r).code = "Cancelled"
                      \/ answer(r).code = "Done" /\ exit[On[r]] = {answer(r).count}
    BY <1>1
  <2>1. CASE r \in asked
    BY <2>1 DEF Result
  <2>2. CASE r \notin asked
    <3>1. answer(r) = ExitAnswer(On[r]) /\ answer(r) # None /\ On[r] \in S
      BY <2>2 DEF Attempt
    <3>2. On[r] \in Children /\ Live(On[r])
      BY <1>3, <3>1
    <3>3. PICK s \in Statuses : answer(r) = Result("Done", s) /\ exit[On[r]] = {s}
      BY <3>1, <3>2, AnswerRight
    <3> QED
      BY <3>3 DEF Result
  <2> QED
    BY <2>1, <2>2
<1>6. /\ DOMAIN completion' = Requests
      /\ \A r \in Requests : r \notin done => completion'[r] = completion[r]
  BY <1>1
<1>7. op' \in [Requests -> {"none", "cold", "parked", "queued", "returned"}]
  BY <1>1 DEF PInv, Typed
<1> HIDE DEF W, S, answer, done
<1>8. \A p \in Children : Live(p)' <=> Live(p)
  <2>1. \A r \in Requests : (op'[r] \in {"cold", "parked", "queued"}) <=>
                            (op[r] \in {"cold", "parked", "queued"})
    BY <1>4
  <2> QED
    BY <1>1, <2>1, LiveKept
<1>9. /\ holder' \in [Pids -> Children \cup {Foreign, Nobody}]
      /\ status' \in [Children -> SUBSET Statuses]
      /\ \A p \in Children : status'[p] \subseteq exit[p]
      /\ \A p \in Children : status'[p] = status[p] \/ p \notin fresh
      /\ Held' /\ Reachable'
  <2>1. /\ \A p \in Children : Live(p)' => Live(p)
        /\ \A p \in Children : Live(p) => Live(p)' \/ (p \in S /\ exit[p] # {})
    BY <1>8
  <2>2. UNCHANGED <<pid, exit>>
    BY <1>1
  <2> QED
    BY <1>2, <1>3, <2>1, <2>2, PollRight
<1>10. /\ exit' \in [Children -> {{}, {0}, {Killed}}] /\ \A p \in alive' : exit'[p] = {}
       /\ harmed' = {} /\ alive' \subseteq Children
  BY <1>1 DEF PInv, Typed, Truthful
<1>11. Unspawned' /\ Truthful'
  BY <1>1, <1>8, <1>9, <1>10, ExitsKept
<1>12. Answered'
  BY <1>1, <1>5, <1>6, AnswersKept
<1>13. Typed'
  BY <1>1, <1>6, <1>7, <1>9, <1>10 DEF PInv, Typed
<1>14. ToSet(events) \subseteq Requests
  BY DEF PInv, Typed, ToSet
<1>15. Sources' /\ Grouped'
  BY <1>1, <1>4, <1>14 DEF PInv, Sources, Grouped
<1> QED
  BY <1>9, <1>10, <1>11, <1>12, <1>13, <1>15 DEF PInv

\* poll(2) fails for a request with a descriptor, which a wait has not.
LEMMA InterruptedStep == ASSUME PInv, Interrupted PROVE PInv'
<1> DEFINE r == events[1]
<1>1. /\ UNCHANGED <<holder, alive, exit, harmed, pid, status, told, fresh>>
      /\ UNCHANGED <<handles, group, callers, scan>> /\ stage = "wait" /\ stage' = "poll"
  BY DEF Interrupted, kernel, state, groups
<1>2. CASE UNCHANGED request
  BY <1>1, <1>2, QuietStep DEF request, kernel, PInv, Typed
<1>3. CASE /\ Kind[r] # "Wait" /\ UNCHANGED events
           /\ completion' = [completion EXCEPT ![r] = Result("Error", 0)]
           /\ op' = [op EXCEPT ![r] = "queued"]
  <2>1. events # <<>> /\ events \in Seq(Requests)
    BY <1>1 DEF PInv, Typed, Sources
  <2>2. r \in ToSet(events) /\ r \in Requests
    BY <2>1 DEF ToSet
  <2> HIDE DEF r
  <2>3. /\ op[r] \in {"parked", "queued"} /\ op'[r] = "queued"
        /\ \A q \in Requests : q # r => op'[q] = op[q]
        /\ op' \in [Requests -> {"none", "cold", "parked", "queued", "returned"}]
    BY <1>3, <2>2 DEF PInv, Typed, Sources
  <2>4. /\ DOMAIN completion' = Requests
        /\ \A q \in Requests : completion'[q] = completion[q] \/ Kind[q] # "Wait"
    BY <1>3 DEF PInv, Typed
  <2>5. \A p \in Children : Live(p)' <=> Live(p)
    BY <1>1, <2>3, LiveKept
  <2>6. Held' /\ Reachable' /\ Unspawned' /\ Truthful' /\ harmed' = {}
    BY <1>1, <2>5, NumbersKept
  <2>7. Answered'
    BY <1>1, <2>4, AnswersKept
  <2>8. Typed'
    BY <1>1, <1>3, <2>3, <2>4 DEF PInv, Typed
  <2>9. ToSet(events) \subseteq Requests
    BY <2>1 DEF ToSet
  <2>10. Sources' /\ Grouped'
    BY <1>1, <1>3, <2>3, <2>9 DEF PInv, Sources, Grouped
  <2> QED
    BY <2>6, <2>7, <2>8, <2>10 DEF PInv
<1> QED
  BY <1>2, <1>3 DEF Interrupted

\* The index wait_any goes to next is one of the group.
LEMMA NextIndex ==
    ASSUME NEW n \in Nat, NEW i \in 1..n
    PROVE  (i % n) + 1 \in 1..n
<1>1. i % n \in 0..(n - 1)
  OBVIOUS
<1> QED
  BY <1>1

\* wait_any looks at one child: it is reaped and leaves the group, for its owner
\* too, or the next one is looked at.
LEMMA ScanStep == ASSUME PInv, Scan PROVE PInv'
<1> DEFINE c == group[scan]
<1>1. /\ UNCHANGED <<alive, exit, harmed, pid, fresh>>
      /\ UNCHANGED <<handles, op, completion, events>> /\ stage = "group" /\ PollExit({c})
  BY DEF Scan, request
<1>2. /\ group \in Seq(Children) /\ callers = group /\ scan \in DOMAIN group
      /\ DOMAIN group = 1..Len(group) /\ Len(group) \in Nat
  BY <1>1 DEF PInv, Typed, Grouped
<1>3. c \in ToSet(group) /\ c \in Children /\ callers[scan] = c
  BY <1>2 DEF ToSet
<1>4. CASE ExitAnswer(c).code = "Done"
           /\ group' = RemoveAt(group, scan) /\ callers' = RemoveAt(callers, scan)
           /\ told' = [told EXCEPT ![c] = {ExitAnswer(c).count}]
           /\ stage' = "run" /\ UNCHANGED scan
  <2>1. /\ group' \in Seq(Children) /\ ToSet(group') \subseteq ToSet(group)
        /\ ToSet(group) \subseteq ToSet(group') \cup {c} /\ callers' = group'
    BY <1>2, <1>4, RemoveAtElements
  <2> HIDE DEF c
  <2>2. Live(c) /\ c \notin fresh
    BY <1>3 DEF Live, PInv, Unspawned
  <2>3. PICK s \in Statuses : ExitAnswer(c) = Result("Done", s) /\ exit[c] = {s}
    <3>1. None.code = "None"
      BY DEF None
    <3>2. ExitAnswer(c) # None
      BY <1>4, <3>1
    <3> QED
      BY <1>3, <2>2, <3>2, AnswerRight
  <2>4. told' = [told EXCEPT ![c] = {s}]
    BY <1>4, <2>3 DEF Result
  <2>5. /\ told' \in [Children -> SUBSET Statuses]
        /\ \A p \in Children : told'[p] = told[p] \/ (p \notin fresh /\ told'[p] \subseteq exit'[p])
    BY <1>1, <2>2, <2>3, <2>4 DEF PInv, Typed
  <2>6. /\ \A p \in Children : Live(p)' => Live(p)
        /\ \A p \in Children : Live(p) => Live(p)' \/ (p \in {c} /\ exit[p] # {})
    BY <1>1, <2>1, <2>3 DEF Live
  <2>7. {c} \in SUBSET Children /\ \A p \in {c} : Live(p)
    BY <1>3, <2>2
  <2>8. UNCHANGED <<pid, exit>>
    BY <1>1
  <2>9. /\ holder' \in [Pids -> Children \cup {Foreign, Nobody}]
        /\ status' \in [Children -> SUBSET Statuses]
        /\ \A p \in Children : status'[p] \subseteq exit[p]
        /\ \A p \in Children : status'[p] = status[p] \/ p \notin fresh
        /\ Held' /\ Reachable'
    BY <1>1, <2>6, <2>7, <2>8, PollRight
  <2>10. /\ exit' \in [Children -> {{}, {0}, {Killed}}] /\ \A p \in alive' : exit'[p] = {}
         /\ harmed' = {}
    BY <1>1 DEF PInv, Typed, Truthful
  <2>11. Unspawned' /\ Truthful'
    BY <1>1, <2>5, <2>6, <2>9, <2>10, ExitsKept
  <2>12. Answered'
    BY <1>1, AnswersKept
  <2>13. Typed'
    BY <1>1, <1>4, <2>1, <2>5, <2>9, <2>10 DEF PInv, Typed
  <2>14. Sources' /\ Grouped'
    BY <1>1, <1>4, <2>1 DEF PInv, Sources, Grouped
  <2> QED
    BY <2>9, <2>10, <2>11, <2>12, <2>13, <2>14 DEF PInv
<1>5. CASE scan' = (scan % Len(group)) + 1 /\ UNCHANGED <<group, callers, told, stage>>
  <2>1. scan' \in DOMAIN group /\ scan' \in Nat
    <3>1. (scan % Len(group)) + 1 \in 1..Len(group)
      BY <1>2, NextIndex
    <3> QED
      BY <1>2, <1>5, <3>1
  <2> HIDE DEF c
  <2>2. Live(c)
    BY <1>3 DEF Live
  <2>3. \A p \in Children : Live(p)' <=> Live(p)
    BY <1>1, <1>5, LiveKept
  <2>4. /\ \A p \in Children : Live(p)' => Live(p)
        /\ \A p \in Children : Live(p) => Live(p)' \/ (p \in {c} /\ exit[p] # {})
    BY <2>3
  <2>5. {c} \in SUBSET Children /\ \A p \in {c} : Live(p)
    BY <1>3, <2>2
  <2>6. UNCHANGED <<pid, exit>>
    BY <1>1
  <2>7. /\ holder' \in [Pids -> Children \cup {Foreign, Nobody}]
        /\ status' \in [Children -> SUBSET Statuses]
        /\ \A p \in Children : status'[p] \subseteq exit[p]
        /\ \A p \in Children : status'[p] = status[p] \/ p \notin fresh
        /\ Held' /\ Reachable'
    BY <1>1, <2>4, <2>5, <2>6, PollRight
  <2>8. /\ exit' \in [Children -> {{}, {0}, {Killed}}] /\ \A p \in alive' : exit'[p] = {}
        /\ harmed' = {}
    BY <1>1 DEF PInv, Typed, Truthful
  <2>9. Unspawned' /\ Truthful'
    BY <1>1, <1>5, <2>4, <2>7, <2>8, ExitsKept
  <2>10. Answered'
    BY <1>1, AnswersKept
  <2>11. Typed'
    BY <1>1, <1>5, <2>1, <2>7, <2>8 DEF PInv, Typed
  <2>12. Sources' /\ Grouped'
    BY <1>1, <1>5, <2>1 DEF PInv, Sources, Grouped
  <2> QED
    BY <2>7, <2>8, <2>9, <2>10, <2>11, <2>12 DEF PInv
<1>6. callers[scan] = group[scan]
  BY <1>3
<1> QED
  BY <1>4, <1>5, <1>6 DEF Scan, Erase

-----------------------------------------------------------------------------
(* Theorems.                                                                *)

\* Nothing is spawned, parked or told in the beginning.
LEMMA InitPInv == Init => PInv
<1> SUFFICES ASSUME Init PROVE PInv
  OBVIOUS
<1>1. /\ holder = [k \in Pids |-> Nobody] /\ alive = {} /\ harmed = {} /\ handles = {}
      /\ exit = [p \in Children |-> {}] /\ pid = [p \in Children |-> {}]
      /\ status = [p \in Children |-> {}] /\ told = [p \in Children |-> {}]
      /\ completion = [r \in Requests |-> None] /\ events = <<>> /\ group = <<>> /\ callers = <<>>
      /\ scan = 1 /\ stage = "run" /\ fresh \subseteq Children
  BY DEF Init
<1>2. op \in [Requests -> {"none", "returned"}]
  BY DEF Init
<1>3. ToSet(group) = {} /\ ToSet(events) = {}
  BY <1>1 DEF ToSet
<1>4. \A p \in Children : ~Live(p)
  BY <1>1, <1>2, <1>3 DEF Live
<1>5. Typed
  BY <1>1, <1>2 DEF Typed
<1>6. Held /\ Reachable
  BY <1>1, <1>4, NamesAssumption DEF Held, Reachable
<1>7. Unspawned /\ Truthful
  BY <1>1, <1>4 DEF Unspawned, Truthful
<1>8. Answered
  BY <1>1 DEF Answered, None
<1>9. Sources /\ Grouped
  BY <1>1, <1>3 DEF Sources, Grouped, Once
<1> QED
  BY <1>1, <1>5, <1>6, <1>7, <1>8, <1>9 DEF PInv

\* A spawn that fails after the child was started leaves neither of them.
LEMMA SpawnFailsStep == ASSUME PInv, NEW c \in Children, SpawnFails(c) PROVE PInv'
<1>1. /\ UNCHANGED <<holder, alive, harmed, status, handles, op, completion, events, group, callers,
                     told, scan, stage>>
      /\ c \in fresh /\ fresh' = fresh \ {c}
  BY DEF SpawnFails, request, groups
<1>2. PICK n \in Pids : holder[n] = Nobody /\ pid' = [pid EXCEPT ![c] = {n}]
  BY DEF SpawnFails
<1>3. PICK s \in Statuses : exit' = [exit EXCEPT ![c] = {s}]
  BY DEF SpawnFails
<1>4. /\ ~Live(c) /\ c \notin alive /\ exit[c] = {} /\ status[c] = {} /\ told[c] = {}
      /\ fresh \subseteq Children
  BY <1>1 DEF PInv, Unspawned, Typed
<1>5. \A p \in Children : Live(p)' <=> Live(p)
  BY <1>1, LiveKept
<1>6. /\ pid' \in [Children -> SUBSET Pids] /\ exit' \in [Children -> {{}, {0}, {Killed}}]
      /\ \A p \in Children : p # c => pid'[p] = pid[p] /\ exit'[p] = exit[p]
  BY <1>2, <1>3 DEF PInv, Typed, Statuses
<1>7. \A k \in Pids : holder[k] # c
  BY <1>4 DEF PInv, Held
<1>8. Held' /\ Reachable'
  BY <1>1, <1>4, <1>5, <1>6, <1>7 DEF PInv, Held, Reachable
<1>9. Unspawned' /\ Truthful'
  BY <1>1, <1>4, <1>5, <1>6 DEF PInv, Unspawned, Truthful, Typed
<1>10. Answered'
  <2>1. \A r \in Requests : On[r] \in Children
    BY RequestsAssumption
  <2>2. \A r \in Requests : exit[On[r]] # {} => exit'[On[r]] = exit[On[r]]
    BY <1>4, <1>6, <2>1
  <2> QED
    BY <1>1, <2>2 DEF PInv, Answered
<1>11. Typed'
  BY <1>1, <1>4, <1>6 DEF PInv, Typed
<1>12. Sources' /\ Grouped'
  BY <1>1 DEF PInv, Sources, Grouped
<1> QED
  BY <1>1, <1>8, <1>9, <1>10, <1>11, <1>12 DEF PInv

\* One case for each disjunct of Next.
LEMMA NextPInv == PInv /\ [Next]_vars => PInv'
<1> SUFFICES ASSUME PInv, [Next]_vars PROVE PInv'
  OBVIOUS
<1>1. CASE UNCHANGED vars
  BY <1>1, QuietStep DEF vars, kernel, state, request, groups, PInv, Typed, Sources, Grouped
<1>2. CASE Outside
  BY <1>2, ExitsStep, QuietSteps, ReuseStep DEF Outside
<1>3. CASE Tasks
  <2>1. CASE \E p \in Children : Drop(p) \/ Terminate(p) \/ CloseInput(p)
    BY <2>1, DropStep, TerminateStep, QuietSteps
  <2>2. CASE \E p \in Children : IF \E r \in Requests : On[r] = p THEN Spawn(p) \/ SpawnFails(p) ELSE GroupSpawn(p)
    <3>1. PICK p \in Children : IF \E r \in Requests : On[r] = p THEN Spawn(p) \/ SpawnFails(p) ELSE GroupSpawn(p)
      BY <2>2
    <3>2. CASE (\E r \in Requests : On[r] = p) /\ Spawn(p)
      BY <3>2, ForkStep DEF Spawn, groups
    <3>3. CASE (\A r \in Requests : On[r] # p) /\ GroupSpawn(p)
      BY <3>3, ForkStep DEF GroupSpawn
    <3> QED
      BY <3>1, <3>2, <3>3, SpawnFailsStep
  <2>3. CASE \E r \in Requests :
               Create(r) \/ Discard(r) \/ Cancel(r) \/ StartRefused(r) \/ StartDone(r) \/ Start(r)
    BY <2>3, CreateStep, DiscardStep, QuietSteps, StartRefusedStep, StartDoneStep, StartStep
  <2>4. CASE GroupWait \/ GroupDrop
    BY <2>4, QuietSteps, GroupDropStep
  <2> QED
    BY <1>3, <2>1, <2>2, <2>3, <2>4 DEF Tasks
<1>4. CASE Driver
  BY <1>4, QuietSteps, PollStep DEF Driver
<1>5. CASE Scan \/ Interrupted \/ ResumeOther \/ \E r \in Requests : Resume(r)
  BY <1>5, ScanStep, InterruptedStep, QuietSteps, ResumeStep
<1> QED
  BY <1>1, <1>2, <1>3, <1>4, <1>5 DEF Next

\* The invariant the theorems are read off.
LEMMA Invariance == Spec => []PInv
  BY InitPInv, NextPInv, PTL DEF Spec

\* No process other than the child is ever signalled, by terminate(), by the end
\* of a handle, of an operation or of a group, though process numbers are given
\* away at any time after a child was reaped; and a child that runs or waits to
\* be reaped has a State that knows its number.
THEOREM NumbersRight == Spec => []ChildOwned
<1>1. PInv => ChildOwned
  BY DEF PInv, Held, ChildOwned
<1> QED
  BY <1>1, Invariance, PTL

\* Whoever is told how a child ended is told the one way it did: every wait that
\* was neither refused nor cancelled, whether it reaped the child or came after,
\* and the owner of a group by the index in its own list.
THEOREM ExitsTold == Spec => []ExitTruthful
<1>1. PInv => ExitTruthful
  BY DEF PInv, Truthful, Answered, ExitTruthful
<1> QED
  BY <1>1, Invariance, PTL
=============================================================================
