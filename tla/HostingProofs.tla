--------------------------- MODULE HostingProofs ---------------------------
(***************************************************************************)
(* Theorems about HostSession and HostRequests.                            *)
(*                                                                         *)
(* For any tasks, subscriptions, programs, mailbox and quantum: a task     *)
(* that was handed out is in the mailbox or among the calls until it has   *)
(* its result, and a program is freed after its last call.                 *)
(*                                                                         *)
(* For any requests and providers of one call: the invariants of           *)
(* HostRequests are not inductive.  That a closed scope keeps no request   *)
(* needs that every attached request is registered or in the loop that     *)
(* detaches it, and that a hook runs once needs that it was taken out      *)
(* before.  IInv adds what is missing, request by request.                 *)
(***************************************************************************)
EXTENDS HostSession, HostRequests, FiniteSetTheorems, SequenceTheorems, TLAPS

-----------------------------------------------------------------------------
(* The session: its inductive invariant.                                    *)

SessionTyped ==
    /\ pending \in Seq([subscription : Subscriptions, task : Tasks])
    /\ status \in [Tasks -> Statuses] /\ result \in [Tasks -> Results \cup {None}]
    /\ source \in [Tasks -> Programs \cup {None}]
    /\ active \in Seq(Tasks) /\ current \in Tasks \cup {None}
    /\ programs \subseteq Programs /\ uses \in [Programs -> Nat]
    /\ latest \in Programs \cup {None} /\ entry \in Programs \cup {None}

\* No task was posted twice.
PostedOnce(s) == \A i, j \in DOMAIN s : s[i].task = s[j].task => i = j

\* The calls of a program.
CallsOf(p) == {t \in Live : source[t] = p}

SessionInv == SessionTyped /\ EveryTaskHeld /\ ProgramsRetained

-----------------------------------------------------------------------------
(* Sequences.                                                               *)

\* The entries that are left when some were erased: each once, and in order.
LEMMA RestrictionIndices ==
    ASSUME NEW S, NEW s \in Seq(S), NEW I \in SUBSET DOMAIN s
    PROVE  /\ Restriction(s, I) \in Seq(S)
           /\ \E nth \in [DOMAIN Restriction(s, I) -> I] :
                /\ \A n \in DOMAIN Restriction(s, I) : Restriction(s, I)[n] = s[nth[n]]
                /\ \A i \in I : \E n \in DOMAIN Restriction(s, I) : nth[n] = i
                /\ \A m, n \in DOMAIN Restriction(s, I) : m < n => nth[m] < nth[n]
<1> DEFINE before(i) == {j \in I : j <= i}
           m == Cardinality(I)
           rank == [i \in I |-> Cardinality(before(i))]
           nth == [n \in 1..m |-> CHOOSE i \in I : Cardinality({j \in I : j <= i}) = n]
<1>1. DOMAIN s = 1..Len(s) /\ Len(s) \in Nat /\ I \subseteq 1..Len(s)
  OBVIOUS
<1>2. IsFiniteSet(I) /\ m \in Nat
  <2>1. IsFiniteSet(1..Len(s))
    BY <1>1, FS_Interval
  <2> QED
    BY <1>1, <2>1, FS_Subset, FS_CardinalityType
<1>3. \A i \in I : IsFiniteSet(before(i)) /\ rank[i] \in 1..m
  <2> SUFFICES ASSUME NEW i \in I PROVE IsFiniteSet(before(i)) /\ rank[i] \in 1..m
    OBVIOUS
  <2>1. before(i) \in SUBSET I /\ i \in before(i)
    BY <1>1
  <2>2. IsFiniteSet(before(i)) /\ Cardinality(before(i)) <= m
    <3> HIDE DEF before
    <3> QED
      BY <1>2, <2>1, FS_Subset
  <2>3. Cardinality(before(i)) \in Nat /\ Cardinality(before(i)) # 0
    BY <2>1, <2>2, FS_CardinalityType, FS_EmptySet
  <2>4. rank[i] = Cardinality(before(i))
    OBVIOUS
  <2> HIDE DEF before, rank, m
  <2>5. rank[i] \in Nat /\ rank[i] # 0 /\ rank[i] <= m
    BY <2>2, <2>3, <2>4
  <2>6. rank[i] \in 1..m
    BY <1>2, <2>5
  <2> QED
    BY <2>2, <2>6
<1>i. \A i \in I : rank[i] \in Int
  <2>1. \A i \in I : rank[i] \in 1..m
    BY <1>3
  <2> HIDE DEF before, nth, rank, m
  <2> QED
    BY <1>2, <2>1
<1>4. \A i, k \in I : i < k => rank[i] < rank[k]
  <2> SUFFICES ASSUME NEW i \in I, NEW k \in I, i < k PROVE rank[i] < rank[k]
    OBVIOUS
  <2>1. i \in Int /\ k \in Int /\ \A j \in I : j \in Int
    BY <1>1
  <2>2. before(i) \in SUBSET before(k) /\ k \in before(k) /\ k \notin before(i)
    BY <2>1
  <2>3. before(i) # before(k)
    BY <2>2
  <2>4. Cardinality(before(i)) <= Cardinality(before(k))
        /\ Cardinality(before(i)) # Cardinality(before(k))
    BY <1>3, <2>2, <2>3, FS_Subset
  <2>5. rank[i] \in Int /\ rank[k] \in Int
    BY <1>i
  <2> QED
    BY <2>4, <2>5
<1>5. rank \in Surjection(I, 1..m)
  <2>1. rank \in [I -> 1..m]
    BY <1>3
  <2>2. \A i, k \in I : rank[i] = rank[k] => i = k
    <3> SUFFICES ASSUME NEW i \in I, NEW k \in I, rank[i] = rank[k], i # k PROVE FALSE
      OBVIOUS
    <3>1. i < k \/ k < i
      BY <1>1
    <3>2. rank[i] < rank[k] \/ rank[k] < rank[i]
      BY <1>4, <3>1
    <3>3. rank[i] \in Int /\ rank[k] \in Int
      BY <1>i
    <3> QED
      BY <3>2, <3>3
  <2> HIDE DEF rank
  <2>3. rank \in Injection(I, 1..m)
    BY <2>1, <2>2 DEF Injection, IsInjective
  <2>4. IsFiniteSet(1..m) /\ Cardinality(1..m) = m
    BY <1>2, FS_Interval
  <2> QED
    BY <1>2, <2>3, <2>4, FS_Injection
<1>6. \A n \in 1..m : \E i \in I : rank[i] = n
  BY <1>5 DEF Surjection
<1>7. \A n \in 1..m : nth[n] \in I /\ rank[nth[n]] = n
  BY <1>6
<1>8. nth \in [1..m -> I] /\ \A i \in I : \E n \in 1..m : nth[n] = i
  <2>1. nth \in [1..m -> I]
    BY <1>7
  <2>2. \A i \in I : rank[i] \in 1..m /\ nth[rank[i]] = i
    <3> SUFFICES ASSUME NEW i \in I PROVE rank[i] \in 1..m /\ nth[rank[i]] = i
      OBVIOUS
    <3>1. rank[i] \in 1..m
      BY <1>3
    <3>2. nth[rank[i]] \in I /\ rank[nth[rank[i]]] = rank[i]
      BY <1>7, <3>1
    <3>3. nth[rank[i]] \in Int /\ i \in Int /\ rank[i] \in Int
      BY <1>1, <1>2, <3>1, <3>2
    <3>4. nth[rank[i]] < i \/ i < nth[rank[i]] \/ nth[rank[i]] = i
      BY <3>3
    <3> HIDE DEF nth, rank
    <3>5. ~(nth[rank[i]] < i) /\ ~(i < nth[rank[i]])
      BY <1>4, <3>2, <3>3
    <3> QED
      BY <3>1, <3>4, <3>5
  <2> QED
    BY <2>1, <2>2
<1>9. \A a, b \in 1..m : a < b => nth[a] < nth[b]
  <2> SUFFICES ASSUME NEW a \in 1..m, NEW b \in 1..m, a < b PROVE nth[a] < nth[b]
    OBVIOUS
  <2>1. nth[a] \in I /\ nth[b] \in I /\ rank[nth[a]] = a /\ rank[nth[b]] = b
    BY <1>7
  <2>2. nth[a] \in Int /\ nth[b] \in Int
    BY <1>1, <2>1
  <2> HIDE DEF nth, rank
  <2>3. ~(nth[b] < nth[a]) /\ nth[a] # nth[b]
    BY <1>2, <1>4, <2>1
  <2> QED
    BY <2>2, <2>3
<1>10. Restriction(s, I) = [n \in 1..m |-> s[nth[n]]]
  <2>1. \A n \in 1..m : nth[n] = CHOOSE i \in I : Cardinality({j \in I : j <= i}) = n
    OBVIOUS
  <2> HIDE DEF nth
  <2> DEFINE at(n) == CHOOSE i \in I : Cardinality({j \in I : j <= i}) = n
  <2>2. \A n \in 1..m : nth[n] = at(n)
    BY <2>1
  <2>3. Restriction(s, I) = [n \in 1..m |-> s[at(n)]]
    BY DEF Restriction
  <2> HIDE DEF at
  <2> QED
    BY <2>2, <2>3
<1> HIDE DEF nth, rank, m
<1>11. Restriction(s, I) \in Seq(S)
  <2>1. \A n \in 1..m : s[nth[n]] \in S
    BY <1>8
  <2> QED
    BY <1>2, <1>10, <2>1
<1>12. DOMAIN Restriction(s, I) = 1..m /\ \A n \in 1..m : Restriction(s, I)[n] = s[nth[n]]
  BY <1>10
<1> QED
  BY <1>8, <1>9, <1>11, <1>12

LEMMA RangeOf ==
    ASSUME NEW S, NEW s \in Seq(S)
    PROVE  Range(s) \subseteq S
  BY DEF Range

\* Appending an entry, and taking the first one.
LEMMA AppendRange ==
    ASSUME NEW S, NEW s \in Seq(S), NEW e \in S
    PROVE  /\ Append(s, e) \in Seq(S) /\ Range(Append(s, e)) = Range(s) \cup {e}
           /\ Distinct(s) /\ e \notin Range(s) => Distinct(Append(s, e))
<1> DEFINE t == Append(s, e)
<1>1. /\ t \in Seq(S) /\ DOMAIN s = 1..Len(s) /\ Len(s) \in Nat
      /\ DOMAIN t = 1..(Len(s) + 1) /\ t[Len(s) + 1] = e
      /\ \A i \in 1..Len(s) : t[i] = s[i]
  OBVIOUS
<1> HIDE DEF t
<1>2. \A i \in DOMAIN t : (i \in DOMAIN s /\ t[i] = s[i]) \/ (i = Len(s) + 1 /\ t[i] = e)
  BY <1>1
<1>3. Len(s) + 1 \in DOMAIN t /\ \A i \in DOMAIN s : i \in DOMAIN t /\ t[i] = s[i]
  BY <1>1
<1>4. Range(t) = Range(s) \cup {e}
  BY <1>1, <1>2, <1>3 DEF Range
<1>5. ASSUME Distinct(s), e \notin Range(s) PROVE Distinct(t)
  <2> SUFFICES ASSUME NEW i \in DOMAIN t, NEW j \in DOMAIN t, t[i] = t[j] PROVE i = j
    BY DEF Distinct
  <2>1. \A k \in DOMAIN s : s[k] # e
    BY <1>5 DEF Range
  <2> QED
    BY <1>2, <1>5, <2>1 DEF Distinct
<1> QED
  BY <1>1, <1>4, <1>5 DEF t

LEMMA TailRange ==
    ASSUME NEW S, NEW s \in Seq(S), s # <<>>
    PROVE  /\ Tail(s) \in Seq(S) /\ Head(s) \in S
           /\ Range(s) = Range(Tail(s)) \cup {Head(s)}
           /\ Distinct(s) => Distinct(Tail(s)) /\ Head(s) \notin Range(Tail(s))
           /\ PostedOnce(s) => PostedOnce(Tail(s)) /\ \A e \in Range(Tail(s)) : e.task # Head(s).task
<1> DEFINE t == Tail(s)
<1>1. /\ t \in Seq(S) /\ Head(s) = s[1] /\ Len(s) \in Nat /\ Len(s) >= 1
      /\ DOMAIN s = 1..Len(s) /\ DOMAIN t = 1..(Len(s) - 1)
      /\ \A i \in 1..(Len(s) - 1) : t[i] = s[i + 1]
  OBVIOUS
<1> HIDE DEF t
<1>2. \A i \in DOMAIN t : i \in Int /\ i + 1 \in DOMAIN s /\ i + 1 # 1 /\ t[i] = s[i + 1]
  BY <1>1
<1>3. \A i \in DOMAIN s : i = 1 \/ \E j \in DOMAIN t : t[j] = s[i]
  <2> SUFFICES ASSUME NEW i \in DOMAIN s, i # 1 PROVE i - 1 \in DOMAIN t /\ t[i - 1] = s[i]
    OBVIOUS
  <2>1. i - 1 \in 1..(Len(s) - 1) /\ (i - 1) + 1 = i
    BY <1>1
  <2> QED
    BY <1>1, <2>1
<1>4. 1 \in DOMAIN s
  BY <1>1
<1>5. Range(s) = Range(t) \cup {Head(s)} /\ Head(s) \in S
  BY <1>1, <1>2, <1>3, <1>4 DEF Range
<1>6. ASSUME Distinct(s) PROVE Distinct(t) /\ Head(s) \notin Range(t)
  <2>1. Head(s) \notin Range(t)
    BY <1>1, <1>2, <1>4, <1>6 DEF Range, Distinct
  <2>2. ASSUME NEW i \in DOMAIN t, NEW j \in DOMAIN t, t[i] = t[j] PROVE i = j
    <3>1. i + 1 = j + 1
      BY <1>2, <1>6, <2>2 DEF Distinct
    <3> QED
      BY <1>2, <3>1
  <2> QED
    BY <2>1, <2>2 DEF Distinct
<1>7. ASSUME PostedOnce(s) PROVE PostedOnce(t) /\ \A e \in Range(t) : e.task # Head(s).task
  <2>1. \A e \in Range(t) : e.task # Head(s).task
    BY <1>1, <1>2, <1>4, <1>7 DEF Range, PostedOnce
  <2>2. ASSUME NEW i \in DOMAIN t, NEW j \in DOMAIN t, t[i].task = t[j].task PROVE i = j
    <3>1. i + 1 = j + 1
      BY <1>2, <1>7, <2>2 DEF PostedOnce
    <3> QED
      BY <1>2, <3>1
  <2> QED
    BY <2>1, <2>2 DEF PostedOnce
<1> QED
  BY <1>1, <1>5, <1>6, <1>7 DEF t

\* Posting a task that is not in the mailbox.
LEMMA AppendPosted ==
    ASSUME NEW S, NEW s \in Seq(S), NEW e \in S, PostedOnce(s), \A d \in Range(s) : d.task # e.task
    PROVE  PostedOnce(Append(s, e))
<1> DEFINE t == Append(s, e)
<1>1. /\ DOMAIN s = 1..Len(s) /\ Len(s) \in Nat
      /\ DOMAIN t = 1..(Len(s) + 1) /\ t[Len(s) + 1] = e
      /\ \A i \in 1..Len(s) : t[i] = s[i]
  OBVIOUS
<1> HIDE DEF t
<1>2. \A i \in DOMAIN t : (i \in DOMAIN s /\ t[i] = s[i]) \/ (i = Len(s) + 1 /\ t[i] = e)
  BY <1>1
<1>3. \A k \in DOMAIN s : s[k].task # e.task
  BY DEF Range
<1>4. PostedOnce(t)
  BY <1>2, <1>3 DEF PostedOnce
<1> QED
  BY <1>4 DEF t

\* Erasing entries keeps the others, each once.
LEMMA ErasedRange ==
    ASSUME NEW S, NEW s \in Seq(S), NEW I \in SUBSET DOMAIN s, PostedOnce(s)
    PROVE  /\ Restriction(s, I) \in Seq(S) /\ PostedOnce(Restriction(s, I))
           /\ Range(Restriction(s, I)) = {s[i] : i \in I}
<1> DEFINE t == Restriction(s, I)
<1>2. t \in Seq(S)
  BY RestrictionIndices
<1>3. PICK nth \in [DOMAIN t -> I] :
        /\ \A n \in DOMAIN t : t[n] = s[nth[n]]
        /\ \A i \in I : \E n \in DOMAIN t : nth[n] = i
        /\ \A m, n \in DOMAIN t : m < n => nth[m] < nth[n]
  BY RestrictionIndices
<1> HIDE DEF t
<1>4. \A n \in DOMAIN t : nth[n] \in I /\ nth[n] \in DOMAIN s
  BY <1>3
<1>5. Range(t) = {s[i] : i \in I}
  BY <1>3, <1>4 DEF Range
<1>6. PostedOnce(t)
  <2> SUFFICES ASSUME NEW m \in DOMAIN t, NEW n \in DOMAIN t, t[m].task = t[n].task, m # n PROVE FALSE
    BY DEF PostedOnce
  <2>1. nth[m] = nth[n]
    BY <1>3, <1>4 DEF PostedOnce
  <2>2. m \in Int /\ n \in Int
    BY <1>2
  <2>3. m < n \/ n < m
    BY <2>2
  <2>4. nth[m] \in Int
    BY <1>4
  <2> QED
    BY <1>3, <2>1, <2>3, <2>4
<1> QED
  BY <1>2, <1>5, <1>6 DEF t

-----------------------------------------------------------------------------
(* The calls and their programs.                                            *)

\* There are finitely many calls, and each is a task.
LEMMA LiveFinite ==
    ASSUME SessionInv
    PROVE  /\ IsFiniteSet(Live) /\ Live \subseteq Tasks
           /\ \A p : IsFiniteSet(CallsOf(p)) /\ Cardinality(CallsOf(p)) \in Nat
<1>1. active \in Seq(Tasks) /\ Range(active) \subseteq Tasks
  BY DEF SessionInv, SessionTyped, Range
<1>2. IsFiniteSet(1..Len(active)) /\ DOMAIN active = 1..Len(active)
  BY <1>1, FS_Interval
<1>3. active \in Surjection(DOMAIN active, Range(active))
  BY <1>1 DEF Surjection, Range
<1>4. IsFiniteSet(Range(active))
  BY <1>2, <1>3, FS_Surjection
<1>5. Advancing \subseteq {current} /\ Advancing \subseteq Tasks
  BY DEF Advancing
<1>6. IsFiniteSet(Advancing)
  BY <1>5, FS_Singleton, FS_Subset
<1>7. IsFiniteSet(Live) /\ Live \subseteq Tasks
  BY <1>1, <1>4, <1>5, <1>6, FS_Union DEF Live
<1>8. ASSUME NEW p PROVE IsFiniteSet(CallsOf(p)) /\ Cardinality(CallsOf(p)) \in Nat
  <2>1. CallsOf(p) \in SUBSET Live
    BY DEF CallsOf
  <2> QED
    BY <1>7, <2>1, FS_Subset, FS_CardinalityType
<1> QED
  BY <1>7, <1>8

\* The two parts of ProgramsRetained.
LEMMA Retained ==
    ProgramsRetained <=>
      /\ latest \in programs \cup {None} /\ entry \in programs \cup {None}
      /\ \A t \in Live : source[t] \in programs \cup {None}
      /\ \A p \in Programs : uses[p] = Cardinality(CallsOf(p))
  BY DEF ProgramsRetained, CallsOf

LEMMA RetainedNext ==
    ProgramsRetained' <=>
      /\ latest' \in programs' \cup {None} /\ entry' \in programs' \cup {None}
      /\ \A t \in Live' : source'[t] \in programs' \cup {None}
      /\ \A p \in Programs : uses'[p] = Cardinality(CallsOf(p)')
  BY DEF ProgramsRetained, CallsOf

\* A step of the other parts of the session.
LEMMA RetainedKept ==
    ASSUME SessionInv, Live' = Live, \A t \in Live : source'[t] = source[t],
           UNCHANGED <<uses, programs, latest, entry>>
    PROVE  ProgramsRetained'
<1>1. \A p : CallsOf(p)' = CallsOf(p)
  BY DEF CallsOf
<1> QED
  BY <1>1, Retained, RetainedNext DEF SessionInv

\* A call is admitted to a program that is bound, and counted.
LEMMA RetainedAdmit ==
    ASSUME SessionInv, NEW t \in Tasks, t \notin Live, NEW p \in Programs \cup {None}, Admit(t, p),
           Live' = Live \cup {t}, UNCHANGED <<programs, latest, entry>>
    PROVE  /\ ProgramsRetained' /\ source' \in [Tasks -> Programs \cup {None}]
           /\ uses' \in [Programs -> Nat]
<1>1. /\ source \in [Tasks -> Programs \cup {None}] /\ uses \in [Programs -> Nat]
      /\ source' = [source EXCEPT ![t] = p]
      /\ uses' = [q \in Programs |-> IF q = p THEN uses[q] + 1 ELSE uses[q]]
      /\ p = entry \/ p = latest
  BY DEF SessionInv, SessionTyped, Admit, Bound
<1>2. /\ latest \in programs \cup {None} /\ entry \in programs \cup {None}
      /\ \A u \in Live : source[u] \in programs \cup {None}
      /\ \A q \in Programs : uses[q] = Cardinality(CallsOf(q))
  BY Retained DEF SessionInv
<1>3. Live \subseteq Tasks
  BY LiveFinite
<1>4. source' \in [Tasks -> Programs \cup {None}] /\ uses' \in [Programs -> Nat]
  BY <1>1
<1>5. \A u \in Live' : source'[u] \in programs' \cup {None}
  BY <1>1, <1>2, <1>3
<1>6. ASSUME NEW q \in Programs PROVE uses'[q] = Cardinality(CallsOf(q)')
  <2>1. IsFiniteSet(CallsOf(q)) /\ t \notin CallsOf(q)
    BY LiveFinite DEF CallsOf
  <2>2. CASE q = p
    <3>1. CallsOf(q)' = CallsOf(q) \cup {t}
      BY <1>1, <1>3, <2>2 DEF CallsOf
    <3>2. Cardinality(CallsOf(q) \cup {t}) = Cardinality(CallsOf(q)) + 1
      BY <2>1, FS_AddElement
    <3> QED
      BY <1>1, <1>2, <2>2, <3>1, <3>2
  <2>3. CASE q # p
    <3>1. CallsOf(q)' = CallsOf(q)
      BY <1>1, <1>3, <2>3 DEF CallsOf
    <3> QED
      BY <1>1, <1>2, <2>3, <3>1
  <2> QED
    BY <2>2, <2>3
<1>7. latest' \in programs' \cup {None} /\ entry' \in programs' \cup {None}
  BY <1>2
<1> QED
  BY <1>4, <1>5, <1>6, <1>7, RetainedNext

\* A call that ends is uncounted, and the programs nobody needs are freed: not
\* those of the calls that are left.
LEMMA RetainedFinish ==
    ASSUME SessionInv, NEW t \in Live, Live' = Live \ {t}, UNCHANGED <<latest, entry>>,
           source' = [source EXCEPT ![t] = None],
           uses' = [q \in Programs |-> IF q = source[t] THEN uses[q] - 1 ELSE uses[q]],
           programs' = Collect(programs, {latest, entry}, uses')
    PROVE  /\ ProgramsRetained' /\ source' \in [Tasks -> Programs \cup {None}]
           /\ uses' \in [Programs -> Nat] /\ programs' \subseteq Programs
<1>1. /\ source \in [Tasks -> Programs \cup {None}] /\ uses \in [Programs -> Nat]
      /\ programs \subseteq Programs /\ None \notin Programs
  BY NoneAssumption DEF SessionInv, SessionTyped
<1>2. /\ latest \in programs \cup {None} /\ entry \in programs \cup {None}
      /\ \A u \in Live : source[u] \in programs \cup {None}
      /\ \A q \in Programs : uses[q] = Cardinality(CallsOf(q))
  BY Retained DEF SessionInv
<1>3. Live \subseteq Tasks
  BY LiveFinite
<1>4. ASSUME NEW q \in Programs PROVE uses'[q] = Cardinality(CallsOf(q)') /\ uses'[q] \in Nat
  <2>1. IsFiniteSet(CallsOf(q)) /\ Cardinality(CallsOf(q)) \in Nat
    BY LiveFinite
  <2>2. CASE q = source[t]
    <3>1. CallsOf(q)' = CallsOf(q) \ {t} /\ t \in CallsOf(q)
      BY <1>1, <1>3, <2>2 DEF CallsOf
    <3>2. /\ Cardinality(CallsOf(q) \ {t}) = Cardinality(CallsOf(q)) - 1
          /\ IsFiniteSet(CallsOf(q) \ {t})
      BY <2>1, <3>1, FS_RemoveElement
    <3>3. Cardinality(CallsOf(q) \ {t}) \in Nat
      BY <3>2, FS_CardinalityType
    <3>4. uses'[q] = uses[q] - 1
      BY <2>2
    <3> QED
      BY <1>2, <3>1, <3>2, <3>3, <3>4
  <2>3. CASE q # source[t]
    <3>1. CallsOf(q)' = CallsOf(q)
      BY <1>1, <1>3, <2>3 DEF CallsOf
    <3> QED
      BY <1>2, <2>1, <2>3, <3>1
  <2> QED
    BY <2>2, <2>3
<1>5. uses' \in [Programs -> Nat]
  BY <1>4
<1>6. \A q \in programs : q \in {latest, entry} \/ uses'[q] # 0 => q \in programs'
  BY DEF Collect
<1>7. ASSUME NEW u \in Live' PROVE source'[u] \in programs' \cup {None}
  <2>1. u \in Live /\ u # t /\ source'[u] = source[u]
    BY <1>1, <1>3
  <2>2. CASE source[u] = None
    BY <2>1, <2>2
  <2>3. CASE source[u] # None
    <3>1. source[u] \in programs /\ source[u] \in Programs
      BY <1>1, <1>2, <2>1, <2>3
    <3>2. u \in CallsOf(source[u])'
      BY <1>7, <2>1 DEF CallsOf
    <3>3. CallsOf(source[u])' \subseteq CallsOf(source[u])
      BY <1>1, <1>3, <3>1 DEF CallsOf
    <3>4. IsFiniteSet(CallsOf(source[u])')
      BY <3>3, LiveFinite, FS_Subset
    <3>5. Cardinality(CallsOf(source[u])') # 0
      BY <3>2, <3>4, FS_EmptySet
    <3>6. uses'[source[u]] # 0
      BY <1>4, <3>1, <3>5
    <3> QED
      BY <1>6, <2>1, <3>1, <3>6
  <2> QED
    BY <2>2, <2>3
<1>8. latest' \in programs' \cup {None} /\ entry' \in programs' \cup {None}
  BY <1>2, <1>6
<1>9. programs' \subseteq Programs
  BY <1>1 DEF Collect
<1>10. source' \in [Tasks -> Programs \cup {None}]
  BY <1>1
<1> QED
  BY <1>4, <1>5, <1>7, <1>8, <1>9, <1>10, RetainedNext

-----------------------------------------------------------------------------
(* The places of a task.                                                    *)

\* What the invariant says, task by task.
LEMMA Held ==
    ASSUME SessionInv
    PROVE  /\ PostedOnce(pending) /\ Distinct(active) /\ current \notin Range(active)
           /\ Queued \subseteq Tasks /\ Live \subseteq Tasks /\ invocation = Live
           /\ \A t : ~(t \in Queued /\ t \in Live)
           /\ \A t \in Tasks : status[t] \in {"Runnable", "Waiting"} <=> t \in Queued \/ t \in Live
           /\ \A t \in Tasks : result[t] # None <=> status[t] = "Finished"
           /\ status \in [Tasks -> Statuses] /\ result \in [Tasks -> Results \cup {None}]
<1>1. pending \in Seq([subscription : Subscriptions, task : Tasks])
  BY DEF SessionInv, SessionTyped
<1>2. Range(pending) \subseteq [subscription : Subscriptions, task : Tasks]
  BY <1>1, RangeOf
<1>3. Queued \subseteq Tasks
  BY <1>2 DEF Queued
<1>4. Live \subseteq Tasks
  BY LiveFinite
<1>5. EveryTaskHeld /\ SessionTyped
  BY DEF SessionInv
<1> QED
  BY <1>3, <1>4, <1>5 DEF EveryTaskHeld, SessionTyped, PostedOnce

LEMMA HeldNext ==
    ASSUME PostedOnce(pending)', Distinct(active)', current' \notin Range(active)',
           Queued' \subseteq Tasks, Live' \subseteq Tasks, invocation' = Live',
           \A t \in Tasks : ~(t \in Queued' /\ t \in Live'),
           \A t \in Tasks : status'[t] \in {"Runnable", "Waiting"} <=> t \in Queued' \/ t \in Live',
           \A t \in Tasks : result'[t] # None <=> status'[t] = "Finished"
    PROVE  EveryTaskHeld'
<1>1. Queued' \cap Live' = {}
  OBVIOUS
<1>2. {t \in Tasks : status'[t] \in {"Runnable", "Waiting"}} = Queued' \cup Live'
  OBVIOUS
<1>3. {t \in Tasks : result'[t] # None} = {t \in Tasks : status'[t] = "Finished"}
  OBVIOUS
<1> QED
  BY <1>1, <1>2, <1>3 DEF EveryTaskHeld, PostedOnce

\* The call that is being advanced.
LEMMA Advanced ==
    /\ current = None => Advancing = {}
    /\ current \in Tasks => Advancing = {current}
    /\ current' = None => Advancing' = {}
    /\ current' \in Tasks => Advancing' = {current'}
    /\ Live = Range(active) \cup Advancing
    /\ Live' = Range(active)' \cup Advancing'
  BY NoneAssumption DEF Advancing, Live

LEMMA CallsKept ==
    ASSUME UNCHANGED <<active, current>>
    PROVE  /\ Live' = Live /\ Range(active)' = Range(active)
           /\ Distinct(active) => Distinct(active)'
  BY DEF Live, Advancing, Range, Distinct

LEMMA MailboxKept ==
    ASSUME UNCHANGED pending
    PROVE  Queued' = Queued /\ (PostedOnce(pending) => PostedOnce(pending)')
  BY DEF Queued, Range, PostedOnce

-----------------------------------------------------------------------------
(* The steps of the session.                                                *)

\* A step that changes no call and no program.
LEMMA QuietStep ==
    ASSUME SessionInv, SessionTyped', UNCHANGED <<active, current>>, UNCHANGED pending,
           UNCHANGED <<invocation, source>>, UNCHANGED <<uses, programs, latest, entry>>,
           \A t \in Tasks : status'[t] \in {"Runnable", "Waiting"} <=> status[t] \in {"Runnable", "Waiting"},
           \A t \in Tasks : result'[t] # None <=> status'[t] = "Finished"
    PROVE  SessionInv'
<1>1. Live' = Live /\ Range(active)' = Range(active) /\ Distinct(active)'
  BY CallsKept, Held
<1>2. Queued' = Queued /\ PostedOnce(pending)'
  BY MailboxKept, Held
<1>3. EveryTaskHeld'
  BY <1>1, <1>2, Held, HeldNext
<1>4. ProgramsRetained'
  BY <1>1, RetainedKept
<1> QED
  BY <1>3, <1>4 DEF SessionInv

LEMMA QuietVars ==
    ASSUME SessionInv, UNCHANGED <<pending, task, call, active, current, loaded, uses>>
    PROVE  SessionInv'
<1>1. UNCHANGED <<active, current>> /\ UNCHANGED pending
      /\ UNCHANGED <<invocation, source>> /\ UNCHANGED <<uses, programs, latest, entry>>
      /\ UNCHANGED <<status, result>>
  BY DEF task, call, loaded
<1>2. SessionTyped'
  BY <1>1 DEF SessionInv, SessionTyped
<1> QED
  BY <1>1, <1>2, Held, QuietStep

\* Live calls are asked to end.
LEMMA CancelStep ==
    ASSUME SessionInv, NEW S \in SUBSET Live, CancelCalls(S),
           UNCHANGED <<pending, result, call, active, current, loaded, uses>>
    PROVE  SessionInv'
<1>1. UNCHANGED <<active, current>> /\ UNCHANGED pending
      /\ UNCHANGED <<invocation, source>> /\ UNCHANGED <<uses, programs, latest, entry>>
      /\ UNCHANGED result
  BY DEF call, loaded
<1>2. status' = [t \in Tasks |-> IF t \in S \ requested THEN "Runnable" ELSE status[t]]
  BY DEF CancelCalls
<1>3. \A t \in S : t \in Tasks => status[t] \in {"Runnable", "Waiting"}
  BY Held
<1>4. /\ \A t \in Tasks : status'[t] \in Statuses
      /\ \A t \in Tasks : status'[t] \in {"Runnable", "Waiting"} <=> status[t] \in {"Runnable", "Waiting"}
      /\ \A t \in Tasks : status'[t] = "Finished" <=> status[t] = "Finished"
  BY <1>2, <1>3, Held DEF Statuses
<1>5. status' \in [Tasks -> Statuses]
  BY <1>2, <1>4
<1>6. SessionTyped'
  BY <1>1, <1>5 DEF SessionInv, SessionTyped
<1>7. \A t \in Tasks : result'[t] # None <=> status'[t] = "Finished"
  BY <1>1, <1>4, Held
<1> QED
  BY <1>1, <1>4, <1>6, <1>7, QuietStep

LEMMA CancelTaskStep ==
    ASSUME SessionInv, NEW t \in Tasks, CancelTask(t)
    PROVE  SessionInv'
<1>1. UNCHANGED <<pending, result, call, active, current, loaded, uses>>
  BY DEF CancelTask, mailbox
<1>2. CASE t \in invocation
  <2>1. {t} \in SUBSET Live /\ CancelCalls({t})
    BY <1>2, Held DEF CancelTask
  <2> QED
    BY <1>1, <2>1, CancelStep
<1>3. CASE t \notin invocation
  <2>1. UNCHANGED <<pending, task, call, active, current, loaded, uses>> \/ UNCHANGED status
    BY <1>3 DEF CancelTask
  <2>2. UNCHANGED status
    BY <1>3 DEF CancelTask
  <2>3. UNCHANGED <<active, current>> /\ UNCHANGED pending
        /\ UNCHANGED <<invocation, source>> /\ UNCHANGED <<uses, programs, latest, entry>>
        /\ UNCHANGED <<status, result>>
    BY <1>1, <2>2 DEF call, loaded
  <2>4. SessionTyped'
    BY <2>3 DEF SessionInv, SessionTyped
  <2> QED
    BY <2>3, <2>4, Held, QuietStep
<1> QED
  BY <1>2, <1>3

LEMMA CloseCallsStep ==
    ASSUME SessionInv, CloseCalls
    PROVE  SessionInv'
<1>1. UNCHANGED <<pending, result, call, active, current, loaded, uses>>
  BY DEF CloseCalls, mailbox
<1>2. Range(active) \in SUBSET Live /\ CancelCalls(Range(active))
  BY Advanced DEF CloseCalls
<1> QED
  BY <1>1, <1>2, CancelStep

\* A finished task is in no place.
LEMMA DropStep ==
    ASSUME SessionInv, NEW t \in Tasks, Drop(t)
    PROVE  SessionInv'
<1>1. /\ UNCHANGED <<active, current>> /\ UNCHANGED pending
      /\ UNCHANGED <<invocation, source>> /\ UNCHANGED <<uses, programs, latest, entry>>
      /\ status[t] = "Finished" /\ status' = [status EXCEPT ![t] = "Unused"]
      /\ result' = [result EXCEPT ![t] = None]
  BY DEF Drop, mailbox, loaded
<1>2. status' \in [Tasks -> Statuses] /\ result' \in [Tasks -> Results \cup {None}]
  BY <1>1, Held DEF Statuses
<1>3. SessionTyped'
  BY <1>1, <1>2 DEF SessionInv, SessionTyped
<1>4. /\ \A u \in Tasks : status'[u] \in {"Runnable", "Waiting"} <=> status[u] \in {"Runnable", "Waiting"}
      /\ \A u \in Tasks : result'[u] # None <=> status'[u] = "Finished"
  BY <1>1, Held
<1> QED
  BY <1>1, <1>3, <1>4, QuietStep

-----------------------------------------------------------------------------
(* The steps that move a task.                                              *)

\* What becomes of the queued tasks when an event is appended, taken or erased.
LEMMA QueuedAppend ==
    ASSUME SessionInv, NEW s \in Subscriptions, NEW t \in Tasks, t \notin Queued,
           pending' = Append(pending, [subscription |-> s, task |-> t])
    PROVE  /\ pending' \in Seq([subscription : Subscriptions, task : Tasks])
           /\ Queued' = Queued \cup {t} /\ PostedOnce(pending)'
<1> DEFINE S == [subscription : Subscriptions, task : Tasks]
           e == [subscription |-> s, task |-> t]
<1>1. pending \in Seq(S) /\ e \in S /\ e.task = t
  BY DEF SessionInv, SessionTyped
<1>2. \A d \in Range(pending) : d.task # t
  BY DEF Queued
<1> HIDE DEF S, e
<1>3. pending' = Append(pending, e)
  BY DEF e
<1>4. Append(pending, e) \in Seq(S) /\ Range(Append(pending, e)) = Range(pending) \cup {e}
  BY <1>1, AppendRange
<1>5. PostedOnce(Append(pending, e))
  BY <1>1, <1>2, Held, AppendPosted
<1>6. Range(pending)' = Range(pending) \cup {e}
  BY <1>3, <1>4
<1>7. Queued' = Queued \cup {t}
  BY <1>1, <1>6 DEF Queued
<1>8. PostedOnce(pending)'
  BY <1>3, <1>5 DEF PostedOnce
<1> QED
  BY <1>3, <1>4, <1>7, <1>8 DEF S

LEMMA QueuedTail ==
    ASSUME SessionInv, pending # <<>>, pending' = Tail(pending)
    PROVE  /\ pending' \in Seq([subscription : Subscriptions, task : Tasks])
           /\ Head(pending).task \in Tasks /\ Head(pending).task \in Queued
           /\ Queued' = Queued \ {Head(pending).task} /\ PostedOnce(pending)'
<1> DEFINE S == [subscription : Subscriptions, task : Tasks]
           e == Head(pending)
<1>1. pending \in Seq(S) /\ PostedOnce(pending) /\ pending # <<>>
  BY Held DEF SessionInv, SessionTyped
<1> HIDE DEF S
<1>2. /\ Tail(pending) \in Seq(S) /\ Head(pending) \in S
      /\ Range(pending) = Range(Tail(pending)) \cup {Head(pending)}
      /\ PostedOnce(Tail(pending)) /\ \A d \in Range(Tail(pending)) : d.task # Head(pending).task
  BY <1>1, TailRange
<1>3. Head(pending).task \in Tasks
  BY <1>2 DEF S
<1>4. Range(pending)' = Range(Tail(pending))
  OBVIOUS
<1>5. Queued' = {d.task : d \in Range(Tail(pending))}
  BY <1>4 DEF Queued
<1>6. Queued = {d.task : d \in Range(pending)}
  BY DEF Queued
<1>7. Head(pending).task \in Queued /\ Queued' = Queued \ {Head(pending).task}
  BY <1>2, <1>5, <1>6
<1>8. PostedOnce(pending)'
  BY <1>2 DEF PostedOnce
<1> QED
  BY <1>2, <1>3, <1>7, <1>8 DEF S

LEMMA QueuedErased ==
    ASSUME SessionInv, NEW x,
           pending' = Restriction(pending, {i \in DOMAIN pending : pending[i].subscription # x})
    PROVE  /\ pending' \in Seq([subscription : Subscriptions, task : Tasks])
           /\ Queued' = Queued \ {e.task : e \in {d \in Range(pending) : d.subscription = x}}
           /\ PostedOnce(pending)'
<1> DEFINE S == [subscription : Subscriptions, task : Tasks]
           I == {i \in DOMAIN pending : pending[i].subscription # x}
           t == Restriction(pending, I)
<1>1. pending \in Seq(S) /\ PostedOnce(pending)
  BY Held DEF SessionInv, SessionTyped
<1>2. t \in Seq(S) /\ PostedOnce(t) /\ Range(t) = {e \in Range(pending) : e.subscription # x}
  <2>1. I \in SUBSET DOMAIN pending /\ {pending[i] : i \in I} = {e \in Range(pending) : e.subscription # x}
    BY DEF Range
  <2> HIDE DEF S, I, t
  <2>2. /\ Restriction(pending, I) \in Seq(S) /\ PostedOnce(Restriction(pending, I))
        /\ Range(Restriction(pending, I)) = {pending[i] : i \in I}
    BY <1>1, <2>1, ErasedRange
  <2> QED
    BY <2>1, <2>2 DEF t
<1>3. pending' = t
  OBVIOUS
<1> HIDE DEF t
<1>4. \A d, e \in Range(pending) : d.task = e.task => d = e
  BY <1>1 DEF Range, PostedOnce
<1>5. Range(pending)' = {e \in Range(pending) : e.subscription # x}
  BY <1>2, <1>3
<1>6. Queued' = {d.task : d \in {e \in Range(pending) : e.subscription # x}}
  BY <1>5 DEF Queued
<1>7. Queued = {d.task : d \in Range(pending)}
  BY DEF Queued
<1>8. Queued' = Queued \ {e.task : e \in {d \in Range(pending) : d.subscription = x}}
  BY <1>4, <1>6, <1>7
<1>9. PostedOnce(pending)'
  BY <1>2, <1>3 DEF PostedOnce
<1> QED
  BY <1>2, <1>3, <1>8, <1>9

LEMMA PostStep ==
    ASSUME SessionInv, NEW s \in Subscriptions, NEW t \in Tasks, Post(s, t)
    PROVE  SessionInv'
<1>1. /\ UNCHANGED <<active, current>> /\ UNCHANGED <<uses, programs, latest, entry>>
      /\ UNCHANGED <<invocation, source>> /\ UNCHANGED result
      /\ status[t] = "Unused" /\ status' = [status EXCEPT ![t] = "Runnable"]
      /\ pending' = Append(pending, [subscription |-> s, task |-> t])
  BY DEF Post, call, loaded
<1>2. t \notin Queued /\ t \notin Live
  BY <1>1, Held
<1>3. /\ pending' \in Seq([subscription : Subscriptions, task : Tasks])
      /\ Queued' = Queued \cup {t} /\ PostedOnce(pending)'
  BY <1>1, <1>2, QueuedAppend
<1>4. Live' = Live /\ Range(active)' = Range(active) /\ Distinct(active)'
  BY <1>1, CallsKept, Held
<1>5. status' \in [Tasks -> Statuses]
  BY <1>1, Held DEF Statuses
<1>6. SessionTyped'
  BY <1>1, <1>3, <1>5 DEF SessionInv, SessionTyped
<1>7. \A u \in Tasks : status'[u] \in {"Runnable", "Waiting"} <=> u \in Queued' \/ u \in Live'
  BY <1>1, <1>3, <1>4, Held
<1>8. \A u \in Tasks : result'[u] # None <=> status'[u] = "Finished"
  BY <1>1, Held
<1>9. EveryTaskHeld'
  BY <1>1, <1>2, <1>3, <1>4, <1>7, <1>8, Held, HeldNext
<1>10. ProgramsRetained'
  BY <1>1, <1>4, RetainedKept
<1> QED
  BY <1>6, <1>9, <1>10 DEF SessionInv

\* Queued tasks end where they are, and their events are gone.
LEMMA EndQueuedStep ==
    ASSUME SessionInv, NEW S \in SUBSET Queued,
           pending' \in Seq([subscription : Subscriptions, task : Tasks]),
           Queued' = Queued \ S, PostedOnce(pending)',
           UNCHANGED <<active, current>>, UNCHANGED <<uses, programs, latest, entry>>,
           UNCHANGED <<invocation, source>>,
           status' \in [Tasks -> Statuses], result' \in [Tasks -> Results \cup {None}],
           \A t \in Tasks \ S : status'[t] = status[t] /\ result'[t] = result[t],
           \A t \in S : status'[t] = "Finished" /\ result'[t] # None
    PROVE  SessionInv'
<1>1. Live' = Live /\ Range(active)' = Range(active) /\ Distinct(active)'
  BY CallsKept, Held
<1>2. SessionTyped'
  BY DEF SessionInv, SessionTyped
<1>3. \A u \in Tasks : status'[u] \in {"Runnable", "Waiting"} <=> u \in Queued' \/ u \in Live'
  BY <1>1, Held
<1>4. \A u \in Tasks : result'[u] # None <=> status'[u] = "Finished"
  BY Held
<1>5. EveryTaskHeld'
  BY <1>1, <1>3, <1>4, Held, HeldNext
<1>6. ProgramsRetained'
  BY <1>1, RetainedKept
<1> QED
  BY <1>2, <1>5, <1>6 DEF SessionInv

\* cancel_queued() for some queued tasks.
LEMMA CancelQueuedStep ==
    ASSUME SessionInv, NEW S \in SUBSET Queued, CancelQueued(S),
           pending' \in Seq([subscription : Subscriptions, task : Tasks]),
           Queued' = Queued \ S, PostedOnce(pending)',
           UNCHANGED <<call, active, current, loaded, uses>>
    PROVE  SessionInv'
<1>1. UNCHANGED <<active, current>> /\ UNCHANGED <<uses, programs, latest, entry>>
      /\ UNCHANGED <<invocation, source>>
  BY DEF call, loaded
<1>2. /\ status' = [t \in Tasks |-> IF t \in S THEN "Finished" ELSE status[t]]
      /\ result' = [t \in Tasks |-> IF t \in S THEN "Cancelled" ELSE result[t]]
  BY DEF CancelQueued
<1>3. S \subseteq Tasks /\ None # "Cancelled"
  BY Held, NoneAssumption DEF Results
<1>4. status' \in [Tasks -> Statuses] /\ result' \in [Tasks -> Results \cup {None}]
  BY <1>2, Held DEF Statuses, Results
<1>5. /\ \A t \in Tasks \ S : status'[t] = status[t] /\ result'[t] = result[t]
      /\ \A t \in S : status'[t] = "Finished" /\ result'[t] # None
  BY <1>2, <1>3
<1> QED
  BY <1>1, <1>4, <1>5, EndQueuedStep

LEMMA RevokeStep ==
    ASSUME SessionInv, NEW s, Revoke(s), UNCHANGED <<call, active, current, loaded, uses>>
    PROVE  SessionInv'
<1> DEFINE S == {e.task : e \in {d \in Range(pending) : d.subscription = s}}
<1>1. S \in SUBSET Queued
  BY DEF Queued
<1>2. CancelQueued(S)
  BY DEF Revoke
<1>3. /\ pending' \in Seq([subscription : Subscriptions, task : Tasks])
      /\ Queued' = Queued \ S /\ PostedOnce(pending)'
  BY QueuedErased DEF Revoke
<1> HIDE DEF S
<1> QED
  BY <1>1, <1>2, <1>3, CancelQueuedStep

LEMMA CloseMailboxStep ==
    ASSUME SessionInv, CloseMailbox
    PROVE  SessionInv'
<1>1. pending' = <<>> /\ CancelQueued(Queued) /\ UNCHANGED <<call, active, current, loaded, uses>>
  BY DEF CloseMailbox
<1>2. pending' \in Seq([subscription : Subscriptions, task : Tasks]) /\ PostedOnce(pending)'
  BY <1>1 DEF PostedOnce
<1>3. Range(pending)' = {}
  BY <1>1 DEF Range
<1>4. Queued' = Queued \ Queued
  BY <1>3 DEF Queued
<1> QED
  BY <1>1, <1>2, <1>4, CancelQueuedStep

LEMMA DispatchCancelledStep ==
    ASSUME SessionInv, DispatchCancelled
    PROVE  SessionInv'
<1>1. /\ pending # <<>> /\ pending' = Tail(pending) /\ CancelQueued({Head(pending).task})
      /\ UNCHANGED <<call, active, current, loaded, uses>>
  BY DEF DispatchCancelled, EventTaken, EventTurn
<1>2. /\ pending' \in Seq([subscription : Subscriptions, task : Tasks])
      /\ {Head(pending).task} \in SUBSET Queued
      /\ Queued' = Queued \ {Head(pending).task} /\ PostedOnce(pending)'
  BY <1>1, QueuedTail
<1> QED
  BY <1>1, <1>2, CancelQueuedStep

LEMMA DispatchRefusedStep ==
    ASSUME SessionInv, DispatchRefused
    PROVE  SessionInv'
<1> DEFINE t == Head(pending).task
<1>1. /\ pending # <<>> /\ pending' = Tail(pending)
      /\ status' = [status EXCEPT ![t] = "Finished"] /\ result' = [result EXCEPT ![t] = "Error"]
      /\ UNCHANGED <<call, active, current, loaded, uses>>
  BY DEF DispatchRefused, EventTaken, EventTurn
<1>2. UNCHANGED <<active, current>> /\ UNCHANGED <<uses, programs, latest, entry>>
      /\ UNCHANGED <<invocation, source>>
  BY <1>1 DEF call, loaded
<1>3. /\ pending' \in Seq([subscription : Subscriptions, task : Tasks])
      /\ t \in Tasks /\ {t} \in SUBSET Queued /\ Queued' = Queued \ {t} /\ PostedOnce(pending)'
  BY <1>1, QueuedTail
<1> HIDE DEF t
<1>4. "Error" \in Results /\ "Error" # None
  BY NoneAssumption DEF Results
<1>5. status' \in [Tasks -> Statuses] /\ result' \in [Tasks -> Results \cup {None}]
  BY <1>1, <1>4, Held DEF Statuses
<1>6. /\ \A u \in Tasks \ {t} : status'[u] = status[u] /\ result'[u] = result[u]
      /\ \A u \in {t} : status'[u] = "Finished" /\ result'[u] # None
  BY <1>1, <1>3, <1>4, Held
<1> QED
  BY <1>2, <1>3, <1>5, <1>6, EndQueuedStep

\* A call is appended to the queue, or its head is taken.
LEMMA ActiveAppend ==
    ASSUME SessionInv, NEW t \in Tasks, t \notin Range(active), active' = Append(active, t)
    PROVE  active' \in Seq(Tasks) /\ Range(active)' = Range(active) \cup {t} /\ Distinct(active)'
<1>1. active \in Seq(Tasks) /\ Distinct(active)
  BY Held DEF SessionInv, SessionTyped
<1>2. /\ Append(active, t) \in Seq(Tasks) /\ Range(Append(active, t)) = Range(active) \cup {t}
      /\ Distinct(Append(active, t))
  BY <1>1, AppendRange
<1>3. Range(active)' = Range(active) \cup {t}
  BY <1>2
<1>4. Distinct(active)'
  BY <1>2 DEF Distinct
<1> QED
  BY <1>2, <1>3, <1>4

LEMMA ActiveTail ==
    ASSUME SessionInv, active # <<>>, active' = Tail(active)
    PROVE  /\ active' \in Seq(Tasks) /\ Head(active) \in Tasks /\ Head(active) \in Range(active)
           /\ Range(active)' = Range(active) \ {Head(active)} /\ Distinct(active)'
<1>1. active \in Seq(Tasks) /\ Distinct(active)
  BY Held DEF SessionInv, SessionTyped
<1>2. /\ Tail(active) \in Seq(Tasks) /\ Head(active) \in Tasks
      /\ Range(active) = Range(Tail(active)) \cup {Head(active)}
      /\ Distinct(Tail(active)) /\ Head(active) \notin Range(Tail(active))
  BY <1>1, TailRange
<1>3. Range(active)' = Range(Tail(active))
  OBVIOUS
<1>4. Distinct(active)'
  BY <1>2 DEF Distinct
<1> QED
  BY <1>2, <1>3, <1>4

\* HostSessionState::admit, of a new task or of one that leaves the mailbox.
LEMMA AdmitStep ==
    ASSUME SessionInv, NEW t \in Tasks, NEW p \in Programs \cup {None}, Admit(t, p), t \notin Live,
           pending' \in Seq([subscription : Subscriptions, task : Tasks]), PostedOnce(pending)',
           Queued' = Queued \ {t},
           status' \in [Tasks -> Statuses], status'[t] \in {"Runnable", "Waiting"},
           \A u \in Tasks \ {t} : status'[u] = status[u],
           status[t] # "Finished", UNCHANGED <<result, current>>,
           UNCHANGED <<programs, latest, entry>>
    PROVE  SessionInv'
<1>1. active' = Append(active, t) /\ invocation' = invocation \cup {t}
  BY DEF Admit
<1>2. t \notin Range(active) /\ t # current
  BY DEF Live, Advancing
<1>3. active' \in Seq(Tasks) /\ Range(active)' = Range(active) \cup {t} /\ Distinct(active)'
  BY <1>1, <1>2, ActiveAppend
<1>4. Advancing' = Advancing
  BY DEF Advancing
<1>5. Live' = Live \cup {t}
  BY <1>3, <1>4 DEF Live
<1>6. /\ ProgramsRetained' /\ source' \in [Tasks -> Programs \cup {None}]
      /\ uses' \in [Programs -> Nat]
  BY <1>5, RetainedAdmit
<1>7. SessionTyped'
  BY <1>3, <1>6 DEF SessionInv, SessionTyped
<1>8. current' \notin Range(active)' /\ invocation' = Live'
  BY <1>1, <1>2, <1>3, <1>5, Held
<1>9. \A u \in Tasks : status'[u] \in {"Runnable", "Waiting"} <=> u \in Queued' \/ u \in Live'
  BY <1>5, Held
<1>10. \A u \in Tasks : result'[u] # None <=> status'[u] = "Finished"
  BY Held
<1>11. /\ Queued' \subseteq Tasks /\ Live' \subseteq Tasks
       /\ \A u \in Tasks : ~(u \in Queued' /\ u \in Live')
  BY <1>5, Held
<1>12. EveryTaskHeld'
  BY <1>3, <1>8, <1>9, <1>10, <1>11, HeldNext
<1> QED
  BY <1>6, <1>7, <1>12 DEF SessionInv

LEMMA SubmitStep ==
    ASSUME SessionInv, NEW t \in Tasks, NEW p \in Programs \cup {None}, Submit(t, p)
    PROVE  SessionInv'
<1>1. /\ status[t] = "Unused" /\ status' = [status EXCEPT ![t] = "Runnable"] /\ Admit(t, p)
      /\ UNCHANGED pending /\ UNCHANGED <<result, current>> /\ UNCHANGED <<programs, latest, entry>>
  BY DEF Submit, mailbox, loaded
<1>2. t \notin Queued /\ t \notin Live
  BY <1>1, Held
<1>3. Queued' = Queued \ {t} /\ PostedOnce(pending)'
  BY <1>1, <1>2, MailboxKept, Held
<1>4. pending' \in Seq([subscription : Subscriptions, task : Tasks])
  BY <1>1 DEF SessionInv, SessionTyped
<1>5. /\ status' \in [Tasks -> Statuses] /\ status'[t] \in {"Runnable", "Waiting"}
      /\ \A u \in Tasks \ {t} : status'[u] = status[u]
  BY <1>1, Held DEF Statuses
<1> QED
  BY <1>1, <1>2, <1>3, <1>4, <1>5, AdmitStep

LEMMA DispatchAdmittedStep ==
    ASSUME SessionInv, NEW p \in Programs \cup {None}, DispatchAdmitted(p)
    PROVE  SessionInv'
<1> DEFINE t == Head(pending).task
<1>1. /\ pending # <<>> /\ pending' = Tail(pending) /\ Admit(t, p)
      /\ UNCHANGED status /\ UNCHANGED <<result, current>> /\ UNCHANGED <<programs, latest, entry>>
  BY DEF DispatchAdmitted, EventTaken, EventTurn, task, loaded
<1>2. /\ pending' \in Seq([subscription : Subscriptions, task : Tasks])
      /\ t \in Tasks /\ t \in Queued /\ Queued' = Queued \ {t} /\ PostedOnce(pending)'
  BY <1>1, QueuedTail
<1> HIDE DEF t
<1>3. t \notin Live /\ status[t] \in {"Runnable", "Waiting"} /\ status \in [Tasks -> Statuses]
  BY <1>2, Held
<1>4. status' \in [Tasks -> Statuses] /\ status'[t] \in {"Runnable", "Waiting"}
      /\ (\A u \in Tasks \ {t} : status'[u] = status[u]) /\ status[t] # "Finished"
  BY <1>1, <1>3
<1> QED
  BY <1>1, <1>2, <1>3, <1>4, AdmitStep

\* A call ends: it leaves the queue, or was being advanced.
LEMMA FinishStep ==
    ASSUME SessionInv, NEW t \in Live, NEW outcome \in Results, Finish(t, outcome),
           active' \in Seq(Tasks), Distinct(active)', Range(active)' \subseteq Tasks,
           current' = None, Range(active)' = Live \ {t},
           programs' = Collect(programs, {latest, entry}, uses'),
           UNCHANGED pending, UNCHANGED <<latest, entry>>
    PROVE  SessionInv'
<1>1. /\ status' = [status EXCEPT ![t] = "Finished"]
      /\ result' = [result EXCEPT ![t] = IF t \in stopped THEN "Error" ELSE outcome]
      /\ invocation' = invocation \ {t}
      /\ source' = [source EXCEPT ![t] = None]
      /\ uses' = [q \in Programs |-> IF q = source[t] THEN uses[q] - 1 ELSE uses[q]]
  BY DEF Finish
<1>2. None \notin Tasks /\ \A r \in Results : r # None
  BY NoneAssumption
<1>3. Live' = Live \ {t}
  BY Advanced
<1>4. /\ ProgramsRetained' /\ source' \in [Tasks -> Programs \cup {None}]
      /\ uses' \in [Programs -> Nat] /\ programs' \subseteq Programs
  BY <1>1, <1>3, RetainedFinish
<1>5. t \in Tasks /\ status \in [Tasks -> Statuses] /\ result \in [Tasks -> Results \cup {None}]
  BY Held
<1>6. (IF t \in stopped THEN "Error" ELSE outcome) \in Results
  BY DEF Results
<1>7. status' \in [Tasks -> Statuses] /\ result' \in [Tasks -> Results \cup {None}]
  BY <1>1, <1>5, <1>6 DEF Statuses
<1>8. SessionTyped'
  BY <1>4, <1>7 DEF SessionInv, SessionTyped
<1>9. Queued' = Queued /\ PostedOnce(pending)'
  BY MailboxKept, Held
<1>10. /\ status'[t] = "Finished" /\ result'[t] # None
       /\ \A u \in Tasks \ {t} : status'[u] = status[u] /\ result'[u] = result[u]
  BY <1>1, <1>2, <1>5, <1>6
<1>11. \A u \in Tasks : status'[u] \in {"Runnable", "Waiting"} <=> u \in Queued' \/ u \in Live'
  BY <1>3, <1>9, <1>10, Held
<1>12. \A u \in Tasks : result'[u] # None <=> status'[u] = "Finished"
  BY <1>10, Held
<1>13. current' \notin Range(active)' /\ invocation' = Live'
  BY <1>1, <1>2, <1>3, Held
<1>14. /\ Queued' \subseteq Tasks /\ Live' \subseteq Tasks
       /\ \A u \in Tasks : ~(u \in Queued' /\ u \in Live')
  BY <1>3, <1>9, Held
<1>15. EveryTaskHeld'
  BY <1>9, <1>11, <1>12, <1>13, <1>14, HeldNext
<1> QED
  BY <1>4, <1>8, <1>15 DEF SessionInv

LEMMA AdvanceCancelledStep ==
    ASSUME SessionInv, AdvanceCancelled
    PROVE  SessionInv'
<1> DEFINE t == Head(active)
<1>1. /\ active # <<>> /\ current = None /\ Finish(t, "Cancelled") /\ active' = Tail(active)
      /\ programs' = Collect(programs, {latest, entry}, uses') /\ current' = None
      /\ UNCHANGED pending /\ UNCHANGED <<latest, entry>>
  BY DEF AdvanceCancelled, CallTurn, Pumping, mailbox
<1>2. /\ active' \in Seq(Tasks) /\ t \in Range(active)
      /\ Range(active)' = Range(active) \ {t} /\ Distinct(active)'
  BY <1>1, ActiveTail
<1> HIDE DEF t
<1>3. Live = Range(active)
  BY <1>1, Advanced
<1>4. t \in Live /\ Range(active)' = Live \ {t} /\ Range(active)' \subseteq Tasks
  BY <1>2, <1>3, Held
<1>5. "Cancelled" \in Results
  BY DEF Results
<1> QED
  BY <1>1, <1>2, <1>4, <1>5, FinishStep

LEMMA EndFinishedStep ==
    ASSUME SessionInv, NEW outcome \in Results, EndFinished(outcome)
    PROVE  SessionInv'
<1>1. /\ current # None /\ Finish(current, outcome) /\ current' = None
      /\ programs' = Collect(programs, {latest, entry}, uses') /\ UNCHANGED active
      /\ UNCHANGED pending /\ UNCHANGED <<latest, entry>>
  BY DEF EndFinished, mailbox
<1>2. current \in Tasks /\ active \in Seq(Tasks)
  BY <1>1 DEF SessionInv, SessionTyped
<1>3. Live = Range(active) \cup {current} /\ current \notin Range(active)
  BY <1>2, Advanced, Held
<1>4. Range(active)' = Range(active) /\ (Distinct(active)')
  BY <1>1, Held DEF Distinct
<1>5. current \in Live /\ Range(active)' = Live \ {current} /\ Range(active)' \subseteq Tasks
  BY <1>3, <1>4, Held
<1> QED
  BY <1>1, <1>2, <1>4, <1>5, FinishStep

\* A call is taken out to be advanced, or comes back to the tail.
LEMMA TurnStep ==
    ASSUME SessionInv, active' \in Seq(Tasks), Distinct(active)', current' \in Tasks \cup {None},
           Live' = Live, current' \notin Range(active)',
           status' \in [Tasks -> Statuses],
           \A t \in Tasks : status'[t] \in {"Runnable", "Waiting"} <=> status[t] \in {"Runnable", "Waiting"},
           \A t \in Tasks : status'[t] = "Finished" <=> status[t] = "Finished",
           UNCHANGED pending, UNCHANGED result, UNCHANGED <<invocation, source>>,
           UNCHANGED <<uses, programs, latest, entry>>
    PROVE  SessionInv'
<1>1. SessionTyped'
  BY DEF SessionInv, SessionTyped
<1>2. Queued' = Queued /\ PostedOnce(pending)'
  BY MailboxKept, Held
<1>3. /\ \A t \in Tasks : status'[t] \in {"Runnable", "Waiting"} <=> t \in Queued' \/ t \in Live'
      /\ \A t \in Tasks : result'[t] # None <=> status'[t] = "Finished"
  BY <1>2, Held
<1>4. EveryTaskHeld'
  BY <1>2, <1>3, Held, HeldNext
<1>5. ProgramsRetained'
  BY RetainedKept
<1> QED
  BY <1>1, <1>4, <1>5 DEF SessionInv

\* CancelCalls, for live calls.
LEMMA CancelledStatus ==
    ASSUME SessionInv, NEW S \in SUBSET Live, CancelCalls(S)
    PROVE  /\ status' \in [Tasks -> Statuses]
           /\ \A t \in Tasks : status'[t] \in {"Runnable", "Waiting"} <=> status[t] \in {"Runnable", "Waiting"}
           /\ \A t \in Tasks : status'[t] = "Finished" <=> status[t] = "Finished"
<1>1. status' = [t \in Tasks |-> IF t \in S \ requested THEN "Runnable" ELSE status[t]]
  BY DEF CancelCalls
<1>2. \A t \in S : t \in Tasks => status[t] \in {"Runnable", "Waiting"}
  BY Held
<1>3. \A t \in Tasks : status'[t] \in Statuses
  BY <1>1, Held DEF Statuses
<1>4. status' \in [Tasks -> Statuses]
  BY <1>1, <1>3
<1> QED
  BY <1>1, <1>2, <1>4

LEMMA BeginAdvanceStep ==
    ASSUME SessionInv, BeginAdvance
    PROVE  SessionInv'
<1> DEFINE t == Head(active)
<1>1. /\ active # <<>> /\ current = None /\ current' = t /\ active' = Tail(active)
      /\ (IF Stopping(t) THEN CancelCalls({t}) ELSE UNCHANGED <<requested, status>>)
      /\ UNCHANGED pending /\ UNCHANGED result /\ UNCHANGED <<invocation, source>>
      /\ UNCHANGED <<uses, programs, latest, entry>>
  BY DEF BeginAdvance, CallTurn, Pumping, mailbox, loaded
<1>2. /\ active' \in Seq(Tasks) /\ t \in Tasks /\ t \in Range(active)
      /\ Range(active)' = Range(active) \ {t} /\ Distinct(active)'
  BY <1>1, ActiveTail
<1> HIDE DEF t
<1>3. Live = Range(active) /\ Live' = Range(active)' \cup {t}
  BY <1>1, <1>2, Advanced
<1>4. Live' = Live /\ current' \notin Range(active)' /\ {t} \in SUBSET Live
  BY <1>1, <1>2, <1>3
<1>5. /\ status' \in [Tasks -> Statuses]
      /\ \A u \in Tasks : status'[u] \in {"Runnable", "Waiting"} <=> status[u] \in {"Runnable", "Waiting"}
      /\ \A u \in Tasks : status'[u] = "Finished" <=> status[u] = "Finished"
  <2>1. CASE Stopping(t)
    BY <1>1, <1>4, <2>1, CancelledStatus
  <2>2. CASE ~Stopping(t)
    BY <1>1, <2>2, Held
  <2> QED
    BY <2>1, <2>2
<1>6. current' \in Tasks \cup {None}
  BY <1>1, <1>2
<1> QED
  BY <1>1, <1>2, <1>4, <1>5, <1>6, TurnStep

LEMMA EndUnfinishedStep ==
    ASSUME SessionInv, NEW progress \in {"Runnable", "Waiting"}, EndUnfinished(progress)
    PROVE  SessionInv'
<1>1. /\ current # None /\ current' = None /\ active' = Append(active, current)
      /\ UNCHANGED pending /\ UNCHANGED result /\ UNCHANGED <<invocation, source>>
      /\ UNCHANGED <<uses, programs, latest, entry>>
      /\ CancelCalls({current}) \/ status' = [status EXCEPT ![current] = progress]
  BY DEF EndUnfinished, Rotate, mailbox, call, loaded
<1>2. current \in Tasks
  BY <1>1 DEF SessionInv, SessionTyped
<1>3. Live = Range(active) \cup {current} /\ current \notin Range(active)
  BY <1>2, Advanced, Held
<1>4. /\ active' \in Seq(Tasks) /\ Range(active)' = Range(active) \cup {current}
      /\ Distinct(active)'
  BY <1>1, <1>2, <1>3, ActiveAppend
<1>5. Live' = Live
  BY <1>1, <1>3, <1>4, Advanced
<1>6. current' \notin Range(active)' /\ current' \in Tasks \cup {None}
  BY <1>1, <1>3, <1>5, Held, Advanced, NoneAssumption
<1>7. /\ status' \in [Tasks -> Statuses]
      /\ \A u \in Tasks : status'[u] \in {"Runnable", "Waiting"} <=> status[u] \in {"Runnable", "Waiting"}
      /\ \A u \in Tasks : status'[u] = "Finished" <=> status[u] = "Finished"
  <2>1. CASE CancelCalls({current})
    <3>1. {current} \in SUBSET Live
      BY <1>3
    <3> QED
      BY <2>1, <3>1, CancelledStatus
  <2>2. CASE status' = [status EXCEPT ![current] = progress]
    <3>1. status[current] \in {"Runnable", "Waiting"}
      BY <1>2, <1>3, Held
    <3>2. progress \in Statuses
      BY DEF Statuses
    <3> QED
      BY <1>2, <2>2, <3>1, <3>2, Held
  <2> QED
    BY <1>1, <2>1, <2>2
<1> QED
  BY <1>1, <1>4, <1>5, <1>6, <1>7, TurnStep

\* The program of a call is counted.
LEMMA ProgramUsed ==
    ASSUME SessionInv, NEW t \in Live, source[t] # None
    PROVE  source[t] \in programs /\ uses[source[t]] # 0
<1>1. /\ source[t] \in programs /\ source[t] \in Programs
      /\ uses[source[t]] = Cardinality(CallsOf(source[t]))
  BY Retained DEF SessionInv, SessionTyped
<1>2. t \in CallsOf(source[t])
  BY DEF CallsOf
<1>3. IsFiniteSet(CallsOf(source[t]))
  BY LiveFinite
<1>4. Cardinality(CallsOf(source[t])) # 0
  BY <1>2, <1>3, FS_EmptySet
<1> QED
  BY <1>1, <1>4

\* The other programs are freed, and those of the calls stay.
LEMMA ReloadStep ==
    ASSUME SessionInv, NEW p \in Programs \ programs, Reload(p)
    PROVE  SessionInv'
<1>1. /\ latest' = p /\ entry' \in {entry, p}
      /\ programs' = Collect(programs \cup {p}, {latest', entry'}, uses)
      /\ UNCHANGED <<pending, status, result, invocation, source, active, current, uses>>
  BY DEF Reload, mailbox, task, call
<1>2. UNCHANGED <<active, current>> /\ UNCHANGED pending /\ UNCHANGED <<status, result>>
  BY <1>1
<1>3. /\ programs \subseteq Programs /\ entry \in programs \cup {None}
      /\ \A t \in Live : source[t] \in programs \cup {None}
      /\ \A q \in Programs : uses[q] = Cardinality(CallsOf(q))
  BY Retained DEF SessionInv, SessionTyped
<1>4. programs' \subseteq Programs /\ p \in programs'
      /\ \A q \in programs : q = entry' \/ uses[q] # 0 => q \in programs'
  BY <1>1, <1>3 DEF Collect
<1>5. latest' \in programs' \cup {None} /\ entry' \in programs' \cup {None}
  BY <1>1, <1>3, <1>4
<1>6. SessionTyped'
  <2>1. latest' \in Programs \cup {None} /\ entry' \in Programs \cup {None}
    BY <1>4, <1>5
  <2> QED
    BY <1>1, <1>4, <2>1 DEF SessionInv, SessionTyped
<1>7. Live' = Live /\ Range(active)' = Range(active) /\ Distinct(active)'
  BY <1>2, CallsKept, Held
<1>8. Queued' = Queued /\ PostedOnce(pending)'
  BY <1>2, MailboxKept, Held
<1>9. EveryTaskHeld'
  BY <1>1, <1>7, <1>8, Held, HeldNext
<1>10. \A t \in Live' : source'[t] \in programs' \cup {None}
  BY <1>1, <1>4, <1>7, ProgramUsed
<1>11. \A q : CallsOf(q)' = CallsOf(q)
  BY <1>1, <1>7 DEF CallsOf
<1>12. ProgramsRetained'
  BY <1>1, <1>3, <1>5, <1>10, <1>11, RetainedNext
<1> QED
  BY <1>6, <1>9, <1>12 DEF SessionInv

LEMMA DrainedStep ==
    ASSUME SessionInv, Drained
    PROVE  SessionInv'
<1>1. /\ latest' = None /\ entry' = None /\ programs' = {} /\ active = <<>> /\ current = None
      /\ UNCHANGED <<pending, status, result, invocation, source, active, current, uses>>
  BY DEF Drained, PumpEnds, Pumping, mailbox, task, call
<1>2. UNCHANGED <<active, current>> /\ UNCHANGED pending /\ UNCHANGED <<status, result>>
  BY <1>1
<1>3. SessionTyped'
  BY <1>1 DEF SessionInv, SessionTyped
<1>4. Live' = Live /\ Range(active)' = Range(active) /\ Distinct(active)'
  BY <1>2, CallsKept, Held
<1>5. Queued' = Queued /\ PostedOnce(pending)'
  BY <1>2, MailboxKept, Held
<1>6. EveryTaskHeld'
  BY <1>1, <1>4, <1>5, Held, HeldNext
<1>7. Live = {}
  BY <1>1, Advanced DEF Range
<1>8. \A q : CallsOf(q)' = CallsOf(q)
  BY <1>1, <1>4 DEF CallsOf
<1>9. \A q \in Programs : uses'[q] = Cardinality(CallsOf(q)')
  BY <1>1, <1>8, Retained DEF SessionInv
<1>10. ProgramsRetained'
  BY <1>1, <1>4, <1>7, <1>9, RetainedNext
<1> QED
  BY <1>3, <1>6, <1>10 DEF SessionInv

-----------------------------------------------------------------------------
(* The session starts and goes on in its invariant.                         *)

LEMMA SessionInit ==
    Init => SessionInv
<1> SUFFICES ASSUME Init PROVE SessionInv
  OBVIOUS
<1>1. /\ pending = <<>> /\ status = [t \in Tasks |-> "Unused"] /\ result = [t \in Tasks |-> None]
      /\ invocation = {} /\ source = [t \in Tasks |-> None] /\ active = <<>> /\ current = None
      /\ latest \in Programs \cup {None} /\ entry \in {None, latest}
      /\ programs = {latest} \ {None} /\ uses = [p \in Programs |-> 0]
  BY DEF Init
<1>2. SessionTyped
  <2>1. programs \subseteq Programs /\ entry \in Programs \cup {None}
    BY <1>1
  <2>2. active \in Seq(Tasks) /\ pending \in Seq([subscription : Subscriptions, task : Tasks])
    BY <1>1
  <2>3. status \in [Tasks -> Statuses] /\ result \in [Tasks -> Results \cup {None}]
        /\ source \in [Tasks -> Programs \cup {None}] /\ uses \in [Programs -> Nat]
    BY <1>1 DEF Statuses
  <2> QED
    BY <1>1, <2>1, <2>2, <2>3 DEF SessionTyped
<1>3. Range(active) = {} /\ Range(pending) = {}
  BY <1>1 DEF Range
<1>4. Queued = {} /\ Live = {}
  BY <1>1, <1>3, Advanced DEF Queued
<1>5. EveryTaskHeld
  <2>1. /\ \A t \in Tasks : status[t] \notin {"Runnable", "Waiting"}
        /\ \A t \in Tasks : result[t] = None /\ status[t] # "Finished"
    BY <1>1
  <2>2. \A i, j \in DOMAIN pending : pending[i].task = pending[j].task => i = j
    BY <1>1
  <2>3. Distinct(active) /\ current \notin Range(active)
    BY <1>1, <1>3 DEF Distinct
  <2>4. {t \in Tasks : status[t] \in {"Runnable", "Waiting"}} = {}
    BY <2>1
  <2>5. {t \in Tasks : result[t] # None} = {t \in Tasks : status[t] = "Finished"}
    BY <2>1
  <2> QED
    BY <1>1, <1>4, <2>2, <2>3, <2>4, <2>5 DEF EveryTaskHeld
<1>6. \A p \in Programs : uses[p] = Cardinality(CallsOf(p))
  <2>1. \A p : CallsOf(p) = {}
    BY <1>4 DEF CallsOf
  <2> QED
    BY <1>1, <2>1, FS_EmptySet
<1>7. latest \in programs \cup {None} /\ entry \in programs \cup {None}
  BY <1>1
<1>8. ProgramsRetained
  BY <1>4, <1>6, <1>7, Retained
<1> QED
  BY <1>2, <1>5, <1>8 DEF SessionInv

LEMMA SessionStep ==
    SessionInv /\ [Next]_vars => SessionInv'
<1> SUFFICES ASSUME SessionInv, [Next]_vars PROVE SessionInv'
  OBVIOUS
<1>1. CASE UNCHANGED vars
  BY <1>1, QuietVars DEF vars, mailbox
<1>2. ASSUME NEW s \in Subscriptions, Subscribe(s) PROVE SessionInv'
  BY <1>2, QuietVars DEF Subscribe, mailbox
<1>3. ASSUME NEW s \in Subscriptions, Unsubscribe(s) PROVE SessionInv'
  BY <1>3, RevokeStep DEF Unsubscribe
<1>4. ASSUME NEW s \in Subscriptions, NEW t \in Tasks, Post(s, t) PROVE SessionInv'
  BY <1>4, PostStep
<1>5. ASSUME NEW t \in Tasks, CancelTask(t) PROVE SessionInv'
  BY <1>5, CancelTaskStep
<1>6. ASSUME NEW t \in Tasks, Drop(t) PROVE SessionInv'
  BY <1>6, DropStep
<1>7. ASSUME NEW t \in Tasks, Stop(t) PROVE SessionInv'
  <2>1. UNCHANGED <<active, current>> /\ UNCHANGED pending
        /\ UNCHANGED <<invocation, source>> /\ UNCHANGED <<uses, programs, latest, entry>>
        /\ UNCHANGED <<status, result>>
    BY <1>7 DEF Stop, mailbox, task, loaded
  <2>2. SessionTyped'
    BY <2>1 DEF SessionInv, SessionTyped
  <2> QED
    BY <2>1, <2>2, Held, QuietStep
<1>8. ASSUME NEW t \in Tasks, NEW p \in Programs \cup {None}, Submit(t, p) PROVE SessionInv'
  BY <1>8, SubmitStep
<1>9. ASSUME NEW p \in Programs, Reload(p) PROVE SessionInv'
  <2>1. p \in Programs \ programs
    BY <1>9 DEF Reload
  <2> QED
    BY <1>9, <2>1, ReloadStep
<1>10. CASE Poll
  BY <1>10, QuietVars DEF Poll, mailbox
<1>11. CASE Dispatch
  BY <1>11, DispatchCancelledStep, DispatchRefusedStep, DispatchAdmittedStep DEF Dispatch
<1>12. CASE AdvanceCancelled
  BY <1>12, AdvanceCancelledStep
<1>13. CASE BeginAdvance
  BY <1>13, BeginAdvanceStep
<1>14. CASE End
  BY <1>14, EndFinishedStep, EndUnfinishedStep DEF End
<1>15. CASE EndPoll
  BY <1>15, QuietVars DEF EndPoll, mailbox
<1>16. CASE Close
  <2>1. CASE CloseMailbox
    BY <2>1, CloseMailboxStep
  <2>2. ASSUME NEW s \in Subscriptions, CloseSubscription(s) PROVE SessionInv'
    BY <2>2, RevokeStep DEF CloseSubscription
  <2>3. CASE CloseCalls
    BY <2>3, CloseCallsStep
  <2> QED
    BY <1>16, <2>1, <2>2, <2>3 DEF Close
<1>17. CASE DrainOn
  BY <1>17, QuietVars DEF DrainOn, mailbox
<1>18. CASE Drained
  BY <1>18, DrainedStep
<1> QED
  BY <1>1, <1>2, <1>3, <1>4, <1>5, <1>6, <1>7, <1>8, <1>9, <1>10, <1>11, <1>12, <1>13, <1>14,
     <1>15, <1>16, <1>17, <1>18 DEF Next

\* Whatever posts, cancellations, revocations, failures and closing do, a task
\* that was handed out and has no result is in the mailbox or among the calls,
\* and in one of them only; the call a cancellation reaches is alive
\* (HostTaskState::invocation).
THEOREM TasksHeld == Spec => []EveryTaskHeld
<1>1. SessionInv => EveryTaskHeld
  BY DEF SessionInv
<1> QED
  BY <1>1, SessionInit, SessionStep, PTL DEF Spec

\* Over any number of replacements a program outlives its calls and its
\* bindings, and it counts its calls exactly, so that collect_programs frees it
\* after the last of them.
THEOREM ProgramsKept == Spec => []ProgramsRetained
<1>1. SessionInv => ProgramsRetained
  BY DEF SessionInv
<1> QED
  BY <1>1, SessionInit, SessionStep, PTL DEF Spec

-----------------------------------------------------------------------------
(* The requests of a call: their inductive invariant.                       *)

\* What an installed hook, a launch and the phase of a request say of each other.
Installed(r) ==
    /\ r \notin Attached => r \notin reachable /\ r \notin hook /\ response[r] = Nothing
    /\ r \in hook => r \in hooked
    /\ r \in Hooked \cap Attached => r = launching \/ r \in hook
    /\ r = launching => r \notin hooked /\ phase[r] # "New"
    /\ phase[r] = "New" => r \notin hooked

\* How often the hook of a request was called.
Told(r) ==
    /\ called[r] \in {0, 1}
    /\ called[r] = 1 => phase[r] = "Cancelled"
    /\ calling = r => phase[r] = "Cancelled" /\ called[r] = 0
    /\ r \in hooked /\ phase[r] = "Cancelled" => called[r] = 1 \/ calling = r

\* Which answers a request has seen, by its phase.
Answered(r) ==
    /\ phase[r] \in {"New", "Pending"} => accepted[r] = <<>> /\ delivered[r] = <<>>
    /\ phase[r] = "Ready" => accepted[r] = <<response[r]>> /\ delivered[r] = <<>>
    /\ phase[r] = "Consumed" => Len(accepted[r]) = 1 /\ delivered[r] = accepted[r]
    /\ phase[r] = "Cancelled" => Len(accepted[r]) <= 1 /\ delivered[r] = <<>>

\* The requests cancel(context) will reach, or is reaching.
Scoped ==
    /\ Attached \subseteq registered \cup detaching
    /\ cancelled => registered = {}

IInv ==
    /\ RequestsTypeOK
    /\ \A r \in Requests : Installed(r)
    /\ \A r \in Requests : Told(r)
    /\ \A r \in Requests : Answered(r)
    /\ Scoped

-----------------------------------------------------------------------------
(* One lemma per action: it preserves the parts of IInv.                    *)

LEMMA Initial == RequestsInit => IInv
<1> SUFFICES ASSUME RequestsInit PROVE IInv
    OBVIOUS
<1>0. Attached = {}
  BY DEF RequestsInit, Attached
<1>1. RequestsTypeOK
  <2>1. /\ phase \in [Requests -> {"New", "Pending", "Ready", "Consumed", "Cancelled"}]
        /\ response \in [Requests -> Answers \cup {Nothing}]
        /\ called \in [Requests -> Nat]
    BY DEF RequestsInit
  <2>2. <<>> \in Seq(Answers)
    OBVIOUS
  <2>3. accepted \in [Requests -> Seq(Answers)] /\ delivered \in [Requests -> Seq(Answers)]
    BY <2>2 DEF RequestsInit
  <2> QED
    BY <2>1, <2>3 DEF RequestsInit, RequestsTypeOK
<1>2. \A r \in Requests : r # launching /\ r # calling
  <2>1. launching = Nothing /\ calling = Nothing
    BY DEF RequestsInit
  <2>2. \A r \in Requests : r # Nothing
    BY NothingAssumption
  <2> QED
    BY <2>1, <2>2
<1>3. \A r \in Requests : Installed(r)
  BY <1>0, <1>2 DEF RequestsInit, Installed
<1>t. \A r \in Requests : Told(r)
  <2> SUFFICES ASSUME NEW r \in Requests PROVE Told(r)
    OBVIOUS
  <2>1. phase[r] = "New" /\ called[r] = 0 /\ r # calling
    BY <1>2 DEF RequestsInit
  <2> QED
    BY <2>1 DEF Told
<1>4. \A r \in Requests : Answered(r)
  BY DEF RequestsInit, Answered
<1> QED
  BY <1>0, <1>1, <1>3, <1>t, <1>4 DEF IInv, Scoped, RequestsInit

LEMMA Attaching ==
    ASSUME IInv, NEW r \in Requests, Attach(r)
    PROVE  IInv'
<1>0. RequestsTypeOK /\ Scoped /\ \A q \in Requests : Installed(q) /\ Told(q) /\ Answered(q)
  BY DEF IInv
<1>1. /\ Attached' = Attached \cup {r}
      /\ \A q \in Requests : q # r => phase'[q] = phase[q]
      /\ phase[r] = "New" /\ phase'[r] = "Pending"
      /\ launching = Nothing /\ launching' = r /\ detaching = {} /\ ~cancelled
  BY <1>0 DEF Attach, Attached, Executing, Free, RequestsTypeOK
<1>2. RequestsTypeOK'
  BY <1>0 DEF RequestsTypeOK, Attach, Attached, history
<1>3. \A q \in Requests : Installed(q)'
  BY <1>0, <1>1, NothingAssumption DEF Attach, Installed, history
<1>4. \A q \in Requests : Told(q)'
  BY <1>0, <1>1 DEF Attach, Told, Installed, history
<1>5. \A q \in Requests : Answered(q)'
  BY <1>0, <1>1 DEF Attach, Answered, history
<1>6. Scoped'
  BY <1>0, <1>1 DEF Attach, Scoped
<1> QED
  BY <1>2, <1>3, <1>4, <1>5, <1>6 DEF IInv

LEMMA Launching ==
    ASSUME IInv, Launched
    PROVE  IInv'
<1>0. RequestsTypeOK /\ Scoped /\ \A q \in Requests : Installed(q) /\ Told(q) /\ Answered(q)
  BY DEF IInv
<1>1. /\ UNCHANGED <<phase, reachable, response, context, detaching, calling, called, accepted,
                     delivered>>
      /\ launching \in Requests /\ launching' = Nothing /\ Attached' = Attached
      /\ calling = Nothing
  BY <1>0 DEF Launched, Attached, RequestsTypeOK, Free
<1>2. \/ /\ launching \in Hooked \cap Attached
         /\ hook' = hook \cup {launching} /\ hooked' = hooked \cup {launching}
      \/ launching \notin Hooked \cap Attached /\ hook' = hook /\ hooked' = hooked
  BY DEF Launched, InstallHook
<1>3. RequestsTypeOK'
  BY <1>0, <1>1, <1>2 DEF RequestsTypeOK, context
<1>4. \A q \in Requests : Installed(q)'
  BY <1>0, <1>1, <1>2, NothingAssumption DEF Installed, Attached
<1>5. \A q \in Requests : Told(q)'
  BY <1>0, <1>1, <1>2 DEF Told, Attached
<1>6. \A q \in Requests : Answered(q)'
  BY <1>0, <1>1 DEF Answered
<1>7. Scoped'
  BY <1>0, <1>1 DEF Scoped, context
<1> QED
  BY <1>3, <1>4, <1>5, <1>6, <1>7 DEF IInv

LEMMA Responding ==
    ASSUME IInv, NEW r \in Requests, NEW a \in Answers, Respond(r, a)
    PROVE  IInv'
<1>0. RequestsTypeOK /\ Scoped /\ \A q \in Requests : Installed(q) /\ Told(q) /\ Answered(q)
  BY DEF IInv
<1>1. /\ \A q \in Requests : q # r => /\ phase'[q] = phase[q] /\ response'[q] = response[q]
                                      /\ accepted'[q] = accepted[q]
      /\ phase[r] = "Pending" /\ phase'[r] = "Ready" /\ response'[r] = a
      /\ accepted'[r] = Append(accepted[r], a)
      /\ UNCHANGED <<reachable, hook, context, thread, hooked, called, delivered>>
  BY <1>0 DEF Respond, RequestsTypeOK
<1>2. Attached' = Attached
  BY <1>0, <1>1 DEF Attached
<1>3. RequestsTypeOK'
  BY <1>0 DEF RequestsTypeOK, Respond, context, thread
<1>4. \A q \in Requests : Installed(q)'
  BY <1>0, <1>1, <1>2 DEF Installed, Attached, thread
<1>5. \A q \in Requests : Told(q)'
  BY <1>0, <1>1 DEF Told, thread
<1>6. \A q \in Requests : Answered(q)'
  <2> SUFFICES ASSUME NEW q \in Requests PROVE Answered(q)'
    OBVIOUS
  <2>1. CASE q # r
    BY <1>0, <1>1, <2>1 DEF Answered
  <2>2. CASE q = r
    <3>1. accepted[r] = <<>> /\ delivered[r] = <<>>
      BY <1>0, <1>1 DEF Answered
    <3>2. accepted'[r] = <<a>>
      BY <1>1, <3>1
    <3> QED
      BY <1>1, <2>2, <3>1, <3>2 DEF Answered
  <2> QED
    BY <2>1, <2>2
<1>7. Scoped'
  BY <1>0, <1>1, <1>2 DEF Scoped, context, thread
<1> QED
  BY <1>3, <1>4, <1>5, <1>6, <1>7 DEF IInv

LEMMA Consuming ==
    ASSUME IInv, NEW r \in Requests, NEW stops \in BOOLEAN, Consume(r, stops)
    PROVE  IInv'
<1>0. RequestsTypeOK /\ Scoped /\ \A q \in Requests : Installed(q) /\ Told(q) /\ Answered(q)
  BY DEF IInv
<1>1. /\ \A q \in Requests : q # r => /\ phase'[q] = phase[q] /\ response'[q] = response[q]
                                      /\ delivered'[q] = delivered[q]
      /\ phase[r] = "Ready" /\ phase'[r] = "Consumed" /\ response'[r] = Nothing
      /\ delivered'[r] = Append(delivered[r], response[r])
      /\ reachable' = reachable \ {r} /\ hook' = hook \ {r}
      /\ stoppedError' \in BOOLEAN
      /\ UNCHANGED <<registered, cancelled, thread, hooked, called, accepted>>
      /\ launching = Nothing /\ calling = Nothing
  BY <1>0 DEF Consume, RequestsTypeOK, Executing, Free
<1>2. Attached' = Attached \ {r}
  BY <1>0, <1>1 DEF Attached
<1>a. accepted[r] = <<response[r]>> /\ delivered[r] = <<>>
  BY <1>0, <1>1 DEF Answered
<1>b. delivered'[r] = accepted[r] /\ Len(accepted[r]) = 1
  BY <1>1, <1>a
<1>3. RequestsTypeOK'
  <2>1. delivered' \in [Requests -> Seq(Answers)]
    BY <1>0, <1>1, <1>b DEF RequestsTypeOK, Consume
  <2> QED
    BY <1>0, <1>1, <2>1 DEF RequestsTypeOK, Consume, thread
<1>4. \A q \in Requests : Installed(q)'
  BY <1>0, <1>1, <1>2, NothingAssumption DEF Installed, thread
<1>5. \A q \in Requests : Told(q)'
  BY <1>0, <1>1, NothingAssumption DEF Told, thread
<1>6. \A q \in Requests : Answered(q)'
  BY <1>0, <1>1, <1>b DEF Answered
<1>7. Scoped'
  BY <1>0, <1>1, <1>2 DEF Scoped, thread
<1> QED
  BY <1>3, <1>4, <1>5, <1>6, <1>7 DEF IInv

\* The critical section of a cancellation, when the request is attached.
LEMMA Detaching ==
    ASSUME IInv, NEW r \in Attached, Detach(r), calling = Nothing, UNCHANGED <<launching, history>>,
           r = launching => r \notin hook
    PROVE  /\ Attached' = Attached \ {r}
           /\ \A q \in Requests : Installed(q)' /\ Told(q)' /\ Answered(q)'
           /\ phase' \in [Requests -> {"New", "Pending", "Ready", "Consumed", "Cancelled"}]
           /\ reachable' \subseteq Requests /\ hook' \subseteq Hooked
           /\ response' \in [Requests -> Answers \cup {Nothing}]
           /\ calling' \in Requests \cup {Nothing}
<1>0. RequestsTypeOK /\ \A q \in Requests : Installed(q) /\ Told(q) /\ Answered(q)
  BY DEF IInv
<1>r. r \in Requests
  BY DEF Attached
<1>1. /\ \A q \in Requests : q # r => phase'[q] = phase[q] /\ response'[q] = response[q]
      /\ phase[r] \in {"Pending", "Ready"} /\ phase'[r] = "Cancelled" /\ response'[r] = Nothing
      /\ reachable' = reachable \ {r} /\ hook' = hook \ {r}
      /\ calling' = IF r \in hook THEN r ELSE Nothing
  BY <1>0, <1>r DEF Detach, RequestsTypeOK, Attached
<1>2. Attached' = Attached \ {r}
  BY <1>1, <1>r DEF Attached
<1>3. \A q \in Requests : Installed(q)'
  BY <1>0, <1>1, <1>2 DEF Installed, history
<1>4. \A q \in Requests : Told(q)'
  <2> SUFFICES ASSUME NEW q \in Requests PROVE Told(q)'
    OBVIOUS
  <2>1. CASE q # r
    BY <1>0, <1>1, <2>1, NothingAssumption DEF Told, history
  <2>2. CASE q = r
    <3>1. called[r] = 0
      <4>1. called[r] \in {0, 1} /\ called[r] # 1
        BY <1>0, <1>1, <1>r DEF Told
      <4> QED
        BY <4>1
    <3>2. r \in hooked => r \in hook
      <4>1. CASE r \in Hooked
        BY <1>0, <1>r, <4>1 DEF Installed
      <4> QED
        BY <1>0, <4>1 DEF RequestsTypeOK
    <3> QED
      BY <1>1, <2>2, <3>1, <3>2 DEF Told, history
  <2> QED
    BY <2>1, <2>2
<1>5. \A q \in Requests : Answered(q)'
  <2> SUFFICES ASSUME NEW q \in Requests PROVE Answered(q)'
    OBVIOUS
  <2>1. CASE q # r
    BY <1>0, <1>1, <2>1 DEF Answered, history
  <2>2. CASE q = r
    <3>1. delivered[r] = <<>> /\ (accepted[r] = <<>> \/ accepted[r] = <<response[r]>>)
      BY <1>0, <1>1, <1>r DEF Answered
    <3>2. CASE accepted[r] = <<>>
      BY <1>1, <2>2, <3>1, <3>2 DEF Answered, history
    <3>3. CASE accepted[r] = <<response[r]>>
      <4>1. Len(accepted[r]) = 1
        BY <3>3
      <4>2. Len(accepted[r]) <= 1
        BY <4>1
      <4> QED
        BY <1>1, <2>2, <3>1, <4>2 DEF Answered, history
    <3> QED
      BY <3>1, <3>2, <3>3
  <2> QED
    BY <2>1, <2>2
<1>6. /\ phase' \in [Requests -> {"New", "Pending", "Ready", "Consumed", "Cancelled"}]
      /\ response' \in [Requests -> Answers \cup {Nothing}]
  BY <1>0 DEF Detach, RequestsTypeOK
<1>7. reachable' \subseteq Requests /\ hook' \subseteq Hooked /\ calling' \in Requests \cup {Nothing}
  BY <1>0, <1>1, <1>r DEF RequestsTypeOK
<1> QED
  BY <1>2, <1>3, <1>4, <1>5, <1>6, <1>7

\* A launching request has no hook yet.
LEMMA Unhooked ==
    ASSUME IInv, NEW r \in Requests, r = launching
    PROVE  r \notin hook
BY DEF IInv, Installed

LEMMA Withdrawing ==
    ASSUME IInv, NEW r \in Requests, CancelReceiver(r)
    PROVE  IInv'
<1>0. RequestsTypeOK /\ Scoped /\ r \in Attached /\ Detach(r) /\ calling = Nothing
  BY DEF IInv, CancelReceiver, Executing, Free
<1>1. UNCHANGED <<context, launching, detaching, history>>
  BY DEF CancelReceiver
<1>2. /\ Attached' = Attached \ {r}
      /\ \A q \in Requests : Installed(q)' /\ Told(q)' /\ Answered(q)'
      /\ phase' \in [Requests -> {"New", "Pending", "Ready", "Consumed", "Cancelled"}]
      /\ reachable' \subseteq Requests /\ hook' \subseteq Hooked
      /\ response' \in [Requests -> Answers \cup {Nothing}]
      /\ calling' \in Requests \cup {Nothing}
  BY <1>0, <1>1, Detaching, Unhooked
<1>3. RequestsTypeOK'
  BY <1>0, <1>1, <1>2 DEF RequestsTypeOK, context, history
<1>4. Scoped'
  BY <1>0, <1>1, <1>2 DEF Scoped, context
<1> QED
  BY <1>2, <1>3, <1>4 DEF IInv

LEMMA DetachingNext ==
    ASSUME IInv, NEW r \in Requests, DetachNext(r)
    PROVE  IInv'
<1>0. /\ RequestsTypeOK /\ Scoped /\ Detach(r) /\ calling = Nothing /\ detaching' = detaching \ {r}
      /\ UNCHANGED <<context, launching, history>>
  BY DEF IInv, DetachNext
<1>1. CASE r \in Attached
  <2>1. /\ Attached' = Attached \ {r}
        /\ \A q \in Requests : Installed(q)' /\ Told(q)' /\ Answered(q)'
        /\ phase' \in [Requests -> {"New", "Pending", "Ready", "Consumed", "Cancelled"}]
        /\ reachable' \subseteq Requests /\ hook' \subseteq Hooked
        /\ response' \in [Requests -> Answers \cup {Nothing}]
        /\ calling' \in Requests \cup {Nothing}
    BY <1>0, <1>1, Detaching, Unhooked
  <2>2. RequestsTypeOK'
    BY <1>0, <2>1 DEF RequestsTypeOK, context, history
  <2>3. Scoped'
    BY <1>0, <2>1 DEF Scoped, context
  <2> QED
    BY <2>1, <2>2, <2>3 DEF IInv
<1>2. CASE r \notin Attached
  <2>1. UNCHANGED <<box, calling>> /\ Attached' = Attached
    BY <1>0, <1>2 DEF Detach, box, Attached
  <2>2. RequestsTypeOK'
    BY <1>0, <2>1 DEF RequestsTypeOK, context, history, box
  <2>3. Scoped'
    BY <1>0, <1>2, <2>1 DEF Scoped, context
  <2>4. \A q \in Requests : Installed(q)' /\ Told(q)' /\ Answered(q)'
    BY <1>0, <2>1 DEF IInv, Installed, Told, Answered, box, history
  <2> QED
    BY <2>2, <2>3, <2>4 DEF IInv
<1> QED
  BY <1>1, <1>2

LEMMA Telling ==
    ASSUME IInv, CallHook
    PROVE  IInv'
<1>0. RequestsTypeOK /\ Scoped /\ \A q \in Requests : Installed(q) /\ Told(q) /\ Answered(q)
  BY DEF IInv
<1>1. /\ UNCHANGED <<box, context, launching, detaching, hooked, accepted, delivered>>
      /\ calling \in Requests /\ calling' = Nothing /\ called'[calling] = called[calling] + 1
      /\ \A q \in Requests : q # calling => called'[q] = called[q]
      /\ Attached' = Attached
  BY <1>0 DEF CallHook, RequestsTypeOK, Attached, box
<1>2. RequestsTypeOK'
  BY <1>0, <1>1 DEF RequestsTypeOK, CallHook, box, context
<1>3. \A q \in Requests : Installed(q)'
  BY <1>0, <1>1 DEF Installed, box
<1>4. \A q \in Requests : Told(q)'
  BY <1>0, <1>1, NothingAssumption DEF Told, box
<1>5. \A q \in Requests : Answered(q)'
  BY <1>0, <1>1 DEF Answered, box
<1>6. Scoped'
  BY <1>0, <1>1 DEF Scoped, context
<1> QED
  BY <1>2, <1>3, <1>4, <1>5, <1>6 DEF IInv

LEMMA Closing ==
    ASSUME IInv, CancelContext
    PROVE  IInv'
<1>0. RequestsTypeOK /\ Scoped /\ \A q \in Requests : Installed(q) /\ Told(q) /\ Answered(q)
  BY DEF IInv
<1>1. /\ UNCHANGED <<box, stoppedError, launching, calling, history>> /\ Attached' = Attached
      /\ detaching = {} /\ detaching' = registered /\ registered' = {} /\ cancelled' = TRUE
  BY DEF CancelContext, Free, Attached, box
<1>2. RequestsTypeOK'
  BY <1>0, <1>1 DEF RequestsTypeOK, box, history
<1>3. \A q \in Requests : Installed(q)' /\ Told(q)' /\ Answered(q)'
  BY <1>0, <1>1 DEF Installed, Told, Answered, box, history
<1>4. Scoped'
  BY <1>0, <1>1 DEF Scoped
<1> QED
  BY <1>2, <1>3, <1>4 DEF IInv

LEMMA Idle ==
    ASSUME IInv, UNCHANGED requestVars
    PROVE  IInv'
BY DEF IInv, RequestsTypeOK, Scoped, Installed, Told, Answered, Attached, requestVars, box, context, thread,
       history

LEMMA Inductive == IInv /\ [RequestsNext]_requestVars => IInv'
<1> SUFFICES ASSUME IInv, [RequestsNext]_requestVars PROVE IInv'
    OBVIOUS
<1>1. ASSUME NEW r \in Requests, Attach(r) \/ CancelReceiver(r) \/ DetachNext(r) PROVE IInv'
  BY <1>1, Attaching, Withdrawing, DetachingNext
<1>2. ASSUME NEW r \in Requests, NEW a \in Answers, Respond(r, a) PROVE IInv'
  BY <1>2, Responding
<1>3. ASSUME NEW r \in Requests, NEW stops \in BOOLEAN, Consume(r, stops) PROVE IInv'
  BY <1>3, Consuming
<1>4. CASE Launched
  BY <1>4, Launching
<1>5. CASE CallHook
  BY <1>5, Telling
<1>6. CASE CancelContext
  BY <1>6, Closing
<1>7. CASE UNCHANGED requestVars
  BY <1>7, Idle
<1> QED
  BY <1>1, <1>2, <1>3, <1>4, <1>5, <1>6, <1>7 DEF RequestsNext

LEMMA Invariant == RequestsSpec => []IInv
BY Initial, Inductive, PTL DEF RequestsSpec

-----------------------------------------------------------------------------
\* Every reachable state of the requests of a call is well typed.
THEOREM TypeCorrect == RequestsSpec => []RequestsTypeOK
<1>1. IInv => RequestsTypeOK
  BY DEF IInv
<1> QED
  BY <1>1, Invariant, PTL

\* The cancel hook of a request runs at most once, only for a cancelled
\* request and never for a consumed one.
THEOREM HookOnce == RequestsSpec => []HookAtMostOnce
<1>1. ASSUME IInv, NEW r \in Requests
      PROVE  called[r] <= 1 /\ (called[r] = 1 \/ calling = r => phase[r] = "Cancelled")
  <2>1. /\ called[r] = 0 \/ called[r] = 1
        /\ called[r] = 1 \/ calling = r => phase[r] = "Cancelled"
    BY <1>1 DEF IInv, Told
  <2> QED
    BY <2>1
<1>2. IInv => HookAtMostOnce
  BY <1>1 DEF HookAtMostOnce
<1> QED
  BY <1>2, Invariant, PTL

\* A provider with a hook learns of the cancellation of its request: the hook
\* is there outside the launch, and it runs whoever cancels.
THEOREM HookRuns == RequestsSpec => []HookNotLost
<1>1. IInv => \A r \in Hooked \cap Attached : r = launching \/ r \in hook
  BY HookedAssumption DEF IInv, Installed
<1>2. IInv => \A r \in hooked : phase[r] = "Cancelled" => called[r] = 1 \/ calling = r
  BY HookedAssumption DEF IInv, Told, RequestsTypeOK
<1>3. IInv => HookNotLost
  BY <1>1, <1>2 DEF HookNotLost
<1> QED
  BY <1>3, Invariant, PTL

\* Of all the answers to a request at most one is accepted and delivered.
THEOREM AnsweredOnce == RequestsSpec => []OneAnswer
<1>1. ASSUME IInv, NEW r \in Requests
      PROVE  /\ Len(accepted[r]) <= 1 /\ Len(delivered[r]) <= 1
             /\ delivered[r] \in {<<>>, accepted[r]}
             /\ accepted[r] # delivered[r] => phase[r] \in {"Ready", "Cancelled"}
  <2>1. Answered(r) /\ phase[r] \in {"New", "Pending", "Ready", "Consumed", "Cancelled"}
    BY <1>1 DEF IInv, RequestsTypeOK
  <2>2. CASE phase[r] \in {"New", "Pending"}
    BY <2>1, <2>2 DEF Answered
  <2>3. CASE phase[r] = "Ready"
    <3>1. accepted[r] = <<response[r]>> /\ delivered[r] = <<>>
      BY <2>1, <2>3 DEF Answered
    <3>2. Len(accepted[r]) <= 1 /\ Len(delivered[r]) <= 1
      BY <3>1
    <3> QED
      BY <2>3, <3>1, <3>2
  <2>4. CASE phase[r] = "Consumed"
    <3>1. delivered[r] = accepted[r]
      BY <2>1, <2>4 DEF Answered
    <3>2. Len(accepted[r]) = 1
      BY <2>1, <2>4 DEF Answered
    <3>3. Len(accepted[r]) <= 1
      BY <3>2
    <3> QED
      BY <2>4, <3>1, <3>3, Zenon
  <2>5. CASE phase[r] = "Cancelled"
    BY <2>1, <2>5 DEF Answered
  <2> QED
    BY <2>1, <2>2, <2>3, <2>4, <2>5
<1>2. IInv => OneAnswer
  BY <1>1 DEF OneAnswer
<1> QED
  BY <1>2, Invariant, PTL

\* Closing the scope of a call reaches every request it launched.
THEOREM ScopeCloses == RequestsSpec => []ScopeClosed
<1>1. IInv => ScopeClosed
  BY DEF IInv, Scoped, ScopeClosed
<1> QED
  BY <1>1, Invariant, PTL

\* All that a provider may rely on.
THEOREM ProviderServed == RequestsSpec => []ProviderContract
<1>1. HookAtMostOnce /\ HookNotLost /\ ScopeClosed => ProviderContract
  BY DEF ProviderContract
<1> QED
  BY <1>1, HookOnce, HookRuns, ScopeCloses, PTL

\* A detached request reaches neither its provider nor a hook.
THEOREM DetachedUnreachable == RequestsSpec => []Unreachable
<1>1. IInv => Unreachable
  BY DEF IInv, Installed, Unreachable
<1> QED
  BY <1>1, Invariant, PTL
============================================================================
