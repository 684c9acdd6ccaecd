-------------------------- MODULE StandardIOProofs --------------------------
(***************************************************************************)
(* OutputReleased, OutputWhole and InputWhole for every number of reads    *)
(* and writes, every text and every limit.  The output has at most one     *)
(* owner, and the owner remembers the flags the program inherited, because *)
(* nobody else can have changed them while it waited; nor has anybody else *)
(* written.  The argument about the input stands before its lemmas.        *)
(***************************************************************************)
EXTENDS StandardIO, FiniteSetTheorems, SequenceTheorems, WellFoundedInduction, TLAPS

States == {"cold", "parked", "queued", "returned"}
Owning(s) == s \in {"parked", "queued"}

OutputInv ==
    /\ write \in [Writers -> States]
    /\ flags \in [Writers -> SUBSET BOOLEAN]
    /\ active = {w \in Writers : Owning(write[w])}
    /\ \A v, w \in active : v = w
    /\ busy = (active # {})
    /\ active = {} => nonblock = inherited
    /\ \A w \in active : flags[w] = {inherited}
    /\ nonblock \in BOOLEAN /\ inherited \in BOOLEAN /\ busy \in BOOLEAN

\* The invariant says what the property does.
LEMMA InvReleased == OutputInv => OutputReleased
<1> SUFFICES ASSUME OutputInv PROVE OutputReleased OBVIOUS
<1>1. Cardinality(active) <= 1
    <2>1. CASE active = {}
        BY <2>1, FS_EmptySet
    <2>2. CASE active # {}
        <3>1. PICK w \in active : TRUE
            BY <2>2
        <3>2. active = {w}
            BY <3>1 DEF OutputInv
        <3>3. Cardinality({w}) = 1
            BY FS_Singleton
        <3> QED BY <3>2, <3>3
    <2> QED BY <2>1, <2>2
<1> QED BY <1>1 DEF OutputInv, OutputReleased, Owning

\* Nobody owns the output at first.
LEMMA InitOutput == Init => OutputInv
<1> SUFFICES ASSUME Init PROVE OutputInv OBVIOUS
<1>1. PICK W : OutputInit(W)
    BY DEF Init
<1>2. write \in [Writers -> States] /\ \A w \in Writers : ~Owning(write[w])
    BY <1>1 DEF OutputInit, States, Owning
<1>3. active = {w \in Writers : Owning(write[w])} /\ active = {} /\ busy = FALSE
    BY <1>1, <1>2 DEF OutputInit
<1>4. flags \in [Writers -> SUBSET BOOLEAN] /\ nonblock = inherited /\ nonblock \in BOOLEAN
    BY <1>1 DEF OutputInit
<1> QED BY <1>2, <1>3, <1>4 DEF OutputInv

\* The steps that leave the ownership of the output as it is.
LEMMA SameOwner ==
    ASSUME OutputInv, UNCHANGED <<busy, nonblock, inherited, active, flags>>,
           write' \in [Writers -> States], \A w \in Writers : Owning(write'[w]) <=> Owning(write[w])
    PROVE  OutputInv'
<1>1. active' = {w \in Writers : Owning(write'[w])}
    BY DEF OutputInv
<1> QED BY <1>1 DEF OutputInv

\* A write that moves between two states of the same ownership.
LEMMA Moved ==
    ASSUME OutputInv, NEW w \in Writers, NEW s \in States, Owning(s) <=> Owning(write[w]),
           write' = [write EXCEPT ![w] = s], UNCHANGED <<busy, nonblock, inherited, active, flags>>
    PROVE  OutputInv'
<1>1. write' \in [Writers -> States]
    BY DEF OutputInv
<1>2. \A v \in Writers : Owning(write'[v]) <=> Owning(write[v])
    BY DEF OutputInv
<1> QED BY <1>1, <1>2, SameOwner

\* A write that parks finds the descriptor as it was inherited and keeps that.
LEMMA StartOwns ==
    ASSUME OutputInv, NEW w \in Writers, NEW n \in Nat, StartWrite(w, n)
    PROVE  OutputInv'
<1>1. write[w] = "cold" /\ ~busy /\ write' = [write EXCEPT ![w] = "parked"]
      /\ active' = active \cup {w} /\ flags' = [flags EXCEPT ![w] = {nonblock}]
      /\ inherited' = inherited
    BY DEF StartWrite
<1>2. busy' = TRUE /\ nonblock' = TRUE
    BY DEF StartWrite
<1>3. active = {} /\ nonblock = inherited
    BY <1>1 DEF OutputInv
<1>4. write' \in [Writers -> States] /\ active' = {w}
    BY <1>1, <1>3 DEF OutputInv, States
<1>5. active' = {v \in Writers : Owning(write'[v])}
    <2>1. \A v \in Writers : ~Owning(write[v])
        BY <1>3 DEF OutputInv
    <2> QED BY <1>1, <1>4, <2>1 DEF OutputInv, Owning
<1>6. flags'[w] = {inherited'} /\ flags' \in [Writers -> SUBSET BOOLEAN]
    <2>1. {nonblock} \in SUBSET BOOLEAN /\ nonblock = inherited'
        BY <1>1, <1>3 DEF OutputInv
    <2> QED BY <1>1, <2>1 DEF OutputInv
<1>7. inherited' \in BOOLEAN
    BY <1>1 DEF OutputInv
<1> QED BY <1>2, <1>4, <1>5, <1>6, <1>7 DEF OutputInv

\* The awaiter that is destroyed restores what it found.
LEMMA ReturnReleases == ASSUME OutputInv, NEW w \in Writers, ReturnWrite(w) PROVE OutputInv'
<1>1. write[w] = "queued" /\ write' = [write EXCEPT ![w] = "returned"] /\ Destroyed(w)
      /\ active' = active \ {w} /\ UNCHANGED <<inherited, flags>>
    BY DEF ReturnWrite
<1>2. w \in active /\ active' = {}
    BY <1>1 DEF OutputInv, Owning
<1>3. flags[w] = {inherited}
    BY <1>2 DEF OutputInv
<1>4. nonblock' = inherited
    BY <1>1, <1>3 DEF Destroyed
<1>5. busy' = FALSE
    BY <1>1, <1>2 DEF Destroyed
<1>6. write' \in [Writers -> States]
    BY <1>1 DEF OutputInv, States
<1>7. active' = {v \in Writers : Owning(write'[v])}
    <2>1. \A v \in Writers : v # w => ~Owning(write[v])
        BY <1>2 DEF OutputInv
    <2> QED BY <1>1, <1>2, <2>1 DEF OutputInv, Owning
<1>8. inherited' \in BOOLEAN /\ flags' \in [Writers -> SUBSET BOOLEAN] /\ nonblock' = inherited'
    BY <1>1, <1>4 DEF OutputInv
<1> QED BY <1>2, <1>5, <1>6, <1>7, <1>8 DEF OutputInv

\* A write that returns at once never owned the output.
LEMMA WriteStep ==
    ASSUME OutputInv, NEW w \in Writers,
           \/ StartWriteCancelled(w) \/ StartWriteBusy(w) \/ StartWriteFails(w)
           \/ \E n \in 0..Length[w], answer \in Codes : StartWriteDone(w, n, answer)
    PROVE  OutputInv'
<1>1. write[w] = "cold" /\ write' = [write EXCEPT ![w] = "returned"]
      /\ UNCHANGED <<busy, nonblock, inherited, active, flags>>
    BY DEF StartWriteCancelled, StartWriteBusy, StartWriteFails, StartWriteDone, descriptor
<1> QED BY <1>1, Moved DEF Owning, States

\* A poll leaves the owner.
LEMMA PollStep ==
    ASSUME OutputInv, NEW w \in Writers, NEW n, NEW answer, PollOutput(w, n, answer)
    PROVE  OutputInv'
<1>1. PICK s \in {"parked", "queued"} : write' = [write EXCEPT ![w] = s]
    BY DEF PollOutput
<1>2. write[w] = "parked" /\ UNCHANGED <<busy, nonblock, inherited, active, flags>>
    BY DEF PollOutput, descriptor
<1> QED BY <1>1, <1>2, Moved DEF Owning, States

\* So does a failed wait.
LEMMA WaitFailsStep == ASSUME OutputInv, NEW w \in Writers, WaitOutputFails(w) PROVE OutputInv'
<1>1. write[w] = "parked" /\ write' = [write EXCEPT ![w] = "queued"]
      /\ UNCHANGED <<busy, nonblock, inherited, active, flags>>
    BY DEF WaitOutputFails, descriptor
<1> QED BY <1>1, Moved DEF Owning, States

\* Every step keeps the output owned by one write or free.
LEMMA NextOutput == OutputInv /\ [Next]_vars => OutputInv'
<1> SUFFICES ASSUME OutputInv, [Next]_vars PROVE OutputInv' OBVIOUS
<1>0. ASSUME UNCHANGED <<busy, nonblock, inherited, active, flags, write>> PROVE OutputInv'
    BY <1>0 DEF OutputInv
<1>a. ASSUME UNCHANGED outputVars PROVE OutputInv'
    BY <1>0, <1>a DEF outputVars, descriptor, outputs
<1>1. CASE UNCHANGED vars
    BY <1>a, <1>1 DEF vars
<1>2. CASE Outside
    <2>1. CASE Drain \/ Break
        BY <1>0, <2>1 DEF Drain, Break, descriptor, outputs
    <2> QED BY <1>2, <1>a, <2>1 DEF Outside
<1>3. CASE Cancel
    <2>1. ASSUME NEW w \in Writers, CancelWrite(w) PROVE OutputInv'
        BY <1>0, <2>1 DEF CancelWrite, descriptor
    <2> QED BY <1>3, <1>a, <2>1 DEF Cancel
<1>4. CASE \E r \in Readers : Read(r)
    BY <1>4, <1>a DEF Read
<1>5. CASE \E w \in Writers : Write(w)
    <2>1. PICK w \in Writers : Write(w)
        BY <1>5
    <2>2. ASSUME NEW n \in 0..Length[w], StartWrite(w, n) PROVE OutputInv'
        <3>1. n \in Nat
            BY WritersAssumption
        <3> QED BY <2>2, <3>1, StartOwns
    <2> QED BY <2>1, <2>2, WriteStep DEF Write
<1>6. CASE EndTurn \/ Block \/ Woken
    BY <1>6, <1>a DEF EndTurn, Block, Woken
<1>7. CASE Poll
    <2>1. ASSUME NEW w \in Writers, NEW answer \in Codes, NEW n \in 0..Length[w], PollOutput(w, n, answer)
          PROVE  OutputInv'
        BY <2>1, PollStep
    <2> QED BY <1>7, <1>a, <2>1 DEF Poll
<1>8. CASE Dispatch
    BY <1>8, <1>a, ReturnReleases DEF Dispatch
<1>9. CASE Interrupted
    <2>1. ASSUME UNCHANGED outputVars PROVE OutputInv'
        BY <1>a, <2>1
    <2>2. ASSUME NEW w \in Writers, WaitOutputFails(w) PROVE OutputInv'
        BY <2>2, WaitFailsStep
    <2> QED BY <1>9, <2>1, <2>2 DEF Interrupted
<1> QED BY <1>1, <1>2, <1>3, <1>4, <1>5, <1>6, <1>7, <1>8, <1>9 DEF Next, TasksStep, Host

\* For any number of writes of any length: whichever way a write ends, the output is free
\* for the next one and its descriptor is in the mode the program inherited.
THEOREM Released == Spec => []OutputReleased
<1>1. Spec => []OutputInv
    BY InitOutput, NextOutput, PTL DEF Spec
<1> QED BY <1>1, InvReleased, PTL

-----------------------------------------------------------------------------
(* OutputWhole.  A write that has not begun has nothing on the stream; one  *)
(* that is parked ends it, and nobody else may append until it returns.     *)

Mine(w) == {i \in DOMAIN sink : sink[i] = w}

Sunk ==
    /\ room \in Nat /\ sink \in Seq(Writers)
    /\ offset \in [Writers -> Nat] /\ code \in [Writers -> Codes]
    /\ \A w \in Writers :
         /\ Cardinality(Mine(w)) = offset[w]
         /\ offset[w] <= Length[w]
         /\ write[w] \in {"cold", "parked"} => code[w] = "None"
         /\ write[w] = "cold" => offset[w] = 0
         /\ write[w] = "parked" => \A i \in Mine(w) : \A j \in i..Len(sink) : sink[j] = w
         /\ code[w] = "Written" => offset[w] = Length[w]
         /\ code[w] = "Busy" => offset[w] = 0
    /\ \A i, j \in DOMAIN sink : sink[i] = sink[j] => \A k \in i..j : sink[k] = sink[i]

\* The invariant says what the property does.
LEMMA SunkWhole == Sunk => OutputWhole
BY DEF Sunk, OutputWhole, Mine

\* No byte is on the stream at first.
LEMMA InitSunk == Init => Sunk
<1> SUFFICES ASSUME Init PROVE Sunk OBVIOUS
<1>1. PICK W : OutputInit(W)
    BY DEF Init
<1>2. /\ room = Room /\ sink = <<>>
      /\ write \in [Writers -> {"cold", "returned"}]
      /\ offset = [w \in Writers |-> 0] /\ code = [w \in Writers |-> "None"]
    BY <1>1 DEF OutputInit
<1>3. \A w \in Writers : Mine(w) = {}
    BY <1>2 DEF Mine
<1>4. DOMAIN sink = {}
    BY <1>2
<1>5. offset \in [Writers -> Nat] /\ code \in [Writers -> Codes]
    BY <1>2 DEF Codes
<1>6. ASSUME NEW w \in Writers PROVE
         /\ Cardinality(Mine(w)) = offset[w] /\ offset[w] <= Length[w] /\ code[w] = "None"
         /\ offset[w] = 0 /\ write[w] # "parked"
    <2>1. Cardinality(Mine(w)) = 0
        BY <1>3, FS_EmptySet
    <2>2. /\ offset[w] = 0 /\ code[w] = "None" /\ write[w] # "parked" /\ 0 <= Length[w]
        BY <1>2, WritersAssumption
    <2> QED BY <2>1, <2>2
<1>7. room \in Nat /\ sink \in Seq(Writers)
    BY <1>2, RoomAssumption
<1>8. ASSUME NEW w \in Writers PROVE
         /\ Cardinality(Mine(w)) = offset[w]
         /\ offset[w] <= Length[w]
         /\ write[w] \in {"cold", "parked"} => code[w] = "None"
         /\ write[w] = "cold" => offset[w] = 0
         /\ write[w] # "parked"
         /\ code[w] # "Written"
         /\ code[w] # "Busy"
    BY <1>6
<1> HIDE <1>2
<1> QED BY <1>4, <1>5, <1>7, <1>8 DEF Sunk

\* The steps that write nothing.
LEMMA QuietSunk ==
    ASSUME Sunk, UNCHANGED <<sink, offset>>, room' \in Nat, code' \in [Writers -> Codes],
           \A w \in Writers :
              \/ write'[w] = write[w] /\ code'[w] = code[w]
              \/ /\ write'[w] \in {"queued", "returned"}
                 /\ \/ code'[w] \in {code[w], "Error", "Cancelled"}
                    \/ write[w] = "cold" /\ code'[w] = "Busy"
    PROVE  Sunk'
<1>1. \A w \in Writers : Mine(w)' = Mine(w)
    BY DEF Mine
<1>2. ASSUME NEW w \in Writers PROVE
         /\ write'[w] \in {"cold", "parked"} => write[w] = write'[w] /\ code'[w] = code[w]
         /\ code'[w] = "Written" => code[w] = "Written"
         /\ code'[w] = "Busy" => code[w] = "Busy" \/ write[w] = "cold"
    OBVIOUS
<1> QED BY <1>1, <1>2 DEF Sunk

\* What a concatenation holds.
LEMMA Joined ==
    ASSUME NEW S, NEW s \in Seq(S), NEW t \in Seq(S)
    PROVE  /\ s \o t \in Seq(S) /\ Len(s \o t) = Len(s) + Len(t)
           /\ \A i \in 1..Len(s \o t) : (s \o t)[i] = IF i <= Len(s) THEN s[i] ELSE t[i - Len(s)]
OBVIOUS

\* A transfer appends bytes of its write alone.
LEMMA Sinks ==
    ASSUME sink \in Seq(Writers), NEW w \in Writers, NEW n \in Nat, sink' = sink \o [i \in 1..n |-> w]
    PROVE  /\ sink' \in Seq(Writers) /\ Len(sink') = Len(sink) + n /\ Len(sink) \in Nat
           /\ \A i \in 1..Len(sink') : sink'[i] = IF i <= Len(sink) THEN sink[i] ELSE w
           /\ \A v \in Writers : Mine(v)' = IF v = w THEN Mine(w) \cup (Len(sink) + 1 .. Len(sink) + n)
                                            ELSE Mine(v)
<1> DEFINE t == [i \in 1..n |-> w]
           L == Len(sink)
<1>1. t \in Seq(Writers) /\ Len(t) = n /\ \A i \in 1..n : t[i] = w
    OBVIOUS
<1>2. sink' = sink \o t
    OBVIOUS
<1> HIDE DEF t
<1>3. /\ sink \o t \in Seq(Writers) /\ Len(sink \o t) = L + Len(t)
      /\ \A i \in 1..Len(sink \o t) : (sink \o t)[i] = IF i <= L THEN sink[i] ELSE t[i - L]
    BY <1>1, Joined
<1>4. sink' \in Seq(Writers) /\ Len(sink') = L + n /\ L \in Nat /\ DOMAIN sink = 1..L
    BY <1>1, <1>2, <1>3
<1>5. ASSUME NEW i \in 1..Len(sink') PROVE sink'[i] = IF i <= L THEN sink[i] ELSE w
    <2>1. sink'[i] = IF i <= L THEN sink[i] ELSE t[i - L]
        BY <1>2, <1>3
    <2>2. i > L => i - L \in 1..n
        BY <1>4
    <2>3. i > L => t[i - L] = w
        BY <1>1, <2>2
    <2> QED BY <1>4, <2>1, <2>3
<1>6. DOMAIN sink' = 1..L + n
    BY <1>4
<1> HIDE DEF L
<1>7. ASSUME NEW v \in Writers
      PROVE  Mine(v)' = IF v = w THEN Mine(w) \cup (L + 1 .. L + n) ELSE Mine(v)
    <2>1. Mine(v)' = {i \in 1..L + n : (IF i <= L THEN sink[i] ELSE w) = v}
        BY <1>4, <1>5, <1>6 DEF Mine
    <2>2. Mine(v) = {i \in 1..L : sink[i] = v}
        BY <1>4 DEF Mine
    <2> QED BY <1>4, <2>1, <2>2
<1> QED BY <1>4, <1>5, <1>7 DEF L

\* An attempt of the only write that may append.
LEMMA AttemptSunk ==
    ASSUME Sunk, NEW w \in Writers, NEW n, NEW answer \in Codes,
           Attempt(w, n, answer), Transfer(w, n), write[w] \in {"cold", "parked"},
           \A v \in Writers \ {w} : write[v] # "parked" /\ write'[v] = write[v],
           write'[w] \in {"queued", "returned"} \/ (write'[w] = "parked" /\ answer = "None"),
           code' = [code EXCEPT ![w] = answer]
    PROVE  Sunk'
<1> DEFINE L == Len(sink)
           S == Mine(w)
<1>0. room \in Nat /\ offset[w] \in Nat /\ Length[w] \in Nat /\ offset[w] <= Length[w]
    BY WritersAssumption DEF Sunk
<1>1. /\ n \in Nat /\ n <= Length[w] - offset[w] /\ n <= room /\ answer # "Busy"
      /\ answer = "Written" => n = Length[w] - offset[w]
      /\ room \in Nat /\ offset[w] \in Nat /\ Length[w] \in Nat /\ offset[w] <= Length[w]
    <2>1. CASE n = 0 /\ answer = "Cancelled"
        BY <1>0, <2>1
    <2>2. CASE n \in 0..Length[w] - offset[w] /\ n <= room /\ answer # "Busy"
               /\ (answer = "Written" => n = Length[w] - offset[w])
        BY <1>0, <2>2
    <2> QED BY <2>1, <2>2 DEF Attempt
<1>2. room' = room - n /\ offset' = [offset EXCEPT ![w] = offset[w] + n] /\ sink' = sink \o [i \in 1..n |-> w]
    BY DEF Transfer
<1>3. /\ sink' \in Seq(Writers) /\ Len(sink') = L + n /\ L \in Nat
      /\ \A i \in 1..Len(sink') : sink'[i] = IF i <= L THEN sink[i] ELSE w
      /\ \A v \in Writers : Mine(v)' = IF v = w THEN S \cup (L + 1 .. L + n) ELSE Mine(v)
    <2>1. sink \in Seq(Writers) /\ n \in Nat
        BY <1>1 DEF Sunk
    <2> QED BY <1>2, <2>1, Sinks
<1>4. DOMAIN sink = 1..L /\ DOMAIN sink' = 1..L + n /\ S = {i \in 1..L : sink[i] = w}
    BY <1>3 DEF Sunk, Mine
<1>5. \A i \in S : \A j \in i..L : sink[j] = w
    <2>1. CASE write[w] = "cold"
        <3>1. IsFiniteSet(1..L)
            BY <1>3, FS_Interval
        <3>2. IsFiniteSet(S) /\ Cardinality(S) = 0
            BY <1>4, <2>1, <3>1, FS_Subset DEF Sunk
        <3>3. S = {}
            BY <3>2, FS_EmptySet
        <3> QED BY <3>3
    <2>2. CASE write[w] = "parked"
        BY <2>2 DEF Sunk
    <2> QED BY <2>1, <2>2
<1>6. Cardinality(S) = offset[w]
    BY DEF Sunk
<1> HIDE DEF L, S
<1>7. Cardinality(Mine(w)') = offset[w] + n
    <2> DEFINE T == L + 1 .. L + n
    <2>1. IsFiniteSet(T) /\ Cardinality(T) = n
        BY <1>1, <1>3, FS_Interval
    <2>2. IsFiniteSet(1..L)
        BY <1>3, FS_Interval
    <2>3. IsFiniteSet(S)
        BY <1>4, <2>2, FS_Subset
    <2>4. S \cap T = {} /\ Mine(w)' = S \cup T
        BY <1>3, <1>4
    <2> HIDE DEF T
    <2>5. Cardinality(S \cup T) = Cardinality(S) + Cardinality(T) - Cardinality(S \cap T)
        BY <2>1, <2>3, FS_Union
    <2>6. Cardinality(Mine(w)') = offset[w] + n - 0
        BY <1>6, <2>1, <2>4, <2>5, FS_EmptySet
    <2> QED BY <1>1, <2>6
<1>8. room' \in Nat /\ offset' \in [Writers -> Nat] /\ code' \in [Writers -> Codes]
    BY <1>1, <1>2 DEF Sunk
<1>9. /\ offset'[w] = offset[w] + n /\ code'[w] = answer
      /\ \A v \in Writers \ {w} : offset'[v] = offset[v] /\ code'[v] = code[v]
    BY <1>2 DEF Sunk
<1>10. \A i \in Mine(w)' : \A j \in i..L + n : sink'[j] = w
    <2> SUFFICES ASSUME NEW i \in Mine(w)', NEW j \in i..L + n PROVE sink'[j] = w
        OBVIOUS
    <2>1. i \in 1..L + n /\ (i <= L => i \in S)
        <3>1. CASE i \in S
            BY <1>1, <1>3, <1>4, <3>1
        <3>2. CASE i \in L + 1 .. L + n
            BY <1>1, <1>3, <3>2
        <3> QED BY <1>3, <3>1, <3>2
    <2>2. j \in 1..L + n /\ sink'[j] = IF j <= L THEN sink[j] ELSE w
        BY <1>1, <1>3, <2>1
    <2>3. j <= L => i \in S /\ j \in i..L
        BY <1>1, <1>3, <2>1, <2>2
    <2> QED BY <1>5, <2>2, <2>3
<1>11. ASSUME NEW i \in DOMAIN sink', NEW j \in DOMAIN sink', sink'[i] = sink'[j], NEW k \in i..j
       PROVE  sink'[k] = sink'[i]
    <2>1. i \in 1..L + n /\ j \in 1..L + n /\ k \in 1..L + n /\ i <= k /\ k <= j
        BY <1>1, <1>3, <1>4, <1>11
    <2>2. CASE sink'[i] = w
        <3>1. i \in Mine(w)' /\ k \in i..L + n
            BY <1>1, <1>3, <1>4, <2>1, <2>2 DEF Mine
        <3> QED BY <1>10, <2>2, <3>1
    <2>3. CASE sink'[i] # w
        <3>1. j <= L /\ i <= L /\ k <= L
            BY <1>3, <1>11, <2>1, <2>3
        <3>2. sink'[i] = sink[i] /\ sink'[j] = sink[j] /\ sink'[k] = sink[k]
            BY <1>3, <2>1, <3>1
        <3>3. i \in DOMAIN sink /\ j \in DOMAIN sink
            BY <1>4, <2>1, <3>1
        <3>4. sink[i] = sink[j] /\ k \in i..j
            BY <1>11, <3>2
        <3>5. sink[k] = sink[i]
            BY <3>3, <3>4 DEF Sunk
        <3> QED BY <3>2, <3>5
    <2> QED BY <2>2, <2>3
<1>12. ASSUME NEW v \in Writers PROVE
         /\ Cardinality(Mine(v)') = offset'[v]
         /\ offset'[v] <= Length[v]
         /\ write'[v] \in {"cold", "parked"} => code'[v] = "None"
         /\ write'[v] = "cold" => offset'[v] = 0
         /\ write'[v] = "parked" => \A i \in Mine(v)' : \A j \in i..Len(sink') : sink'[j] = v
         /\ code'[v] = "Written" => offset'[v] = Length[v]
         /\ code'[v] = "Busy" => offset'[v] = 0
    <2>1. CASE v = w
        BY <1>1, <1>3, <1>7, <1>9, <1>10, <2>1
    <2>2. CASE v # w
        <3>1. Mine(v)' = Mine(v) /\ offset'[v] = offset[v] /\ code'[v] = code[v]
              /\ write'[v] = write[v] /\ write[v] # "parked"
            BY <1>3, <1>9, <2>2
        <3> QED BY <3>1 DEF Sunk
    <2> QED BY <2>1, <2>2
<1>13. sink' \in Seq(Writers)
    BY <1>3
<1>14. \A i, j \in DOMAIN sink' : sink'[i] = sink'[j] => \A k \in i..j : sink'[k] = sink'[i]
    BY <1>11
<1> QED BY <1>8, <1>12, <1>13, <1>14 DEF Sunk

\* A write that starts finds the output free.
LEMMA StartSunk ==
    ASSUME OutputInv, Sunk, NEW w \in Writers, NEW n, NEW answer \in Codes,
           StartWriteDone(w, n, answer) \/ (answer = "None" /\ StartWrite(w, n))
    PROVE  Sunk'
<1>1. /\ write[w] = "cold" /\ ~busy /\ Attempt(w, n, answer) /\ Transfer(w, n)
      /\ write' = [write EXCEPT ![w] = "returned"] \/ (answer = "None" /\ write' = [write EXCEPT ![w] = "parked"])
    BY DEF StartWriteDone, StartWrite
<1>2. code' = [code EXCEPT ![w] = answer]
    <2>1. CASE StartWriteDone(w, n, answer)
        BY <2>1 DEF StartWriteDone
    <2>2. CASE answer = "None" /\ StartWrite(w, n)
        BY <1>1, <2>2 DEF StartWrite, Sunk
    <2> QED BY <2>1, <2>2
<1>3. \A v \in Writers : write[v] # "parked"
    BY <1>1 DEF OutputInv, Owning
<1>4. write'[w] \in {"queued", "returned"} \/ (write'[w] = "parked" /\ answer = "None")
    BY <1>1 DEF OutputInv
<1>5. \A v \in Writers \ {w} : write'[v] = write[v]
    BY <1>1 DEF OutputInv
<1> QED BY <1>1, <1>2, <1>3, <1>4, <1>5, AttemptSunk

\* A parked write owns the output alone.
LEMMA PollSunk ==
    ASSUME OutputInv, Sunk, NEW w \in Writers, NEW n, NEW answer \in Codes, PollOutput(w, n, answer)
    PROVE  Sunk'
<1>1. /\ write[w] = "parked" /\ Attempt(w, n, answer) /\ Transfer(w, n)
      /\ write' = [write EXCEPT ![w] = IF answer = "None" THEN "parked" ELSE "queued"]
      /\ code' = [code EXCEPT ![w] = answer]
    BY DEF PollOutput
<1>2. \A v \in Writers \ {w} : write[v] # "parked" /\ write'[v] = write[v]
    BY <1>1 DEF OutputInv, Owning
<1>3. write'[w] \in {"queued", "returned"} \/ (write'[w] = "parked" /\ answer = "None")
    BY <1>1 DEF OutputInv
<1> QED BY <1>1, <1>2, <1>3, AttemptSunk

\* Every step keeps the stream in order.
LEMMA NextSunk == OutputInv /\ Sunk /\ [Next]_vars => Sunk'
<1> SUFFICES ASSUME OutputInv, Sunk, [Next]_vars PROVE Sunk' OBVIOUS
<1>t. room \in Nat /\ code \in [Writers -> Codes] /\ write \in [Writers -> States]
    BY DEF Sunk, OutputInv
<1>0. ASSUME UNCHANGED <<sink, offset, room, code, write>> PROVE Sunk'
    BY <1>0, <1>t, QuietSunk
<1>a. ASSUME UNCHANGED outputVars PROVE Sunk'
    BY <1>0, <1>a DEF outputVars, peer, outputs
<1>1. CASE UNCHANGED vars
    BY <1>a, <1>1 DEF vars
<1>2. CASE Outside
    <2>1. CASE Drain
        <3>1. room' \in room + 1..Room /\ UNCHANGED <<sink, offset, code, write>>
            BY <2>1 DEF Drain, outputs
        <3>2. room' \in Nat
            BY <1>t, <3>1, RoomAssumption
        <3> QED BY <1>t, <3>1, <3>2, QuietSunk
    <2>2. CASE Break
        BY <1>0, <2>2 DEF Break, outputs
    <2> QED BY <1>2, <1>a, <2>1, <2>2 DEF Outside
<1>3. CASE Cancel
    <2>1. ASSUME NEW w \in Writers, CancelWrite(w) PROVE Sunk'
        BY <1>0, <2>1 DEF CancelWrite, peer
    <2> QED BY <1>3, <1>a, <2>1 DEF Cancel
<1>4. CASE \E r \in Readers : Read(r)
    BY <1>4, <1>a DEF Read
<1>5. CASE \E w \in Writers : Write(w)
    <2>1. PICK w \in Writers : Write(w)
        BY <1>5
    <2>2. ASSUME NEW c \in {"Cancelled", "Busy", "Error"}, write[w] = "cold",
                 write' = [write EXCEPT ![w] = "returned"], code' = [code EXCEPT ![w] = c],
                 UNCHANGED <<sink, offset, room>>
          PROVE  Sunk'
        <3>1. code' \in [Writers -> Codes]
            BY <1>t, <2>2 DEF Codes
        <3> QED BY <1>t, <2>2, <3>1, QuietSunk
    <2>3. CASE StartWriteCancelled(w) \/ StartWriteBusy(w) \/ StartWriteFails(w)
        BY <2>2, <2>3 DEF StartWriteCancelled, StartWriteBusy, StartWriteFails, peer
    <2>4. ASSUME NEW n \in 0..Length[w], NEW answer \in Codes, StartWriteDone(w, n, answer) PROVE Sunk'
        BY <2>4, StartSunk
    <2>5. ASSUME NEW n \in 0..Length[w], StartWrite(w, n) PROVE Sunk'
        <3>1. "None" \in Codes
            BY DEF Codes
        <3> QED BY <2>5, <3>1, StartSunk
    <2> QED BY <2>1, <2>3, <2>4, <2>5 DEF Write
<1>6. CASE EndTurn \/ Block \/ Woken
    BY <1>6, <1>a DEF EndTurn, Block, Woken
<1>7. CASE Poll
    <2>1. ASSUME NEW w \in Writers, NEW answer \in Codes, NEW n \in 0..Length[w], PollOutput(w, n, answer)
          PROVE  Sunk'
        BY <2>1, PollSunk
    <2> QED BY <1>7, <1>a, <2>1 DEF Poll
<1>8. CASE Dispatch
    <2>1. ASSUME NEW w \in Writers, ReturnWrite(w) PROVE Sunk'
        <3>1. write' = [write EXCEPT ![w] = "returned"] /\ UNCHANGED <<sink, offset, room, code>>
            BY <2>1 DEF ReturnWrite, peer
        <3> QED BY <1>t, <3>1, QuietSunk
    <2> QED BY <1>8, <1>a, <2>1 DEF Dispatch
<1>9. CASE Interrupted
    <2>1. ASSUME NEW w \in Writers, WaitOutputFails(w) PROVE Sunk'
        <3>1. /\ write' = [write EXCEPT ![w] = "queued"] /\ code' = [code EXCEPT ![w] = "Error"]
              /\ UNCHANGED <<sink, offset, room>>
            BY <2>1 DEF WaitOutputFails, peer
        <3>2. code' \in [Writers -> Codes]
            BY <1>t, <3>1 DEF Codes
        <3> QED BY <1>t, <3>1, <3>2, QuietSunk
    <2> QED BY <1>9, <1>a, <2>1 DEF Interrupted
<1> QED BY <1>1, <1>2, <1>3, <1>4, <1>5, <1>6, <1>7, <1>8, <1>9 DEF Next, TasksStep, Host

\* For any number of writes of any length, however often each is interrupted: a write that
\* reports success has put all of its bytes on the stream, a refused one none, any other a
\* prefix, and the bytes of two writes never mix.
THEOREM WritesWhole == Spec => []OutputWhole
<1>1. Spec => [](OutputInv /\ Sunk)
    BY InitOutput, NextOutput, InitSunk, NextSunk, PTL DEF Spec
<1> QED BY <1>1, SunkWhole, PTL

-----------------------------------------------------------------------------
(* The input.  What a read is given is right because it was decided on a    *)
(* prefix of the text that is left, of which what was scanned holds no line *)
(* feed; and the reads take it in order because the queue is in the order   *)
(* of the arrivals, with nothing answered behind its head.                  *)

\* The bytes s are those of t after the first k.
IsSegment(t, s, k) ==
    /\ s \in Seq(Bytes) /\ k + Len(s) <= Len(t)
    /\ \A i \in 1..Len(s) : s[i] = t[k + i]

Outcomes == {"None", "Cancelled", "Data", "TooLarge", "End", "System"}
Replies == [outcome : Outcomes, data : Seq(Bytes), at : Nat]

InputTyped ==
    /\ text \in Seq(Bytes) /\ given \in Nat /\ consumed \in Nat
    /\ queue \in Seq(Readers) /\ arrivals \in Seq(Readers)
    /\ read \in [Readers -> States]
    /\ kind \in [Readers -> Kinds \cup {NoKind}] /\ scanned \in [Readers -> Nat]
    /\ reply \in [Readers -> Replies]

\* The cursor holds what follows the consumed bytes, and knows the end.
Held ==
    /\ given <= Len(text) /\ consumed + Len(pending) <= given
    /\ IsSegment(text, pending, consumed)
    /\ hangup => given = Len(text)
    /\ ended => consumed + Len(pending) = Len(text)
    /\ ended \in BOOLEAN /\ failed \in BOOLEAN

\* Read q was registered before r.
Earlier(q, r) == \E i, j \in DOMAIN arrivals : i < j /\ arrivals[i] = q /\ arrivals[j] = r

\* The queue holds the parked reads, in the order of their arrival.
Queueing ==
    /\ \A m, n \in DOMAIN queue : queue[m] = queue[n] => m = n
    /\ \A i, j \in DOMAIN arrivals : arrivals[i] = arrivals[j] => i = j
    /\ \A q, r \in Readers : Earlier(q, r) =>
         \A m, n \in DOMAIN queue : queue[m] = q /\ queue[n] = r => m < n
    /\ \A r \in Readers : r \in ToSet(queue) <=> read[r] = "parked"

\* How far each read has come.
Progress ==
    /\ \A r \in Readers :
         /\ read[r] = "cold" => reply[r] = NoReply /\ scanned[r] = 0 /\ r \notin ToSet(arrivals)
         /\ read[r] = "parked" => reply[r] = NoReply /\ kind[r] \in Kinds /\ r \in ToSet(arrivals)
         /\ r \in ToSet(arrivals) /\ reply[r].outcome = "None" => read[r] = "parked"
    /\ \A n \in DOMAIN queue :
         \/ scanned[queue[n]] = 0
         \/ /\ n = 1 /\ scanned[queue[n]] <= Len(pending)
            /\ \A i \in 1..scanned[queue[n]] : pending[i] # LF

\* What the replies have taken from the text.
Given ==
    /\ InputExact
    /\ \A r \in Readers :
         /\ IsSegment(text, reply[r].data, reply[r].at) /\ reply[r].at + Len(reply[r].data) <= consumed
         /\ reply[r].outcome # "Data" => reply[r].data = <<>>
    /\ \A i \in 1..consumed : \E r \in Readers : i \in Taken(r)
    /\ \A q, r \in Readers : q # r => Taken(q) \cap Taken(r) = {}
    /\ \A q, r \in Readers : Earlier(q, r) =>
         /\ \A m \in Taken(q), n \in Taken(r) : m < n
         /\ reply[r].outcome \notin {"None", "Cancelled"} => reply[q].outcome # "None"

InputInv == InputTyped /\ Held /\ Queueing /\ Progress /\ Given

-----------------------------------------------------------------------------
(* Lines.                                                                   *)

Below == OpToRel(<, Nat)

\* A set of indices that is not empty has a smallest one.
LEMMA SmallestIndex ==
    ASSUME NEW T \in SUBSET Nat, T # {}
    PROVE  \E x \in T : \A y \in T : x <= y
<1>1. IsWellFoundedOn(Below, Nat)
    BY NatLessThanWellFounded DEF Below
<1>2. PICK x \in T : \A y \in T : <<y, x>> \notin Below
    BY <1>1, WFMin
<1>3. \A y \in Nat : y < x => <<y, x>> \in Below
    BY DEF Below, OpToRel
<1>4. ASSUME NEW y \in T PROVE x <= y
    <2>1. x \in Nat /\ y \in Nat /\ ~(y < x)
        BY <1>2, <1>3
    <2> QED BY <2>1
<1> QED BY <1>4

\* A part of a sequence of bytes.
LEMMA PartOf ==
    ASSUME NEW s \in Seq(Bytes), NEW m \in Int, NEW n \in Int, 1 <= m, n <= Len(s), m <= n + 1
    PROVE  /\ SubSeq(s, m, n) \in Seq(Bytes) /\ Len(SubSeq(s, m, n)) = n - m + 1
           /\ \A i \in 1..n - m + 1 : SubSeq(s, m, n)[i] = s[m + i - 1]
<1>1. \A i \in m..n : s[i] \in Bytes
    OBVIOUS
<1>2. /\ SubSeq(s, m, n) \in Seq(Bytes) /\ Len(SubSeq(s, m, n)) = IF m <= n THEN n - m + 1 ELSE 0
      /\ \A i \in 1..n - m + 1 : SubSeq(s, m, n)[i] = s[m + i - 1]
    BY <1>1, SubSeqProperties
<1> QED BY <1>2

\* The end of the first line that starts after the scanned prefix.
LEMMA ContentFacts ==
    ASSUME NEW bytes \in Seq(Bytes), NEW from \in 0..Len(bytes)
    PROVE  /\ Content(bytes, from) \in from..Len(bytes)
           /\ \A i \in from + 1..Content(bytes, from) : bytes[i] # LF
           /\ Content(bytes, from) < Len(bytes) => bytes[Content(bytes, from) + 1] = LF
<1> DEFINE feeds == {i \in from + 1..Len(bytes) : bytes[i] = LF}
           first == CHOOSE i \in feeds : \A j \in feeds : i <= j
<1>0. Len(bytes) \in Nat /\ from \in Nat /\ from <= Len(bytes)
    OBVIOUS
<1>1. Content(bytes, from) = IF feeds = {} THEN Len(bytes) ELSE first - 1
    BY DEF Content
<1>2. \A i : i \in feeds <=> i \in from + 1..Len(bytes) /\ bytes[i] = LF
    OBVIOUS
<1>3. CASE feeds = {}
    BY <1>0, <1>1, <1>2, <1>3
<1>4. CASE feeds # {}
    <2>1. feeds \in SUBSET Nat
        BY <1>0
    <2>2. \E i \in feeds : \A j \in feeds : i <= j
        BY <1>4, <2>1, SmallestIndex
    <2>3. first \in feeds /\ \A j \in feeds : first <= j
        BY <2>2
    <2> HIDE DEF feeds, first
    <2>4. first \in from + 1..Len(bytes) /\ bytes[first] = LF
        BY <1>2, <2>3
    <2>5. \A i \in from + 1..first - 1 : bytes[i] # LF
        BY <1>0, <1>2, <2>3, <2>4
    <2> QED BY <1>0, <1>1, <1>4, <2>4, <2>5
<1> QED BY <1>3, <1>4

\* Content is the number of bytes before the first line feed, or all of them.
LEMMA ContentFound ==
    ASSUME NEW bytes \in Seq(Bytes), NEW n \in 0..Len(bytes), \A i \in 1..n : bytes[i] # LF,
           n = Len(bytes) \/ bytes[n + 1] = LF
    PROVE  Content(bytes, 0) = n
<1>1. 0 \in 0..Len(bytes) /\ Len(bytes) \in Nat
    OBVIOUS
<1>2. /\ Content(bytes, 0) \in 0..Len(bytes)
      /\ \A i \in 0 + 1..Content(bytes, 0) : bytes[i] # LF
      /\ Content(bytes, 0) < Len(bytes) => bytes[Content(bytes, 0) + 1] = LF
    BY <1>1, ContentFacts
<1> DEFINE c == Content(bytes, 0)
<1> HIDE DEF c
<1>3. c \in 0..Len(bytes) /\ (\A i \in 1..c : bytes[i] # LF) /\ (c < Len(bytes) => bytes[c + 1] = LF)
    BY <1>2 DEF c
<1>4. ~(c < n)
    BY <1>1, <1>3
<1>5. ~(n < c)
    BY <1>1, <1>3
<1>6. c = n
    BY <1>3, <1>4, <1>5
<1> QED BY <1>6 DEF c

\* The first line: the bytes before its delimiter.
LEMMA FirstLineFacts ==
    ASSUME NEW rest \in Seq(Bytes), NEW n \in 0..Len(rest), Content(rest, 0) = n
    PROVE  /\ Byte(rest, n) = CR => n >= 1
           /\ Len(FirstLine(rest)) = IF n = Len(rest) \/ Byte(rest, n) # CR THEN n ELSE n - 1
           /\ FirstLine(rest) \in Seq(Bytes)
           /\ \A i \in 1..Len(FirstLine(rest)) : FirstLine(rest)[i] = rest[i]
<1> DEFINE m == IF n = Len(rest) \/ Byte(rest, n) # CR THEN n ELSE n - 1
<1>1. Len(rest) \in Nat /\ DOMAIN rest = 1..Len(rest) /\ n \in Nat /\ n <= Len(rest)
    OBVIOUS
<1>2. Byte(rest, n) = CR => n >= 1
    <2>1. NoByte # CR
        BY BytesAssumption
    <2> QED BY <1>1, <2>1 DEF Byte
<1>3. m \in Int /\ 0 <= m /\ m <= Len(rest)
    <2>1. CASE n = Len(rest) \/ Byte(rest, n) # CR
        <3>1. m = n
            BY <2>1
        <3> HIDE DEF m
        <3> QED BY <1>1, <3>1
    <2>2. CASE ~(n = Len(rest) \/ Byte(rest, n) # CR)
        <3>1. m = n - 1 /\ n >= 1
            BY <1>2, <2>2
        <3> HIDE DEF m
        <3> QED BY <1>1, <3>1
    <2> QED BY <2>1, <2>2
<1>4. FirstLine(rest) = SubSeq(rest, 1, m)
    BY DEF FirstLine
<1> HIDE DEF m
<1>5. /\ SubSeq(rest, 1, m) \in Seq(Bytes) /\ Len(SubSeq(rest, 1, m)) = m - 1 + 1
      /\ \A i \in 1..m - 1 + 1 : SubSeq(rest, 1, m)[i] = rest[1 + i - 1]
    <2>1. 1 \in Int /\ m \in Int /\ 1 <= 1 /\ m <= Len(rest) /\ 1 <= m + 1
        BY <1>1, <1>3
    <2> QED BY <2>1, PartOf
<1>6. /\ Len(FirstLine(rest)) = m /\ FirstLine(rest) \in Seq(Bytes)
      /\ \A i \in 1..m : FirstLine(rest)[i] = rest[i]
    BY <1>3, <1>4, <1>5
<1> QED BY <1>2, <1>6 DEF m

\* The bytes are the first of the rest; a line feed follows the first c of them.
Starts(bytes, rest) ==
    Len(bytes) <= Len(rest) /\ \A i \in 1..Len(bytes) : bytes[i] = rest[i]
Feeds(bytes, c) ==
    c \in 0..Len(bytes) /\ c < Len(bytes) /\ bytes[c + 1] = LF /\ \A i \in 1..c : bytes[i] # LF

\* The delimiter is there: the line is what precedes it.
Found(bytes, c, rest) ==
    LET d == SubSeq(bytes, 1, c + 1)
    IN  /\ Len(FirstLine(rest)) = (IF Byte(bytes, c) = CR THEN c - 1 ELSE c)
        /\ Len(FirstLine(rest)) \in Nat
        /\ Stripped(d) = FirstLine(rest) /\ d \in Seq(Bytes) /\ Len(d) = c + 1
        /\ \A i \in 1..c + 1 : d[i] = bytes[i]

\* The first n bytes of a sequence.
LEMMA FirstBytes ==
    ASSUME NEW s \in Seq(Bytes), NEW n \in Nat, n <= Len(s)
    PROVE  /\ SubSeq(s, 1, n) \in Seq(Bytes) /\ Len(SubSeq(s, 1, n)) = n
           /\ \A i \in 1..n : SubSeq(s, 1, n)[i] = s[i]
<1>1. 1 \in Int /\ n \in Int /\ 1 <= 1 /\ n <= Len(s) /\ 1 <= n + 1
    OBVIOUS
<1>2. /\ SubSeq(s, 1, n) \in Seq(Bytes) /\ Len(SubSeq(s, 1, n)) = n - 1 + 1
      /\ \A i \in 1..n - 1 + 1 : SubSeq(s, 1, n)[i] = s[1 + i - 1]
    BY <1>1, PartOf
<1> QED BY <1>2

\* The line that ends in a prefix of the rest is the first line of the rest.
LEMMA LineFound ==
    ASSUME NEW rest \in Seq(Bytes), NEW bytes \in Seq(Bytes), Starts(bytes, rest),
           NEW c \in Nat, Feeds(bytes, c)
    PROVE  Found(bytes, c, rest)
<1> DEFINE v == IF Byte(bytes, c) = CR THEN c - 1 ELSE c
           e == SubSeq(bytes, 1, c + 1)
<1>a. Len(bytes) <= Len(rest) /\ \A i \in 1..Len(bytes) : bytes[i] = rest[i]
    BY DEF Starts
<1>f. c \in 0..Len(bytes) /\ c < Len(bytes) /\ bytes[c + 1] = LF /\ \A i \in 1..c : bytes[i] # LF
    BY DEF Feeds
<1>1. /\ Len(bytes) \in Nat /\ Len(rest) \in Nat /\ c \in Nat /\ c <= Len(rest) /\ c \in 0..Len(rest)
      /\ DOMAIN bytes = 1..Len(bytes) /\ DOMAIN rest = 1..Len(rest)
    BY <1>a, <1>f
<1>n. NoByte # CR /\ NoByte # LF /\ LF # CR
    BY BytesAssumption
<1>2. (\A i \in 1..c : rest[i] # LF) /\ rest[c + 1] = LF /\ c < Len(rest)
    BY <1>a, <1>f, <1>1
<1>3. Content(rest, 0) = c
    BY <1>a, <1>f, <1>1, <1>2, ContentFound
<1>4. Byte(rest, c) = Byte(bytes, c)
    BY <1>a, <1>f, <1>1 DEF Byte
<1>5. /\ Byte(rest, c) = CR => c >= 1
      /\ Len(FirstLine(rest)) = IF c = Len(rest) \/ Byte(rest, c) # CR THEN c ELSE c - 1
      /\ FirstLine(rest) \in Seq(Bytes)
      /\ \A i \in 1..Len(FirstLine(rest)) : FirstLine(rest)[i] = rest[i]
    BY <1>a, <1>f, <1>1, <1>3, FirstLineFacts
<1>6. Len(FirstLine(rest)) = v
    <2>0. Len(rest) \in Nat /\ c < Len(rest)
        BY <1>1, <1>2

    <2>1. c # Len(rest)
        BY <2>0
    <2>2. Len(FirstLine(rest)) = IF Byte(bytes, c) # CR THEN c ELSE c - 1
        <3>1. CASE Byte(bytes, c) = CR
            BY <1>4, <1>5, <2>1, <3>1, Zenon
        <3>2. CASE Byte(bytes, c) # CR
            BY <1>4, <1>5, <3>2, Zenon
        <3> QED BY <3>1, <3>2
    <2> QED BY <2>2, Zenon DEF v
<1>7. v \in Nat /\ v <= c
    <2>1. CASE Byte(bytes, c) = CR
        <3>1. v = c - 1 /\ c >= 1
            BY <1>4, <1>5, <2>1
        <3> HIDE DEF v
        <3> QED BY <3>1
    <2>2. CASE Byte(bytes, c) # CR
        <3>1. v = c
            BY <2>2
        <3> QED BY <3>1
    <2> QED BY <2>1, <2>2
<1>8. e \in Seq(Bytes) /\ Len(e) = c + 1 /\ \A i \in 1..c + 1 : e[i] = bytes[i]
    <2>1. c + 1 \in Nat /\ c + 1 <= Len(bytes)
        BY <1>f, <1>1
    <2> QED BY <2>1, FirstBytes
<1> HIDE DEF v, e
<1>9. ASSUME NEW w \in Nat, w = v, NEW d \in Seq(Bytes), d = e PROVE Stripped(d) = FirstLine(rest)
    <2>1. DOMAIN d = 1..c + 1 /\ Byte(d, c + 1) = LF /\ Byte(d, c) = Byte(bytes, c)
        BY <1>f, <1>1, <1>8, <1>9 DEF Byte
    <2>2. Stripped(d) = SubSeq(d, 1, w)
        <3>1. Len(d) - 1 = c /\ Len(d) - 2 = c - 1 /\ Len(d) = c + 1
            BY <1>1, <1>8, <1>9
        <3>2. w = IF Byte(bytes, c) = CR THEN c - 1 ELSE c
            BY <1>9 DEF v
        <3> QED BY <2>1, <3>1, <3>2 DEF Stripped
    <2>3. /\ SubSeq(d, 1, w) \in Seq(Bytes) /\ Len(SubSeq(d, 1, w)) = w
          /\ \A i \in 1..w : SubSeq(d, 1, w)[i] = d[i]
        <3>1. w <= Len(d)
            BY <1>7, <1>8, <1>9
        <3> QED BY <3>1, FirstBytes
    <2>4. \A i \in 1..w : i \in 1..c + 1
        BY <1>7, <1>9
    <2>5. \A i \in 1..w : SubSeq(d, 1, w)[i] = FirstLine(rest)[i]
        <3> SUFFICES ASSUME NEW i \in 1..w PROVE SubSeq(d, 1, w)[i] = FirstLine(rest)[i]
            OBVIOUS
        <3>1. SubSeq(d, 1, w)[i] = d[i] /\ d[i] = bytes[i]
            BY <1>8, <1>9, <2>3, <2>4
        <3>2. FirstLine(rest)[i] = rest[i]
            BY <1>5, <1>6, <1>9
        <3>3. i \in 1..Len(bytes)
            BY <1>f, <1>1, <2>4
        <3> QED BY <1>a, <3>1, <3>2, <3>3
    <2>6. Len(SubSeq(d, 1, w)) = Len(FirstLine(rest))
        BY <1>6, <1>9, <2>3
    <2>7. SubSeq(d, 1, w) = FirstLine(rest)
        BY <1>5, <2>3, <2>5, <2>6, SeqEqual
    <2> QED BY <2>2, <2>7
<1>10. Stripped(e) = FirstLine(rest)
    BY <1>7, <1>8, <1>9
<1> QED BY <1>6, <1>7, <1>8, <1>10 DEF Found, v, e

\* The delimiter is not there yet: what is there is no longer than the line.
LEMMA LineOpen ==
    ASSUME NEW rest \in Seq(Bytes), NEW bytes \in Seq(Bytes), Starts(bytes, rest),
           \A i \in 1..Len(bytes) : bytes[i] # LF
    PROVE  ContentLength(bytes, Len(bytes), FALSE) <= Len(FirstLine(rest))
           /\ ContentLength(bytes, Len(bytes), FALSE) \in Int /\ Len(FirstLine(rest)) \in Int
<1> DEFINE n == Content(rest, 0)
           c == Len(bytes)
           w == Len(FirstLine(rest))
           m == ContentLength(bytes, c, FALSE)
<1>a. Len(bytes) <= Len(rest) /\ \A i \in 1..Len(bytes) : bytes[i] = rest[i]
    BY DEF Starts
<1>1. /\ c \in Nat /\ Len(rest) \in Nat /\ c <= Len(rest) /\ 0 \in 0..Len(rest)
      /\ DOMAIN bytes = 1..c /\ DOMAIN rest = 1..Len(rest)
    BY <1>a
<1>n. NoByte # CR /\ NoByte # LF /\ LF # CR
    BY BytesAssumption
<1>2. n \in 0..Len(rest) /\ (n < Len(rest) => rest[n + 1] = LF)
    BY <1>1, ContentFacts
<1>3. /\ Byte(rest, n) = CR => n >= 1
      /\ w = IF n = Len(rest) \/ Byte(rest, n) # CR THEN n ELSE n - 1
    BY <1>2, FirstLineFacts
<1>4. m = IF Byte(bytes, c) = CR THEN c - 1 ELSE c
    BY DEF ContentLength
<1>5. \A i \in 1..c : bytes[i] = rest[i] /\ rest[i] # LF
    BY <1>a
<1>6. Byte(bytes, c) = Byte(rest, c)
    BY <1>1, <1>5 DEF Byte
<1> HIDE DEF n, c, w, m
<1>7. n >= c
    <2> SUFFICES ASSUME n < c PROVE FALSE
        BY <1>1, <1>2
    <2>1. n + 1 \in 1..c /\ rest[n + 1] = LF
        BY <1>1, <1>2
    <2> QED BY <1>5, <2>1
<1>8. w \in Int /\ (w = n \/ w = n - 1)
    BY <1>2, <1>3
<1>9. m \in Int /\ m <= c
    BY <1>1, <1>4
<1>10. m <= w
    <2>1. CASE n > c
        BY <1>1, <1>2, <1>8, <1>9, <2>1
    <2>2. CASE n = c
        <3>1. CASE w = n
            BY <1>9, <2>2, <3>1
        <3>2. CASE w # n
            <4>1. Byte(rest, n) = CR /\ w = n - 1
                BY <1>3, <3>2
            <4>2. m = c - 1
                BY <1>4, <1>6, <2>2, <4>1
            <4> QED BY <2>2, <4>1, <4>2
        <3> QED BY <3>1, <3>2
    <2> QED BY <1>1, <1>2, <1>7, <2>1, <2>2
<1> QED BY <1>8, <1>9, <1>10 DEF m, c, w

\* The input ends without a delimiter: the line is what is left of it.
LEMMA LineEnded ==
    ASSUME NEW rest \in Seq(Bytes), \A i \in 1..Len(rest) : rest[i] # LF
    PROVE  /\ ContentLength(rest, Len(rest), TRUE) = Len(FirstLine(rest))
           /\ Stripped(rest) = rest /\ FirstLine(rest) = rest
<1> DEFINE n == Len(rest)
<1>1. n \in Nat /\ n \in 0..Len(rest) /\ DOMAIN rest = 1..n
    OBVIOUS
<1>n. NoByte # CR /\ NoByte # LF /\ LF # CR
    BY BytesAssumption
<1>2. Content(rest, 0) = n
    BY <1>1, ContentFound
<1>3. /\ Len(FirstLine(rest)) = n /\ FirstLine(rest) \in Seq(Bytes)
      /\ \A i \in 1..Len(FirstLine(rest)) : FirstLine(rest)[i] = rest[i]
    BY <1>1, <1>2, FirstLineFacts
<1>4. FirstLine(rest) = rest
    BY <1>3, SeqEqual
<1>5. Byte(rest, n) # LF
    BY <1>n, <1>1 DEF Byte
<1>6. Stripped(rest) = rest
    BY <1>5 DEF Stripped
<1>7. ContentLength(rest, Len(rest), TRUE) = n
    <2>1. ~(n < Len(rest) \/ ~TRUE)
        BY <1>1
    <2> QED BY <2>1 DEF ContentLength
<1> QED BY <1>3, <1>4, <1>6, <1>7

\* A reply, if it is one, holds the consumed bytes of these.
Cut(p, bytes) ==
    /\ p = NoReply \/ (p = Reply(p.outcome, p.data) /\ p.outcome \in {"Data", "TooLarge", "End", "System"})
    /\ p.data \in Seq(Bytes) /\ Len(p.data) <= Len(bytes)
    /\ \A i \in 1..Len(p.data) : p.data[i] = bytes[i]
    /\ p.outcome # "Data" => p.data = <<>>

\* To answer nothing takes nothing.
LEMMA CutNone ==
    ASSUME NEW bytes \in Seq(Bytes)
    PROVE  Cut(NoReply, bytes) /\ NoReply.outcome = "None"
<1>1. NoReply.data = <<>> /\ NoReply.outcome = "None"
    BY DEF NoReply
<1>2. <<>> \in Seq(Bytes) /\ Len(<<>>) = 0 /\ Len(bytes) \in Nat
    OBVIOUS
<1> QED BY <1>1, <1>2 DEF Cut

\* A reply without data takes nothing.
LEMMA CutEmpty ==
    ASSUME NEW bytes \in Seq(Bytes), NEW o \in {"Data", "TooLarge", "End", "System"}
    PROVE  /\ Cut(Reply(o, <<>>), bytes) /\ Reply(o, <<>>) # NoReply
           /\ Reply(o, <<>>).outcome = o /\ Reply(o, <<>>).data = <<>>
<1>1. Reply(o, <<>>).data = <<>> /\ Reply(o, <<>>).outcome = o
    BY DEF Reply
<1>2. <<>> \in Seq(Bytes) /\ Len(<<>>) = 0 /\ Len(bytes) \in Nat
    OBVIOUS
<1>3. NoReply.outcome = "None"
    BY DEF NoReply
<1>4. Reply(o, <<>>) # NoReply
    BY <1>1, <1>3
<1> DEFINE p == Reply(o, <<>>)
<1> HIDE DEF p
<1>5. /\ p.data = <<>> /\ p = Reply(p.outcome, p.data) /\ p.outcome \in {"Data", "TooLarge", "End", "System"}
      /\ p.data \in Seq(Bytes) /\ Len(p.data) = 0
    BY <1>1, <1>2 DEF p
<1>6. Len(p.data) <= Len(bytes) /\ \A i \in 1..Len(p.data) : p.data[i] = bytes[i]
    BY <1>2, <1>5
<1>7. Cut(p, bytes)
    BY <1>5, <1>6 DEF Cut
<1> QED BY <1>1, <1>4, <1>7 DEF p

\* A reply with the first bytes takes these.
LEMMA CutData ==
    ASSUME NEW bytes \in Seq(Bytes), NEW d \in Seq(Bytes), Len(d) <= Len(bytes),
           \A i \in 1..Len(d) : d[i] = bytes[i]
    PROVE  /\ Cut(Reply("Data", d), bytes) /\ Reply("Data", d) # NoReply
           /\ Reply("Data", d).outcome = "Data" /\ Reply("Data", d).data = d
<1>1. Reply("Data", d).data = d /\ Reply("Data", d).outcome = "Data"
    BY DEF Reply
<1>2. NoReply.outcome = "None"
    BY DEF NoReply
<1>3. Reply("Data", d) # NoReply
    BY <1>1, <1>2
<1> QED BY <1>1, <1>3 DEF Cut

\* The content of a line of which a prefix was scanned.
LEMMA ContentScanned ==
    ASSUME NEW bytes \in Seq(Bytes), NEW from \in 0..Len(bytes), \A i \in 1..from : bytes[i] # LF
    PROVE  /\ Content(bytes, from) \in 0..Len(bytes)
           /\ \A i \in 1..Content(bytes, from) : bytes[i] # LF
           /\ Content(bytes, from) < Len(bytes) => bytes[Content(bytes, from) + 1] = LF
<1> DEFINE c == Content(bytes, from)
<1>1. /\ c \in from..Len(bytes) /\ \A i \in from + 1..c : bytes[i] # LF
      /\ c < Len(bytes) => bytes[c + 1] = LF
    BY ContentFacts
<1> HIDE DEF c
<1>2. Len(bytes) \in Nat /\ from \in Nat /\ c \in Nat
    BY <1>1
<1>3. ASSUME NEW i \in 1..c PROVE bytes[i] # LF
    <2>1. i <= from \/ i \in from + 1..c
        BY <1>2, <1>3
    <2> QED BY <1>1, <1>2, <1>3, <2>1
<1>4. c \in 0..Len(bytes)
    BY <1>1, <1>2
<1> QED BY <1>1, <1>3, <1>4 DEF c

\* What a line read decides on a prefix is right for the line: the delimiter is
\* where it is, the content does not become shorter, and only the end of the
\* input makes a carriage return content.
RightLine(p, rest, limit) ==
    /\ p.outcome # "System"
    /\ p.outcome = "Data" => Stripped(p.data) = FirstLine(rest) /\ rest # <<>>
                             /\ ~(Len(FirstLine(rest)) > limit)
    /\ p.outcome = "TooLarge" => Len(FirstLine(rest)) > limit
    /\ p.outcome = "End" => rest = <<>>

\* LineReply on a prefix of the rest is right for all of the rest.
LEMMA LineExact ==
    ASSUME NEW rest \in Seq(Bytes), NEW bytes \in Seq(Bytes), Starts(bytes, rest),
           NEW from \in 0..Len(bytes), \A i \in 1..from : bytes[i] # LF,
           NEW end \in BOOLEAN, end = TRUE => bytes = rest, NEW limit \in Nat,
           NEW p, p = LineReply(bytes, limit, from, end)
    PROVE  Cut(p, bytes) /\ RightLine(p, rest, limit)
           /\ (p = NoReply => \A i \in 1..Len(bytes) : bytes[i] # LF)
<1>0. Content(bytes, from) \in Nat
    <2>1. Content(bytes, from) \in 0..Len(bytes) /\ Len(bytes) \in Nat
        BY ContentScanned
    <2> QED BY <2>1
<1> SUFFICES ASSUME NEW c \in Nat, c = Content(bytes, from)
             PROVE  Cut(p, bytes) /\ RightLine(p, rest, limit)
                    /\ (p = NoReply => \A i \in 1..Len(bytes) : bytes[i] # LF)
    BY <1>0
<1> DEFINE m == ContentLength(bytes, c, end)
           w == Len(FirstLine(rest))
           d == SubSeq(bytes, 1, c + 1)
<1>1. c \in 0..Len(bytes) /\ (\A i \in 1..c : bytes[i] # LF) /\ (c < Len(bytes) => bytes[c + 1] = LF)
    BY ContentScanned
<1>2. p = IF m > limit THEN Reply("TooLarge", <<>>)
          ELSE IF c < Len(bytes) THEN Reply("Data", d)
          ELSE IF ~end THEN NoReply
          ELSE Reply(IF bytes = <<>> THEN "End" ELSE "Data", bytes)
    BY DEF LineReply
<1> HIDE DEF d, m, w
<1>3. CASE c < Len(bytes)
    <2>1. /\ m = w /\ Stripped(d) = FirstLine(rest) /\ d \in Seq(Bytes) /\ Len(d) = c + 1
          /\ (\A i \in 1..c + 1 : d[i] = bytes[i]) /\ w \in Nat
        <3>0. Feeds(bytes, c)
            BY <1>1, <1>3 DEF Feeds
        <3>1. Found(bytes, c, rest)
            BY <3>0, LineFound
        <3>2. /\ w = (IF Byte(bytes, c) = CR THEN c - 1 ELSE c) /\ w \in Nat
              /\ Stripped(d) = FirstLine(rest) /\ d \in Seq(Bytes) /\ Len(d) = c + 1
              /\ \A i \in 1..c + 1 : d[i] = bytes[i]
            BY <3>1 DEF Found, d, w
        <3>3. m = IF Byte(bytes, c) = CR THEN c - 1 ELSE c
            BY <1>3 DEF m, ContentLength
        <3> QED BY <3>2, <3>3
    <2>2. CASE m > limit
        <3>1. p = Reply("TooLarge", <<>>)
            BY <1>2, <2>2
        <3>2. Cut(p, bytes) /\ p # NoReply /\ p.outcome = "TooLarge"
            BY <3>1, CutEmpty
        <3> QED BY <2>1, <2>2, <3>2 DEF RightLine, w
    <2>3. CASE ~(m > limit)
        <3>1. p = Reply("Data", d)
            BY <1>2, <1>3, <2>3
        <3>2. Len(d) <= Len(bytes) /\ Len(bytes) \in Nat
            BY <1>1, <1>3, <2>1
        <3>3. Cut(p, bytes) /\ p # NoReply /\ p.outcome = "Data" /\ p.data = d
            BY <2>1, <3>1, <3>2, CutData
        <3>4. rest # <<>>
            BY <1>1, <3>2, <1>3 DEF Starts
        <3> QED BY <2>1, <2>3, <3>3, <3>4 DEF RightLine, w
    <2> QED BY <2>2, <2>3
<1>4. ASSUME ~(c < Len(bytes)) PROVE c = Len(bytes) /\ \A i \in 1..Len(bytes) : bytes[i] # LF
    BY <1>1, <1>4
<1>5. CASE ~(c < Len(bytes)) /\ end = FALSE
    <2>1. m <= w /\ m \in Int /\ w \in Int
        BY <1>4, <1>5, LineOpen DEF m, w
    <2>2. CASE m > limit
        <3>1. p = Reply("TooLarge", <<>>)
            BY <1>2, <2>2
        <3>2. Cut(p, bytes) /\ p # NoReply /\ p.outcome = "TooLarge"
            BY <3>1, CutEmpty
        <3>3. w > limit
            BY <2>1, <2>2
        <3> QED BY <3>2, <3>3 DEF RightLine, w
    <2>3. CASE ~(m > limit)
        <3>1. p = NoReply
            BY <1>2, <1>5, <2>3
        <3>2. Cut(p, bytes) /\ p.outcome = "None"
            BY <3>1, CutNone
        <3> QED BY <1>4, <1>5, <3>2 DEF RightLine
    <2> QED BY <2>2, <2>3
<1>6. CASE ~(c < Len(bytes)) /\ end = TRUE
    <2>1. bytes = rest /\ c = Len(bytes) /\ \A i \in 1..Len(bytes) : bytes[i] # LF
        BY <1>4, <1>6
    <2>2. m = w /\ Stripped(bytes) = bytes /\ FirstLine(rest) = bytes
        BY <1>6, <2>1, LineEnded DEF m, w
    <2>3. CASE m > limit
        <3>1. p = Reply("TooLarge", <<>>)
            BY <1>2, <2>3
        <3>2. Cut(p, bytes) /\ p # NoReply /\ p.outcome = "TooLarge"
            BY <3>1, CutEmpty
        <3> QED BY <2>2, <2>3, <3>2 DEF RightLine, w
    <2>4. CASE ~(m > limit) /\ bytes = <<>>
        <3>1. p = Reply("End", <<>>)
            BY <1>2, <1>6, <2>4
        <3>2. Cut(p, bytes) /\ p # NoReply /\ p.outcome = "End"
            BY <3>1, CutEmpty
        <3> QED BY <2>1, <2>4, <3>2 DEF RightLine
    <2>5. CASE ~(m > limit) /\ bytes # <<>>
        <3>1. p = Reply("Data", bytes)
            BY <1>2, <1>6, <2>5
        <3>2. Len(bytes) <= Len(bytes) /\ \A i \in 1..Len(bytes) : bytes[i] = bytes[i]
            OBVIOUS
        <3>3. Cut(p, bytes) /\ p # NoReply /\ p.outcome = "Data" /\ p.data = bytes
            BY <3>1, <3>2, CutData
        <3> QED BY <2>1, <2>2, <2>5, <3>3 DEF RightLine, w
    <2> QED BY <2>3, <2>4, <2>5
<1> QED BY <1>3, <1>5, <1>6

RightChunk(p, limit, rest) ==
    /\ p.outcome # "System" /\ p.outcome # "TooLarge"
    /\ p.outcome = "Data" => Len(p.data) <= limit /\ (p.data = <<>>) = (limit = 0)
    /\ p.outcome = "End" => rest = <<>>

\* So is ChunkReply.
LEMMA ChunkExact ==
    ASSUME NEW rest \in Seq(Bytes), NEW bytes \in Seq(Bytes), Starts(bytes, rest),
           NEW end \in BOOLEAN, end = TRUE => bytes = rest, NEW limit \in Nat, limit # 0,
           NEW p, p = ChunkReply(bytes, limit, end)
    PROVE  Cut(p, bytes) /\ RightChunk(p, limit, rest)
<1>1. CASE bytes # <<>>
    <2> DEFINE l == IF limit < Len(bytes) THEN limit ELSE Len(bytes)
               d == SubSeq(bytes, 1, l)
    <2>1. p = Reply("Data", d)
        BY <1>1 DEF ChunkReply
    <2>2. Len(bytes) \in Nat /\ Len(bytes) # 0
        BY <1>1
    <2>3. l \in Nat /\ l <= Len(bytes) /\ l <= limit /\ l # 0
        BY <2>2
    <2> HIDE DEF l
    <2>4. d \in Seq(Bytes) /\ Len(d) = l /\ \A i \in 1..l : d[i] = bytes[i]
        BY <2>3, FirstBytes
    <2> HIDE DEF d
    <2>5. Len(d) <= Len(bytes) /\ d # <<>>
        BY <2>2, <2>3, <2>4
    <2>6. Cut(p, bytes) /\ p.outcome = "Data" /\ p.data = d
        BY <2>1, <2>4, <2>5, CutData
    <2> QED BY <2>3, <2>4, <2>5, <2>6 DEF RightChunk
<1>2. CASE bytes = <<>> /\ end = TRUE
    <2>1. p = Reply("End", <<>>)
        BY <1>2 DEF ChunkReply
    <2>2. Cut(p, bytes) /\ p.outcome = "End"
        BY <2>1, CutEmpty
    <2> QED BY <1>2, <2>2 DEF RightChunk
<1>3. CASE bytes = <<>> /\ end = FALSE
    <2>1. p = NoReply
        BY <1>3 DEF ChunkReply
    <2>2. Cut(p, bytes) /\ p.outcome = "None"
        BY <2>1, CutNone
    <2> QED BY <2>2 DEF RightChunk
<1> QED BY <1>1, <1>2, <1>3

RightAll(p, limit, rest) ==
    /\ p.outcome # "System" /\ p.outcome # "End"
    /\ p.outcome = "Data" => p.data = rest /\ ~(Len(rest) > limit)
    /\ p.outcome = "TooLarge" => Len(rest) > limit

\* So is AllReply.
LEMMA AllExact ==
    ASSUME NEW rest \in Seq(Bytes), NEW bytes \in Seq(Bytes), Starts(bytes, rest),
           NEW end \in BOOLEAN, end = TRUE => bytes = rest, NEW limit \in Nat,
           NEW p, p = AllReply(bytes, limit, end)
    PROVE  Cut(p, bytes) /\ RightAll(p, limit, rest)
<1>0. Len(bytes) \in Nat /\ Len(rest) \in Nat /\ Len(bytes) <= Len(rest)
    BY DEF Starts
<1>1. CASE Len(bytes) > limit
    <2>1. p = Reply("TooLarge", <<>>)
        BY <1>1 DEF AllReply
    <2>2. Cut(p, bytes) /\ p.outcome = "TooLarge"
        BY <2>1, CutEmpty
    <2>3. Len(rest) > limit
        BY <1>0, <1>1
    <2> QED BY <2>2, <2>3 DEF RightAll
<1>2. CASE ~(Len(bytes) > limit) /\ end = TRUE
    <2>1. p = Reply("Data", bytes) /\ bytes = rest
        BY <1>2 DEF AllReply
    <2>2. Len(bytes) <= Len(bytes) /\ \A i \in 1..Len(bytes) : bytes[i] = bytes[i]
        OBVIOUS
    <2>3. Cut(p, bytes) /\ p.outcome = "Data" /\ p.data = bytes
        BY <2>1, <2>2, CutData
    <2> QED BY <1>2, <2>1, <2>3 DEF RightAll
<1>3. CASE ~(Len(bytes) > limit) /\ end = FALSE
    <2>1. p = NoReply
        BY <1>3 DEF AllReply
    <2>2. Cut(p, bytes) /\ p.outcome = "None"
        BY <2>1, CutNone
    <2> QED BY <2>2 DEF RightAll
<1> QED BY <1>1, <1>2, <1>3

\* What is left of the text, and the part of it that is at hand.
Left == SubSeq(text, consumed + 1, Len(text))

\* What the cursor holds is a prefix of what is left of the text.
LEMMA LeftFacts ==
    ASSUME text \in Seq(Bytes), consumed \in Nat, NEW bytes, IsSegment(text, bytes, consumed)
    PROVE  /\ Left \in Seq(Bytes) /\ bytes \in Seq(Bytes) /\ Starts(bytes, Left)
           /\ consumed + Len(bytes) = Len(text) => bytes = Left
<1>1. /\ bytes \in Seq(Bytes) /\ consumed + Len(bytes) <= Len(text)
      /\ \A i \in 1..Len(bytes) : bytes[i] = text[consumed + i]
    BY DEF IsSegment
<1>2. Len(bytes) \in Nat /\ Len(text) \in Nat
    BY <1>1
<1>3. consumed + 1 \in Int /\ Len(text) \in Int /\ 1 <= consumed + 1 /\ Len(text) <= Len(text) /\ consumed + 1 <= Len(text) + 1
    BY <1>1, <1>2
<1>4. /\ SubSeq(text, consumed + 1, Len(text)) \in Seq(Bytes)
      /\ Len(SubSeq(text, consumed + 1, Len(text))) = Len(text) - (consumed + 1) + 1
      /\ \A i \in 1..Len(text) - (consumed + 1) + 1 :
            SubSeq(text, consumed + 1, Len(text))[i] = text[consumed + 1 + i - 1]
    BY <1>3, PartOf
<1>5. /\ Left \in Seq(Bytes) /\ Len(Left) = Len(text) - consumed
      /\ \A i \in 1..Len(text) - consumed : Left[i] = text[consumed + i]
    BY <1>2, <1>4 DEF Left
<1>6. Len(bytes) <= Len(Left)
    BY <1>1, <1>2, <1>5
<1>7. \A i \in 1..Len(bytes) : i \in 1..Len(text) - consumed
    BY <1>1, <1>2
<1>8. \A i \in 1..Len(bytes) : bytes[i] = Left[i]
    BY <1>1, <1>5, <1>7
<1>9. consumed + Len(bytes) = Len(text) => Len(bytes) = Len(Left)
    <2> SUFFICES ASSUME consumed + Len(bytes) = Len(text) PROVE Len(bytes) = Len(Left)
        OBVIOUS
    <2>1. Len(text) - consumed = Len(bytes)
        BY <1>2
    <2> QED BY <1>5, <2>1
<1>10. Len(bytes) = Len(Left) => bytes = Left
    <2> SUFFICES ASSUME Len(bytes) = Len(Left) PROVE bytes = Left
        OBVIOUS
    <2>1. bytes \in Seq(Bytes) /\ Left \in Seq(Bytes)
        BY <1>1, <1>5
    <2> QED BY <1>8, <2>1, SeqEqual
<1> QED BY <1>1, <1>5, <1>6, <1>8, <1>9, <1>10 DEF Starts

\* What a read replies after any part of the text is right for all of it.
LEMMA ReadyExact ==
    ASSUME text \in Seq(Bytes), consumed \in Nat, NEW r \in Readers, kind[r] \in Kinds,
           NEW bytes, IsSegment(text, bytes, consumed),
           NEW from \in 0..Len(bytes), \A i \in 1..from : bytes[i] # LF,
           NEW end \in BOOLEAN, end = TRUE => consumed + Len(bytes) = Len(text),
           NEW failure \in BOOLEAN, NEW p, p = Ready(r, bytes, from, end, failure)
    PROVE  /\ Cut(p, bytes) /\ (p # NoReply => Exact(kind[r], p))
           /\ p = NoReply /\ kind[r].mode = "Line" => \A i \in 1..Len(bytes) : bytes[i] # LF
<1>1. /\ Left \in Seq(Bytes) /\ bytes \in Seq(Bytes) /\ Starts(bytes, Left)
      /\ end = TRUE => bytes = Left
    BY LeftFacts
<1>2. kind[r].mode \in Modes /\ kind[r].limit \in Nat
    BY KindsAssumption
<1>3. p # NoReply /\ Cut(p, bytes) => p.at = consumed
    <2> SUFFICES ASSUME p # NoReply, Cut(p, bytes) PROVE p.at = consumed
        OBVIOUS
    <2>1. p = Reply(p.outcome, p.data)
        BY DEF Cut
    <2>2. Reply(p.outcome, p.data).at = consumed
        BY DEF Reply
    <2> QED BY <2>1, <2>2, Zenon
<1>4. ASSUME kind[r].mode = "Chunk", kind[r].limit = 0 PROVE p = Reply("Data", <<>>)
    BY <1>4 DEF Ready
<1>5. ASSUME ~(kind[r].mode = "Chunk" /\ kind[r].limit = 0), failure = TRUE PROVE p = Reply("System", <<>>)
    BY <1>5 DEF Ready
<1>6. ASSUME kind[r].mode = "Chunk", kind[r].limit # 0, failure = FALSE
      PROVE  p = ChunkReply(bytes, kind[r].limit, end)
    BY <1>6 DEF Ready
<1>7. ASSUME kind[r].mode = "Line", failure = FALSE PROVE p = LineReply(bytes, kind[r].limit, from, end)
    BY <1>7 DEF Ready
<1>8. ASSUME kind[r].mode = "All", failure = FALSE PROVE p = AllReply(bytes, kind[r].limit, end)
    BY <1>8 DEF Ready
<1> DEFINE limit == kind[r].limit
           mode == kind[r].mode
<1> HIDE DEF limit, mode
<1>9. mode \in {"Chunk", "Line", "All"} /\ limit \in Nat
    BY <1>2 DEF mode, limit, Modes
<1>10. ASSUME p.at = consumed, mode = "Line" => RightLine(p, Left, limit),
              mode = "Chunk" => p.outcome = "System" \/ RightChunk(p, limit, Left),
              mode = "All" => p.outcome = "System" \/ RightAll(p, limit, Left), Cut(p, bytes)
       PROVE  Exact(kind[r], p)
    <2>1. SubSeq(text, p.at + 1, Len(text)) = Left
        BY <1>10 DEF Left
    <2>2. p.data = SubSeq(Left, 1, Len(p.data))
        <3>1. /\ p.data \in Seq(Bytes) /\ Len(p.data) <= Len(bytes)
              /\ \A i \in 1..Len(p.data) : p.data[i] = bytes[i]
            BY <1>10 DEF Cut
        <3>2. Len(bytes) <= Len(Left) /\ \A i \in 1..Len(bytes) : bytes[i] = Left[i]
            BY <1>1 DEF Starts
        <3>3. Len(bytes) \in Nat /\ Len(Left) \in Nat /\ Len(p.data) \in Nat
            BY <1>1, <3>1
        <3>4. Len(p.data) <= Len(Left)
            BY <3>1, <3>2, <3>3
        <3>5. /\ SubSeq(Left, 1, Len(p.data)) \in Seq(Bytes) /\ Len(SubSeq(Left, 1, Len(p.data))) = Len(p.data)
              /\ \A i \in 1..Len(p.data) : SubSeq(Left, 1, Len(p.data))[i] = Left[i]
            BY <1>1, <3>3, <3>4, FirstBytes
        <3>6. \A i \in 1..Len(p.data) : i \in 1..Len(bytes)
            BY <3>1, <3>3
        <3>7. \A i \in 1..Len(p.data) : SubSeq(Left, 1, Len(p.data))[i] = p.data[i]
            BY <3>1, <3>2, <3>5, <3>6
        <3> QED BY <3>1, <3>5, <3>7, SeqEqual
    <2>3. mode = "Line" => /\ p.outcome = "Data" => Stripped(p.data) = FirstLine(Left) /\ Left # <<>>
                           /\ p.outcome \in {"Data", "TooLarge"} =>
                                (p.outcome = "TooLarge") = (Len(FirstLine(Left)) > limit)
                           /\ p.outcome = "End" => Left = <<>>
        BY <1>10 DEF RightLine
    <2>4. mode = "All" => /\ p.outcome = "Data" => p.data = Left
                          /\ p.outcome \in {"Data", "TooLarge"} => (p.outcome = "TooLarge") = (Len(Left) > limit)
                          /\ p.outcome = "End" => Left = <<>>
        BY <1>10 DEF RightAll
    <2>5. mode = "Chunk" => /\ p.outcome = "Data" => Len(p.data) <= limit /\ (p.data = <<>>) = (limit = 0)
                            /\ p.outcome = "End" => Left = <<>>
        BY <1>10 DEF RightChunk
    <2> QED BY <1>9, <2>1, <2>2, <2>3, <2>4, <2>5 DEF Exact, mode, limit
<1>11. CASE mode = "Chunk" /\ limit = 0
    <2>1. p = Reply("Data", <<>>)
        BY <1>4, <1>11 DEF mode, limit
    <2>2. Cut(p, bytes) /\ p # NoReply /\ p.outcome = "Data" /\ p.data = <<>>
        BY <1>1, <2>1, CutEmpty
    <2>3. RightChunk(p, limit, Left)
        <3>1. Len(<<>>) = 0
            OBVIOUS
        <3> QED BY <1>11, <2>2, <3>1 DEF RightChunk
    <2> QED BY <1>3, <1>10, <1>11, <2>2, <2>3 DEF mode
<1>12. CASE ~(mode = "Chunk" /\ limit = 0) /\ failure = TRUE
    <2>1. p = Reply("System", <<>>)
        BY <1>5, <1>12 DEF mode, limit
    <2>2. p.outcome = "System" /\ p.data = <<>> /\ p = Reply(p.outcome, p.data)
        BY <2>1 DEF Reply
    <2>3. <<>> \in Seq(Bytes) /\ Len(<<>>) = 0 /\ Len(bytes) \in Nat
        BY <1>1
    <2>4. Cut(p, bytes)
        BY <2>2, <2>3 DEF Cut
    <2>5. p # NoReply
        BY <2>2 DEF NoReply
    <2>6. Exact(kind[r], p)
        BY <2>2 DEF Exact
    <2> QED BY <2>4, <2>5, <2>6
<1>13. CASE mode = "Chunk" /\ limit # 0 /\ failure = FALSE
    <2>1. Cut(p, bytes) /\ RightChunk(p, limit, Left)
        BY <1>1, <1>6, <1>9, <1>13, ChunkExact DEF mode, limit
    <2> QED BY <1>3, <1>10, <1>13, <2>1 DEF mode
<1>14. CASE mode = "All" /\ failure = FALSE
    <2>1. Cut(p, bytes) /\ RightAll(p, limit, Left)
        BY <1>1, <1>8, <1>9, <1>14, AllExact DEF mode, limit
    <2> QED BY <1>3, <1>10, <1>14, <2>1 DEF mode
<1>15. CASE mode = "Line" /\ failure = FALSE
    <2>1. /\ Cut(p, bytes) /\ RightLine(p, Left, limit)
          /\ p = NoReply => \A i \in 1..Len(bytes) : bytes[i] # LF
        BY <1>1, <1>7, <1>9, <1>15, LineExact DEF mode, limit
    <2> QED BY <1>3, <1>10, <1>15, <2>1
<1> QED BY <1>9, <1>11, <1>12, <1>13, <1>14, <1>15

-----------------------------------------------------------------------------
(* The queue.                                                               *)

\* t is s without the entries in U, in the order of s.
Thinned(t, s, U) ==
    \E pos \in [DOMAIN t -> DOMAIN s] :
       /\ \A n \in DOMAIN t : t[n] = s[pos[n]] /\ s[pos[n]] \notin U
       /\ \A m, n \in DOMAIN t : m < n => pos[m] < pos[n]
       /\ \A i \in DOMAIN s : s[i] \notin U => \E n \in DOMAIN t : pos[n] = i

\* Kept is the queue without the cancelled reads, in the same order.
LEMMA KeptThins ==
    ASSUME queue \in Seq(Readers), NEW U
    PROVE  Kept(U) \in Seq(Readers) /\ Thinned(Kept(U), queue, U)
<1> DEFINE I == {i \in DOMAIN queue : queue[i] \notin U}
<1> SUFFICES ASSUME NEW s \in Seq(Readers), s = queue, NEW J \in SUBSET DOMAIN s, J = I
             PROVE  Kept(U) \in Seq(Readers) /\ Thinned(Kept(U), queue, U)
    OBVIOUS
<1> DEFINE before(i) == {j \in J : j <= i}
           m == Cardinality(J)
           rank == [i \in J |-> Cardinality(before(i))]
           nth == [n \in 1..m |-> CHOOSE i \in J : Cardinality({j \in J : j <= i}) = n]
<1>1. DOMAIN s = 1..Len(s) /\ Len(s) \in Nat /\ J \subseteq 1..Len(s)
  OBVIOUS
<1>2. IsFiniteSet(J) /\ m \in Nat
  <2>1. IsFiniteSet(1..Len(s))
    BY <1>1, FS_Interval
  <2> QED
    BY <1>1, <2>1, FS_Subset, FS_CardinalityType
<1>3. \A i \in J : IsFiniteSet(before(i)) /\ rank[i] \in 1..m
  <2> SUFFICES ASSUME NEW i \in J PROVE IsFiniteSet(before(i)) /\ rank[i] \in 1..m
    OBVIOUS
  <2>1. before(i) \in SUBSET J /\ i \in before(i)
    BY <1>1
  <2>2. IsFiniteSet(before(i)) /\ Cardinality(before(i)) <= m
    <3> HIDE DEF before
    <3> QED
      BY <1>2, <2>1, FS_Subset
  <2>3. Cardinality(before(i)) \in Nat /\ Cardinality(before(i)) # 0
    BY <2>1, <2>2, FS_CardinalityType, FS_EmptySet
  <2>4. rank[i] = Cardinality(before(i))
    OBVIOUS
  <2> HIDE DEF before, rank, m
  <2>5. rank[i] \in Nat /\ rank[i] # 0 /\ rank[i] <= m
    BY <2>2, <2>3, <2>4
  <2>6. rank[i] \in 1..m
    BY <1>2, <2>5
  <2> QED
    BY <2>2, <2>6
<1>i. \A i \in J : rank[i] \in Int
  <2>1. \A i \in J : rank[i] \in 1..m
    BY <1>3
  <2> HIDE DEF before, nth, rank, m
  <2> QED
    BY <1>2, <2>1
<1>4. \A i, k \in J : i < k => rank[i] < rank[k]
  <2> SUFFICES ASSUME NEW i \in J, NEW k \in J, i < k PROVE rank[i] < rank[k]
    OBVIOUS
  <2>1. i \in Int /\ k \in Int /\ \A j \in J : j \in Int
    BY <1>1
  <2>2. before(i) \in SUBSET before(k) /\ k \in before(k) /\ k \notin before(i)
    BY <2>1
  <2>3. before(i) # before(k)
    BY <2>2
  <2>4. Cardinality(before(i)) <= Cardinality(before(k))
        /\ Cardinality(before(i)) # Cardinality(before(k))
    BY <1>3, <2>2, <2>3, FS_Subset
  <2>5. rank[i] \in Int /\ rank[k] \in Int
    BY <1>i
  <2> QED
    BY <2>4, <2>5
<1>5. rank \in Surjection(J, 1..m)
  <2>1. rank \in [J -> 1..m]
    BY <1>3
  <2>2. \A i, k \in J : rank[i] = rank[k] => i = k
    <3> SUFFICES ASSUME NEW i \in J, NEW k \in J, rank[i] = rank[k], i # k PROVE FALSE
      OBVIOUS
    <3>1. i < k \/ k < i
      BY <1>1
    <3>2. rank[i] < rank[k] \/ rank[k] < rank[i]
      BY <1>4, <3>1
    <3>3. rank[i] \in Int /\ rank[k] \in Int
      BY <1>i
    <3> QED
      BY <3>2, <3>3
  <2> HIDE DEF rank
  <2>3. rank \in Injection(J, 1..m)
    BY <2>1, <2>2 DEF Injection, IsInjective
  <2>4. IsFiniteSet(1..m) /\ Cardinality(1..m) = m
    BY <1>2, FS_Interval
  <2>5. Cardinality(J) = Cardinality(1..m)
    BY <1>2, <2>4
  <2> QED
    BY <2>3, <2>4, <2>5, FS_Injection
<1>6. \A n \in 1..m : \E i \in J : rank[i] = n
  BY <1>5 DEF Surjection
<1>7. \A n \in 1..m : nth[n] \in J /\ rank[nth[n]] = n
  <2> SUFFICES ASSUME NEW n \in 1..m PROVE nth[n] \in J /\ rank[nth[n]] = n
    OBVIOUS
  <2>1. \E i \in J : Cardinality({j \in J : j <= i}) = n
    BY <1>6
  <2>2. nth[n] \in J /\ Cardinality({j \in J : j <= nth[n]}) = n
    BY <2>1
  <2> QED
    BY <2>2
<1>8. nth \in [1..m -> J] /\ \A i \in J : \E n \in 1..m : nth[n] = i
  <2>1. nth \in [1..m -> J]
    BY <1>7
  <2>2. \A i \in J : rank[i] \in 1..m /\ nth[rank[i]] = i
    <3> SUFFICES ASSUME NEW i \in J PROVE rank[i] \in 1..m /\ nth[rank[i]] = i
      OBVIOUS
    <3>1. rank[i] \in 1..m
      BY <1>3
    <3>2. nth[rank[i]] \in J /\ rank[nth[rank[i]]] = rank[i]
      BY <1>7, <3>1
    <3>3. nth[rank[i]] \in Int /\ i \in Int /\ rank[i] \in Int
      BY <1>1, <1>2, <3>1, <3>2
    <3>4. nth[rank[i]] < i \/ i < nth[rank[i]] \/ nth[rank[i]] = i
      BY <3>3
    <3> HIDE DEF nth, rank
    <3>5. ~(nth[rank[i]] < i) /\ ~(i < nth[rank[i]])
      BY <1>4, <3>2, <3>3
    <3> QED
      BY <3>1, <3>4, <3>5
  <2> QED
    BY <2>1, <2>2
<1>9. \A a, b \in 1..m : a < b => nth[a] < nth[b]
  <2> SUFFICES ASSUME NEW a \in 1..m, NEW b \in 1..m, a < b PROVE nth[a] < nth[b]
    OBVIOUS
  <2>1. nth[a] \in J /\ nth[b] \in J /\ rank[nth[a]] = a /\ rank[nth[b]] = b
    BY <1>7
  <2>2. nth[a] \in Int /\ nth[b] \in Int
    BY <1>1, <2>1
  <2> HIDE DEF nth, rank
  <2>3. ~(nth[b] < nth[a]) /\ nth[a] # nth[b]
    BY <1>2, <1>4, <2>1
  <2> QED
    BY <2>2, <2>3
<1> HIDE DEF rank, m, before, I
<1>10. Kept(U) = [n \in 1..m |-> s[nth[n]]]
  <2> DEFINE at(n) == CHOOSE i \in J : Cardinality({j \in J : j <= i}) = n
  <2>1. nth = [n \in 1..m |-> at(n)]
    OBVIOUS
  <2>2. Kept(U) = [n \in 1..Cardinality(I) |-> queue[CHOOSE i \in I : Cardinality({j \in I : j <= i}) = n]]
    BY DEF Kept, I
  <2>3. Kept(U) = [n \in 1..m |-> s[at(n)]]
    BY <2>2 DEF m
  <2> HIDE DEF at, nth
  <2> QED
    BY <2>1, <2>3
<1> HIDE DEF nth
<1>11. Kept(U) \in Seq(Readers)
  <2>1. \A n \in 1..m : s[nth[n]] \in Readers
    BY <1>8
  <2> QED
    BY <1>2, <1>10, <2>1
<1>12. DOMAIN Kept(U) = 1..m /\ \A n \in 1..m : Kept(U)[n] = s[nth[n]]
  BY <1>10
<1>13. \A i : i \in J <=> i \in DOMAIN s /\ s[i] \notin U
  BY DEF I
<1>14. nth \in [1..m -> DOMAIN s] /\ \A n \in 1..m : s[nth[n]] \notin U
  BY <1>8, <1>13
<1>15. \A i \in DOMAIN s : s[i] \notin U => \E n \in 1..m : nth[n] = i
  BY <1>8, <1>13
<1>16. Thinned(Kept(U), s, U)
  <2> DEFINE t == Kept(U)
  <2> HIDE DEF t
  <2>1. /\ nth \in [DOMAIN t -> DOMAIN s]
        /\ \A n \in DOMAIN t : t[n] = s[nth[n]] /\ s[nth[n]] \notin U
        /\ \A a, b \in DOMAIN t : a < b => nth[a] < nth[b]
        /\ \A i \in DOMAIN s : s[i] \notin U => \E n \in DOMAIN t : nth[n] = i
    BY <1>9, <1>12, <1>14, <1>15 DEF t
  <2>2. Thinned(t, s, U)
    BY <2>1 DEF Thinned
  <2> QED
    BY <2>2 DEF t
<1> QED
  BY <1>11, <1>16

-----------------------------------------------------------------------------
(* The steps of the input.                                                  *)

\* Nothing is asked of a read that was not answered.
LEMMA Undecided ==
    ASSUME NEW k, NEW p, p.outcome \notin {"Data", "TooLarge", "End"}
    PROVE  Exact(k, p)
  BY DEF Exact

\* What is exact remains so, and so do the replies.
LEMMA ExactStep ==
    ASSUME text' = text, NEW K, NEW R, kind' = K, reply' = R,
           \A r \in Readers : Exact(K[r], R[r])
    PROVE  InputExact'
<1>1. SUFFICES ASSUME NEW r \in Readers PROVE Exact(kind[r], reply[r])'
    BY DEF InputExact
<1>2. Exact(K[r], R[r])
    OBVIOUS
<1> QED BY <1>2 DEF Exact

\* A reply that stays takes the same places,
LEMMA TakenSame ==
    ASSUME text' = text, NEW r \in Readers, reply'[r] = reply[r]
    PROVE  Taken(r)' = Taken(r)
  BY DEF Taken

\* and reads keep the order in which they were registered.
LEMMA EarlierSame ==
    ASSUME arrivals' = arrivals, NEW q, NEW r
    PROVE  Earlier(q, r)' = Earlier(q, r)
  BY DEF Earlier

\* A reply without data takes no place.
LEMMA TakenNone ==
    ASSUME NEW r \in Readers, reply[r].data = <<>>, text \in Seq(Bytes), reply[r].at \in Nat
    PROVE  Taken(r) = {}
<1>1. Len(reply[r].data) = 0
    OBVIOUS
<1>2. ASSUME NEW i \in 1..Len(text) PROVE ~(reply[r].at < i /\ i <= reply[r].at + 0)
    OBVIOUS
<1> QED BY <1>1, <1>2 DEF Taken

\* The steps that leave the reads alone.
LEMMA SameReads ==
    ASSUME InputInv, UNCHANGED <<text, consumed, queue, arrivals, reply, kind, scanned, read, pending>>,
           given' \in Nat, Held'
    PROVE  InputInv'
<1>1. InputTyped'
    BY DEF InputInv, InputTyped
<1>e. \A q, r : Earlier(q, r)' = Earlier(q, r)
    BY EarlierSame
<1>2. Queueing'
    BY <1>e DEF InputInv, Queueing
<1>3. Progress'
    BY DEF InputInv, Progress
<1>4. \A r \in Readers : Exact(kind[r], reply[r])
    BY DEF InputInv, Given, InputExact
<1>5. InputExact'
    BY <1>4, ExactStep
<1>6. \A r \in Readers : Taken(r)' = Taken(r)
    BY TakenSame
<1>7. Given'
    BY <1>5, <1>6, <1>e DEF InputInv, Given
<1> QED BY <1>1, <1>2, <1>3, <1>7 DEF InputInv

\* Steps of the writes and of the driver leave the input alone.
LEMMA QuietInput == ASSUME InputInv, UNCHANGED inputVars PROVE InputInv'
<1>1. /\ UNCHANGED <<text, consumed, queue, arrivals, reply, kind, scanned, read, pending>>
      /\ UNCHANGED <<given, hangup, ended, failed, readAsked>>
    BY DEF inputVars, source, cursor, requests
<1>2. Held' /\ given' \in Nat
    BY <1>1 DEF InputInv, Held, InputTyped
<1> QED BY <1>1, <1>2, SameReads

\* Text that arrives, or its end, changes nothing that was held.
LEMMA OutsideInput == ASSUME InputInv, Supply \/ HangUp PROVE InputInv'
<1>1. UNCHANGED <<text, consumed, queue, arrivals, reply, kind, scanned, read, pending, ended, failed>>
    BY DEF Supply, HangUp, cursor, requests
<1>2. text \in Seq(Bytes) /\ given \in Nat /\ consumed \in Nat /\ Len(text) \in Nat
    BY DEF InputInv, InputTyped
<1>3. given' \in Nat /\ given <= given' /\ given' <= Len(text) /\ (hangup' => given' = Len(text))
    <2>1. CASE Supply
        <3>1. given' \in given + 1..Len(text) /\ hangup' = hangup /\ given < Len(text)
            BY <2>1 DEF Supply
        <3> QED BY <1>2, <3>1 DEF InputInv, Held
    <2>2. CASE HangUp
        BY <1>2, <2>2 DEF HangUp
    <2> QED BY <2>1, <2>2
<1>4. Len(pending) \in Nat
    BY DEF InputInv, Held, IsSegment
<1>5. Held'
    BY <1>1, <1>2, <1>3, <1>4 DEF InputInv, Held
<1> QED BY <1>1, <1>3, <1>5, SameReads

\* A request to cancel changes no read until the next poll.
LEMMA CancelInput == ASSUME InputInv, NEW r \in Readers, CancelRead(r) PROVE InputInv'
<1>1. /\ UNCHANGED <<text, consumed, queue, arrivals, reply, kind, scanned, read, pending>>
      /\ UNCHANGED <<given, hangup, ended, failed>>
    BY DEF CancelRead, source, cursor
<1>2. Held' /\ given' \in Nat
    BY <1>1 DEF InputInv, Held, InputTyped
<1> QED BY <1>1, <1>2, SameReads

\* A wait that fails only records the error.
LEMMA WaitInput == ASSUME InputInv, WaitInputFails PROVE InputInv'
<1>1. /\ UNCHANGED <<text, consumed, queue, arrivals, reply, kind, scanned, read, pending>>
      /\ UNCHANGED <<given, hangup, ended>> /\ failed' \in BOOLEAN
    BY DEF WaitInputFails, source, requests
<1>2. Held' /\ given' \in Nat
    BY <1>1 DEF InputInv, Held, InputTyped
<1> QED BY <1>1, <1>2, SameReads

\* A read that returns keeps its reply.
LEMMA ReturnInput == ASSUME InputInv, NEW r \in Readers, ReturnRead(r) PROVE InputInv'
<1>1. /\ UNCHANGED <<text, given, hangup, pending, consumed, ended, failed>>
      /\ UNCHANGED <<queue, kind, scanned, reply, arrivals>>
    BY DEF ReturnRead, source, cursor
<1>2. /\ read' \in [Readers -> States] /\ read[r] = "queued" /\ read'[r] = "returned"
      /\ \A q \in Readers : q # r => read'[q] = read[q]
    BY DEF ReturnRead, InputInv, InputTyped, States
<1>3. \A q \in Readers : /\ read'[q] = "parked" <=> read[q] = "parked"
                         /\ read'[q] = "cold" <=> read[q] = "cold"
    BY <1>2
<1>4. InputTyped'
    BY <1>1, <1>2 DEF InputInv, InputTyped
<1>5. Held'
    BY <1>1 DEF InputInv, Held
<1>e. \A p, q : Earlier(p, q)' = Earlier(p, q)
    BY <1>1, EarlierSame
<1>6. Queueing'
    BY <1>1, <1>3, <1>e DEF InputInv, Queueing
<1>7. Progress'
    BY <1>1, <1>3 DEF InputInv, Progress
<1>8. \A q \in Readers : Exact(kind[q], reply[q])
    BY DEF InputInv, Given, InputExact
<1>9. InputExact'
    BY <1>1, <1>8, ExactStep
<1>10. \A q \in Readers : Taken(q)' = Taken(q)
    BY <1>1, TakenSame
<1>11. Given'
    BY <1>1, <1>9, <1>10, <1>e DEF InputInv, Given
<1> QED BY <1>4, <1>5, <1>6, <1>7, <1>11 DEF InputInv

\* The fields of a reply.
LEMMA ReplyTyped ==
    ASSUME consumed \in Nat, NEW o \in Outcomes, NEW d \in Seq(Bytes)
    PROVE  /\ Reply(o, d) \in Replies
           /\ Reply(o, d).outcome = o /\ Reply(o, d).data = d /\ Reply(o, d).at = consumed
  BY DEF Reply, Replies

\* The fields of no reply.
LEMMA NoReplyTyped ==
    NoReply \in Replies /\ NoReply.outcome = "None" /\ NoReply.data = <<>> /\ NoReply.at = 0
<1>1. <<>> \in Seq(Bytes) /\ 0 \in Nat
    OBVIOUS
<1> QED BY <1>1 DEF NoReply, Replies, Outcomes

\* A refused or cancelled read takes nothing.
LEMMA EmptySegment ==
    ASSUME NEW t \in Seq(Bytes), NEW k \in Nat, k <= Len(t)
    PROVE  IsSegment(t, <<>>, k) /\ k + Len(<<>>) = k
<1>1. <<>> \in Seq(Bytes) /\ Len(<<>>) = 0 /\ \A i \in 1..0 : FALSE
    OBVIOUS
<1> QED BY <1>1 DEF IsSegment

\* At the start no read was registered and nothing was taken.
LEMMA InitInput == Init => InputInv
<1> SUFFICES ASSUME Init PROVE InputInv OBVIOUS
<1>1. PICK T : InputInit(T)
    BY DEF Init
<1>2. /\ given = 0 /\ hangup = FALSE /\ pending = <<>> /\ consumed = 0 /\ ended = FALSE
      /\ queue = <<>> /\ arrivals = <<>> /\ scanned = [r \in Readers |-> 0]
      /\ reply = [r \in Readers |-> NoReply] /\ kind = [r \in Readers |-> NoKind]
    BY <1>1 DEF InputInit
<1>f. failed \in BOOLEAN
    BY <1>1 DEF InputInit
<1>3. text \in Seq(Bytes) /\ Len(text) \in Nat
    <2>1. text \in Texts \/ text = <<>>
        BY <1>1 DEF InputInit
    <2>2. CASE text \in Texts
        BY <2>2, TextsAssumption
    <2>3. CASE text = <<>>
        BY <2>3
    <2>4. text \in Seq(Bytes)
        BY <2>1, <2>2, <2>3
    <2> QED BY <2>4
<1>4. read \in [Readers -> States] /\ \A r \in Readers : read[r] # "parked"
    BY <1>1 DEF InputInit, States
<1>5. /\ NoReply \in Replies /\ NoReply.outcome = "None" /\ NoReply.data = <<>> /\ NoReply.at = 0
      /\ \A r \in Readers : reply[r] = NoReply
    BY <1>2, NoReplyTyped
<1>6. <<>> \in Seq(Bytes) /\ Len(<<>>) = 0 /\ \A i \in 1..0 : FALSE
    OBVIOUS
<1>7. IsSegment(text, <<>>, 0)
    BY <1>3, <1>6 DEF IsSegment
<1>8. DOMAIN queue = {} /\ DOMAIN arrivals = {} /\ queue \in Seq(Readers) /\ arrivals \in Seq(Readers)
    BY <1>2
<1>9. ToSet(queue) = {} /\ ToSet(arrivals) = {}
    BY <1>8 DEF ToSet
<1>10. InputTyped
    BY <1>2, <1>3, <1>4, <1>5, <1>8 DEF InputTyped
<1>11. Held
    <2>1. given <= Len(text) /\ consumed + Len(pending) <= given
        BY <1>2, <1>3, <1>6
    <2>2. IsSegment(text, pending, consumed)
        BY <1>2, <1>7
    <2> QED BY <1>2, <1>f, <2>1, <2>2 DEF Held
<1>12. \A q, r : ~Earlier(q, r)
    BY <1>8 DEF Earlier
<1>13. Queueing
    BY <1>4, <1>8, <1>9, <1>12 DEF Queueing
<1>14. Progress
    BY <1>2, <1>4, <1>5, <1>8, <1>9 DEF Progress
<1>15. \A r \in Readers : Taken(r) = {}
    BY <1>3, <1>5, TakenNone
<1>16. InputExact
    BY <1>5, Undecided DEF InputExact
<1>17. \A i \in 1..consumed : FALSE
    BY <1>2
<1>18. Given
    BY <1>2, <1>5, <1>6, <1>7, <1>12, <1>15, <1>16, <1>17 DEF Given
<1> QED BY <1>10, <1>11, <1>13, <1>14, <1>18 DEF InputInv

\* A read of a task that was asked to cancel: refused, and never queued.
LEMMA StartCancelledInput == ASSUME InputInv, NEW r \in Readers, StartReadCancelled(r) PROVE InputInv'
<1>1. /\ UNCHANGED <<text, given, hangup, pending, consumed, ended, failed>>
      /\ UNCHANGED <<queue, kind, scanned, arrivals>>
    BY DEF StartReadCancelled, source, cursor
<1>t. /\ text \in Seq(Bytes) /\ consumed \in Nat /\ Len(text) \in Nat /\ consumed <= Len(text)
    <2>1. text \in Seq(Bytes) /\ consumed \in Nat /\ given \in Nat
        BY DEF InputInv, InputTyped
    <2>2. given <= Len(text) /\ consumed + Len(pending) <= given /\ Len(pending) \in Nat
        BY DEF InputInv, Held, IsSegment
    <2> QED BY <2>1, <2>2
<1>2. /\ read' \in [Readers -> States] /\ read[r] = "cold" /\ read'[r] = "returned"
      /\ \A q \in Readers : q # r => read'[q] = read[q]
    BY DEF StartReadCancelled, InputInv, InputTyped, States
<1> DEFINE c == Reply("Cancelled", <<>>)
<1>3. c \in Replies /\ c.outcome = "Cancelled" /\ c.data = <<>> /\ c.at = consumed
    <2>1. <<>> \in Seq(Bytes) /\ "Cancelled" \in Outcomes
        BY DEF Outcomes
    <2> QED BY <1>t, <2>1, ReplyTyped
<1>4. reply' = [reply EXCEPT ![r] = c]
    BY DEF StartReadCancelled
<1> HIDE DEF c
<1>5. /\ reply' \in [Readers -> Replies] /\ reply'[r] = c
      /\ \A q \in Readers : q # r => reply'[q] = reply[q]
    BY <1>3, <1>4 DEF InputInv, InputTyped
<1>6. InputTyped'
    BY <1>1, <1>2, <1>5 DEF InputInv, InputTyped
<1>7. Held'
    BY <1>1 DEF InputInv, Held
<1>8. \A q, p : Earlier(p, q)' = Earlier(p, q)
    BY <1>1, EarlierSame
<1>9. r \notin ToSet(arrivals) /\ ~(read[r] = "parked")
    BY <1>2 DEF InputInv, Progress
<1>10. Queueing'
    BY <1>1, <1>2, <1>8 DEF InputInv, Queueing
<1>11. Progress'
    <2>1. ASSUME NEW q \in Readers
          PROVE  /\ read'[q] = "cold" => reply'[q] = NoReply /\ scanned[q] = 0 /\ q \notin ToSet(arrivals)
                 /\ read'[q] = "parked" => reply'[q] = NoReply /\ kind[q] \in Kinds /\ q \in ToSet(arrivals)
                 /\ q \in ToSet(arrivals) /\ reply'[q].outcome = "None" => read'[q] = "parked"
        BY <1>2, <1>5, <1>9 DEF InputInv, Progress
    <2> QED BY <1>1, <2>1 DEF InputInv, Progress
<1>12. \A q \in Readers : Exact(kind[q], reply'[q])
    <2>1. Exact(kind[r], c)
        BY <1>3, Undecided
    <2> QED BY <1>5, <2>1 DEF InputInv, Given, InputExact
<1>13. InputExact'
    BY <1>1, <1>12, ExactStep
<1>14. Taken(r)' = {} /\ Taken(r) = {}
    <2>1. reply[r].data = <<>> /\ reply[r].at \in Nat
        BY <1>2, NoReplyTyped DEF InputInv, Progress
    <2>2. Taken(r) = {}
        BY <1>t, <2>1, TakenNone
    <2>3. text' = text /\ reply'[r].data = <<>> /\ reply'[r].at = consumed /\ Len(<<>>) = 0
        BY <1>1, <1>3, <1>5
    <2>4. \A i \in 1..Len(text) : ~(consumed < i /\ i <= consumed + 0)
        BY <1>t
    <2>5. Taken(r)' = {}
        BY <2>3, <2>4 DEF Taken
    <2> QED BY <2>2, <2>5
<1>15. \A q \in Readers : Taken(q)' = Taken(q)
    <2>1. \A q \in Readers : q # r => Taken(q)' = Taken(q)
        BY <1>1, <1>5, TakenSame
    <2> QED BY <1>14, <2>1
<1>16. ASSUME NEW q \in Readers
       PROVE  /\ IsSegment(text, reply'[q].data, reply'[q].at)
              /\ reply'[q].at + Len(reply'[q].data) <= consumed
              /\ reply'[q].outcome # "Data" => reply'[q].data = <<>>
    <2>1. CASE q # r
        BY <1>5, <2>1 DEF InputInv, Given
    <2>2. CASE q = r
        <3>1. IsSegment(text, <<>>, consumed) /\ consumed + Len(<<>>) = consumed /\ consumed <= consumed
            BY <1>t, EmptySegment
        <3> QED BY <1>3, <1>5, <2>2, <3>1
    <2> QED BY <2>1, <2>2
<1>17. ASSUME NEW p \in Readers, NEW q \in Readers, Earlier(p, q) PROVE p # r /\ q # r
    <2>1. ToSet(arrivals) = {arrivals[i] : i \in DOMAIN arrivals}
        BY DEF ToSet
    <2> QED BY <1>9, <1>17, <2>1 DEF Earlier
<1>18. ASSUME NEW p \in Readers, NEW q \in Readers, Earlier(p, q)
       PROVE  /\ \A m \in Taken(p), n \in Taken(q) : m < n
              /\ reply'[q].outcome \notin {"None", "Cancelled"} => reply'[p].outcome # "None"
    BY <1>5, <1>17, <1>18 DEF InputInv, Given
<1>19. /\ \A i \in 1..consumed : \E q \in Readers : i \in Taken(q)
       /\ \A p, q \in Readers : p # q => Taken(p) \cap Taken(q) = {}
    BY DEF InputInv, Given
<1>20. Given'
    BY <1>1, <1>8, <1>13, <1>15, <1>16, <1>18, <1>19 DEF Given
<1> QED BY <1>6, <1>7, <1>10, <1>11, <1>20 DEF InputInv

\* A read joins the end of the queue, after all that came before it.
LEMMA StartInput == ASSUME InputInv, NEW r \in Readers, NEW k \in Kinds, StartRead(r, k) PROVE InputInv'
<1>1. UNCHANGED <<text, given, hangup, pending, consumed, ended, failed, scanned, reply>>
    BY DEF StartRead, source, cursor
<1>t. text \in Seq(Bytes) /\ queue \in Seq(Readers) /\ arrivals \in Seq(Readers)
    BY DEF InputInv, InputTyped
<1>2. /\ read' \in [Readers -> States] /\ read[r] = "cold" /\ read'[r] = "parked"
      /\ \A q \in Readers : q # r => read'[q] = read[q]
    BY DEF StartRead, InputInv, InputTyped, States
<1>3. /\ kind' \in [Readers -> Kinds \cup {NoKind}] /\ kind'[r] = k
      /\ \A q \in Readers : q # r => kind'[q] = kind[q]
    BY DEF StartRead, InputInv, InputTyped
<1>4. reply[r] = NoReply /\ scanned[r] = 0 /\ r \notin ToSet(arrivals)
    BY <1>2 DEF InputInv, Progress
<1>5. r \notin ToSet(queue)
    BY <1>2 DEF InputInv, Queueing
<1> DEFINE m == Len(queue)
           l == Len(arrivals)
<1>6. /\ m \in Nat /\ queue' \in Seq(Readers) /\ DOMAIN queue = 1..m /\ DOMAIN queue' = 1..(m + 1)
      /\ queue'[m + 1] = r /\ \A i \in 1..m : queue'[i] = queue[i]
    BY <1>t DEF StartRead
<1>7. /\ l \in Nat /\ arrivals' \in Seq(Readers) /\ DOMAIN arrivals = 1..l /\ DOMAIN arrivals' = 1..(l + 1)
      /\ arrivals'[l + 1] = r /\ \A i \in 1..l : arrivals'[i] = arrivals[i]
    BY <1>t DEF StartRead
<1> HIDE DEF m, l
<1>8. (\A i \in 1..m : queue[i] # r) /\ \A i \in 1..l : arrivals[i] # r
    BY <1>4, <1>5, <1>6, <1>7 DEF ToSet
<1>9. ToSet(queue') = ToSet(queue) \cup {r} /\ ToSet(arrivals') = ToSet(arrivals) \cup {r}
    <2>1. \A i \in 1..(m + 1) : i \in 1..m \/ i = m + 1
        BY <1>6
    <2>2. \A i \in 1..(l + 1) : i \in 1..l \/ i = l + 1
        BY <1>7
    <2>3. m + 1 \in 1..(m + 1) /\ l + 1 \in 1..(l + 1) /\ 1..m \subseteq 1..(m + 1) /\ 1..l \subseteq 1..(l + 1)
        BY <1>6, <1>7
    <2>4. ToSet(queue') = ToSet(queue) \cup {r}
        BY <1>6, <2>1, <2>3 DEF ToSet
    <2>5. ToSet(arrivals') = ToSet(arrivals) \cup {r}
        BY <1>7, <2>2, <2>3 DEF ToSet
    <2> QED BY <2>4, <2>5
<1>10. ASSUME NEW p \in Readers, NEW q \in Readers, Earlier(p, q)' PROVE p # r /\ (q = r \/ Earlier(p, q))
    <2>1. PICK i \in 1..(l + 1), j \in 1..(l + 1) : i < j /\ arrivals'[i] = p /\ arrivals'[j] = q
        BY <1>7, <1>10 DEF Earlier
    <2>2. i \in 1..l /\ (j \in 1..l \/ j = l + 1)
        BY <1>7, <2>1
    <2>3. arrivals[i] = p /\ (q = r \/ (j \in 1..l /\ arrivals[j] = q))
        BY <1>7, <2>1, <2>2
    <2> QED BY <1>7, <1>8, <2>1, <2>2, <2>3 DEF Earlier
<1>11. InputTyped'
    BY <1>1, <1>2, <1>3, <1>6, <1>7 DEF InputInv, InputTyped
<1>12. Held'
    BY <1>1 DEF InputInv, Held
<1>13. Queueing'
    <2>1. \A i, j \in 1..(m + 1) : queue'[i] = queue'[j] => i = j
        <3>1. \A i, j \in 1..m : queue[i] = queue[j] => i = j
            BY <1>6 DEF InputInv, Queueing
        <3>2. \A i \in 1..(m + 1) : i \in 1..m \/ i = m + 1
            BY <1>6
        <3> QED BY <1>6, <1>8, <3>1, <3>2
    <2>2. \A i, j \in 1..(l + 1) : arrivals'[i] = arrivals'[j] => i = j
        <3>1. \A i, j \in 1..l : arrivals[i] = arrivals[j] => i = j
            BY <1>7 DEF InputInv, Queueing
        <3>2. \A i \in 1..(l + 1) : i \in 1..l \/ i = l + 1
            BY <1>7
        <3> QED BY <1>7, <1>8, <3>1, <3>2
    <2>3. ASSUME NEW p \in Readers, NEW q \in Readers, Earlier(p, q)',
                 NEW i \in 1..(m + 1), NEW j \in 1..(m + 1), queue'[i] = p, queue'[j] = q
          PROVE  i < j
        <3>1. p # r /\ i \in 1..m /\ queue[i] = p
            BY <1>6, <1>10, <2>3
        <3>2. CASE j = m + 1
            BY <1>6, <3>1, <3>2
        <3>3. CASE j # m + 1
            <4>1. j \in 1..m /\ queue[j] = q /\ q # r
                BY <1>6, <1>8, <2>3, <3>3
            <4>2. Earlier(p, q)
                BY <1>10, <2>3, <4>1
            <4> QED BY <1>6, <3>1, <4>1, <4>2 DEF InputInv, Queueing
        <3> QED BY <3>2, <3>3
    <2>4. \A q \in Readers : q \in ToSet(queue') <=> read'[q] = "parked"
        BY <1>2, <1>9 DEF InputInv, Queueing
    <2> QED BY <1>6, <1>7, <2>1, <2>2, <2>3, <2>4 DEF Queueing
<1>14. Progress'
    <2>1. ASSUME NEW q \in Readers
          PROVE  /\ read'[q] = "cold" => reply[q] = NoReply /\ scanned[q] = 0 /\ q \notin ToSet(arrivals')
                 /\ read'[q] = "parked" => reply[q] = NoReply /\ kind'[q] \in Kinds /\ q \in ToSet(arrivals')
                 /\ q \in ToSet(arrivals') /\ reply[q].outcome = "None" => read'[q] = "parked"
        BY <1>2, <1>3, <1>4, <1>9 DEF InputInv, Progress
    <2>2. ASSUME NEW n \in 1..(m + 1)
          PROVE  \/ scanned[queue'[n]] = 0
                 \/ /\ n = 1 /\ scanned[queue'[n]] <= Len(pending)
                    /\ \A i \in 1..scanned[queue'[n]] : pending[i] # LF
        <3>1. CASE n = m + 1
            BY <1>4, <1>6, <3>1
        <3>2. CASE n # m + 1
            <4>1. n \in 1..m /\ queue'[n] = queue[n]
                BY <1>6, <3>2
            <4> QED BY <1>6, <4>1 DEF InputInv, Progress
        <3> QED BY <3>1, <3>2
    <2> QED BY <1>1, <1>6, <2>1, <2>2 DEF Progress
<1>15. \A q \in Readers : Exact(kind'[q], reply[q])
    <2>1. Exact(k, NoReply)
        BY NoReplyTyped, Undecided
    <2> QED BY <1>3, <1>4, <2>1 DEF InputInv, Given, InputExact
<1>16. InputExact'
    BY <1>1, <1>15, ExactStep
<1>17. \A q \in Readers : Taken(q)' = Taken(q)
    BY <1>1, TakenSame
<1>18. Taken(r) = {} /\ reply[r].outcome = "None"
    BY <1>t, <1>4, NoReplyTyped, TakenNone
<1>19. ASSUME NEW p \in Readers, NEW q \in Readers, Earlier(p, q)'
       PROVE  /\ \A i \in Taken(p), j \in Taken(q) : i < j
              /\ reply[q].outcome \notin {"None", "Cancelled"} => reply[p].outcome # "None"
    <2>1. CASE q = r
        BY <1>18, <2>1
    <2>2. CASE Earlier(p, q)
        BY <2>2 DEF InputInv, Given
    <2> QED BY <1>10, <1>19, <2>1, <2>2
<1>20. Given'
    BY <1>1, <1>16, <1>17, <1>19 DEF InputInv, Given
<1> QED BY <1>11, <1>12, <1>13, <1>14, <1>20 DEF InputInv

\* A poll takes reads from the queue: the cancelled ones, and the first of the
\* others if it has an answer, which is what follows the consumed bytes.
LEMMA AnswerInput ==
    ASSUME InputInv, UNCHANGED <<text, kind, arrivals>>,
           NEW S \in SUBSET ToSet(queue), NEW h \in SUBSET ToSet(queue), NEW answer, Finish(S, h, answer),
           NEW t \in Seq(Readers), queue' = t, Thinned(t, queue, S \cup h),
           NEW c \in Nat, consumed' = c, consumed <= c, h = {} => c = consumed,
           \A x \in h : /\ answer \in Replies /\ IsSegment(text, answer.data, consumed)
                        /\ answer.at = consumed /\ c = consumed + Len(answer.data)
                        /\ answer.outcome \notin {"None", "Cancelled"}
                        /\ answer.outcome # "Data" => answer.data = <<>>
                        /\ Exact(kind[x], answer)
                        /\ \A m, n \in DOMAIN queue : queue[m] = x /\ n < m => queue[n] \in S,
           \A x, y \in h : x = y
    PROVE  /\ read' \in [Readers -> States] /\ reply' \in [Readers -> Replies]
           /\ \A r \in Readers :
                /\ read'[r] = "cold" => reply'[r] = NoReply /\ read[r] = "cold"
                /\ read'[r] = "parked" => reply'[r] = NoReply /\ read[r] = "parked"
                /\ r \in ToSet(arrivals) /\ reply'[r].outcome = "None" => read'[r] = "parked"
           /\ Queueing' /\ Given'
<1> DEFINE U == S \cup h
           x0 == Reply("Cancelled", <<>>)
<1>1. /\ text \in Seq(Bytes) /\ Len(text) \in Nat /\ consumed \in Nat /\ consumed <= Len(text)
      /\ queue \in Seq(Readers) /\ ToSet(queue) \subseteq Readers
    <2>1. text \in Seq(Bytes) /\ consumed \in Nat /\ given \in Nat /\ queue \in Seq(Readers)
        BY DEF InputInv, InputTyped
    <2>2. given <= Len(text) /\ consumed + Len(pending) <= given /\ Len(pending) \in Nat
        BY DEF InputInv, Held, IsSegment
    <2>3. ToSet(queue) \subseteq Readers
        BY <2>1 DEF ToSet
    <2> QED BY <2>1, <2>2, <2>3
<1>2. x0 \in Replies /\ x0.outcome = "Cancelled" /\ x0.data = <<>> /\ x0.at = consumed
    <2>1. <<>> \in Seq(Bytes) /\ "Cancelled" \in Outcomes
        BY DEF Outcomes
    <2> QED BY <1>1, <2>1, ReplyTyped
<1>3. /\ \A r \in Readers : read'[r] = (IF r \in U THEN "queued" ELSE read[r])
      /\ \A r \in Readers : reply'[r] = (IF r \in h THEN answer ELSE IF r \in S THEN x0 ELSE reply[r])
      /\ DOMAIN read' = Readers /\ DOMAIN reply' = Readers
      /\ read' = [r \in Readers |-> read'[r]] /\ reply' = [r \in Readers |-> reply'[r]]
    BY DEF Finish
<1> HIDE DEF x0
<1>4. \A r \in U : /\ r \in Readers /\ read[r] = "parked" /\ reply[r] = NoReply
                   /\ reply[r].outcome = "None" /\ reply[r].data = <<>> /\ reply[r].at = 0
    BY <1>1, NoReplyTyped DEF InputInv, Queueing, Progress
<1>5. read' \in [Readers -> States] /\ reply' \in [Readers -> Replies]
    <2>1. \A r \in Readers : read'[r] \in States /\ reply'[r] \in Replies
        BY <1>2, <1>3 DEF InputInv, InputTyped, States
    <2> QED BY <1>3, <2>1
<1>6. /\ \A r \in Readers : r \notin U => read'[r] = read[r] /\ reply'[r] = reply[r]
      /\ \A r \in U : read'[r] = "queued" /\ reply'[r].outcome # "None"
      /\ \A r \in U : r \notin h => reply'[r] = x0
      /\ \A r \in h : reply'[r] = answer
    BY <1>2, <1>3, <1>4
<1>7. ASSUME NEW r \in Readers
      PROVE  /\ read'[r] = "cold" => reply'[r] = NoReply /\ read[r] = "cold"
             /\ read'[r] = "parked" => reply'[r] = NoReply /\ read[r] = "parked"
             /\ r \in ToSet(arrivals) /\ reply'[r].outcome = "None" => read'[r] = "parked"
    BY <1>6 DEF InputInv, Progress
<1>8. \A p, q : Earlier(p, q)' = Earlier(p, q)
    BY EarlierSame
<1>9. Queueing'
    <2>1. PICK pos \in [DOMAIN t -> DOMAIN queue] :
            /\ \A n \in DOMAIN t : t[n] = queue[pos[n]] /\ queue[pos[n]] \notin U
            /\ \A m, n \in DOMAIN t : m < n => pos[m] < pos[n]
            /\ \A i \in DOMAIN queue : queue[i] \notin U => \E n \in DOMAIN t : pos[n] = i
        BY DEF Thinned
    <2>2. /\ \A n \in DOMAIN t : n \in Int /\ pos[n] \in DOMAIN queue /\ pos[n] \in Int
        BY <1>1, <2>1
    <2>3. \A m, n \in DOMAIN t : pos[m] < pos[n] => m < n
        <3> SUFFICES ASSUME NEW m \in DOMAIN t, NEW n \in DOMAIN t, pos[m] < pos[n], ~(m < n) PROVE FALSE
            OBVIOUS
        <3>1. m = n \/ n < m
            BY <2>2
        <3>2. n < m => pos[n] < pos[m]
            BY <2>1
        <3> QED BY <2>2, <3>1, <3>2
    <2>4. \A m, n \in DOMAIN t : pos[m] = pos[n] => m = n
        <3> SUFFICES ASSUME NEW m \in DOMAIN t, NEW n \in DOMAIN t, pos[m] = pos[n], m # n PROVE FALSE
            OBVIOUS
        <3>1. m < n \/ n < m
            BY <2>2
        <3>2. pos[m] < pos[n] \/ pos[n] < pos[m]
            BY <2>1, <3>1
        <3> QED BY <2>2, <3>2
    <2>5. \A m, n \in DOMAIN t : t[m] = t[n] => m = n
        BY <2>1, <2>2, <2>4 DEF InputInv, Queueing
    <2>6. ASSUME NEW p \in Readers, NEW q \in Readers, Earlier(p, q), NEW m \in DOMAIN t, NEW n \in DOMAIN t,
                 t[m] = p, t[n] = q
          PROVE  m < n
        <3>1. queue[pos[m]] = p /\ queue[pos[n]] = q
            BY <2>1, <2>6
        <3>2. pos[m] < pos[n]
            BY <2>2, <2>6, <3>1 DEF InputInv, Queueing
        <3> QED BY <2>3, <3>2
    <2>7. ToSet(t) = ToSet(queue) \ U
        BY <2>1, <2>2 DEF ToSet
    <2>8. \A r \in Readers : r \in ToSet(t) <=> read'[r] = "parked"
        BY <1>6, <2>7 DEF InputInv, Queueing
    <2>9. \A i, j \in DOMAIN arrivals : arrivals[i] = arrivals[j] => i = j
        BY DEF InputInv, Queueing
    <2> QED BY <1>8, <2>5, <2>6, <2>8, <2>9 DEF Queueing
<1> HIDE DEF U
<1>10. ASSUME NEW r \in Readers
       PROVE  /\ IsSegment(text, reply'[r].data, reply'[r].at)
              /\ reply'[r].at + Len(reply'[r].data) <= c
              /\ reply'[r].outcome # "Data" => reply'[r].data = <<>>
    <2>1. CASE r \notin U
        <3>1. /\ IsSegment(text, reply[r].data, reply[r].at)
              /\ reply[r].at + Len(reply[r].data) <= consumed
              /\ reply[r].outcome # "Data" => reply[r].data = <<>>
            BY DEF InputInv, Given
        <3>2. reply[r].at \in Nat /\ Len(reply[r].data) \in Nat
            BY <3>1 DEF InputInv, InputTyped, Replies, IsSegment
        <3> QED BY <1>1, <1>6, <2>1, <3>1, <3>2
    <2>2. CASE r \in U /\ r \notin h
        <3>1. IsSegment(text, <<>>, consumed) /\ consumed + Len(<<>>) = consumed
            BY <1>1, EmptySegment
        <3> QED BY <1>2, <1>6, <2>2, <3>1
    <2>3. CASE r \in h
        <3>1. reply'[r] = answer /\ c <= c
            BY <1>6, <2>3
        <3> QED BY <2>3, <3>1
    <2> QED BY <2>1, <2>2, <2>3
<1>11. \A r \in Readers : Exact(kind[r], reply'[r])
    <2> SUFFICES ASSUME NEW r \in Readers PROVE Exact(kind[r], reply'[r])
        OBVIOUS
    <2>1. CASE r \notin U
        BY <1>6, <2>1 DEF InputInv, Given, InputExact
    <2>2. CASE r \in U /\ r \notin h
        <3>1. Exact(kind[r], x0)
            BY <1>2, Undecided
        <3> QED BY <1>6, <2>2, <3>1
    <2>3. CASE r \in h
        BY <1>6, <2>3
    <2> QED BY <2>1, <2>2, <2>3
<1>12. InputExact'
    BY <1>11, ExactStep
<1>13. ASSUME NEW r \in Readers, r \notin h PROVE Taken(r)' = Taken(r)
    <2>1. CASE r \notin U
        BY <1>6, <2>1, TakenSame
    <2>2. CASE r \in U
        <3>1. Taken(r) = {}
            BY <1>1, <1>4, <2>2, TakenNone
        <3>2. text' = text /\ reply'[r].data = <<>> /\ reply'[r].at = consumed /\ Len(<<>>) = 0
            BY <1>2, <1>6, <1>13, <2>2
        <3>3. \A i \in 1..Len(text) : ~(consumed < i /\ i <= consumed + 0)
            BY <1>1
        <3> QED BY <3>1, <3>2, <3>3 DEF Taken
    <2> QED BY <2>1, <2>2
<1>14. ASSUME NEW r \in h
       PROVE  Taken(r) = {} /\ r \in Readers /\ \A i : i \in Taken(r)' <=> i \in 1..Len(text) /\ consumed < i /\ i <= c
    <2>0. r \in U /\ r \in Readers
        BY <1>1 DEF U
    <2>1. Taken(r) = {}
        BY <1>1, <1>4, <2>0, TakenNone
    <2>2. text' = text /\ reply'[r].at = consumed /\ reply'[r].at + Len(reply'[r].data) = c
        BY <1>6
    <2> QED BY <2>0, <2>1, <2>2 DEF Taken
<1>15. \A r \in Readers : \A i \in Taken(r) : i \in Int /\ i <= consumed /\ i >= 1
    <2> SUFFICES ASSUME NEW r \in Readers, NEW i \in Taken(r) PROVE i \in Int /\ i <= consumed /\ i >= 1
        OBVIOUS
    <2>1. i \in 1..Len(text) /\ i <= reply[r].at + Len(reply[r].data)
        BY DEF Taken
    <2>2. /\ reply[r].at + Len(reply[r].data) <= consumed /\ IsSegment(text, reply[r].data, reply[r].at)
          /\ reply[r].at \in Nat
        BY DEF InputInv, Given, InputTyped, Replies
    <2>3. Len(reply[r].data) \in Nat
        BY <2>2 DEF IsSegment
    <2> QED BY <1>1, <2>1, <2>2, <2>3
<1>16. c <= Len(text)
    <2>1. CASE h = {}
        BY <1>1, <2>1
    <2>2. CASE h # {}
        <3>1. c = consumed + Len(answer.data) /\ IsSegment(text, answer.data, consumed)
            BY <2>2
        <3> QED BY <3>1 DEF IsSegment
    <2> QED BY <2>1, <2>2
<1>17. ASSUME NEW i \in 1..c PROVE \E r \in Readers : i \in Taken(r)'
    <2>1. CASE i <= consumed
        <3>1. i \in 1..consumed
            BY <1>1, <2>1
        <3>2. PICK r \in Readers : i \in Taken(r)
            BY <3>1 DEF InputInv, Given
        <3>3. r \notin h
            BY <1>14, <3>2
        <3> QED BY <1>13, <3>2, <3>3
    <2>2. CASE consumed < i
        <3>1. h # {}
            BY <1>1, <2>2
        <3>2. PICK r \in h : TRUE
            BY <3>1
        <3>3. i \in 1..Len(text) /\ i <= c
            BY <1>1, <1>16
        <3> QED BY <1>14, <2>2, <3>2, <3>3
    <2> QED BY <1>1, <2>1, <2>2
<1>18. ASSUME NEW p \in Readers, NEW q \in Readers, p # q PROVE Taken(p)' \cap Taken(q)' = {}
    <2>1. CASE p \notin h /\ q \notin h
        BY <1>13, <1>18, <2>1 DEF InputInv, Given
    <2>2. CASE p \in h /\ q \notin h
        <3> SUFFICES ASSUME NEW i, i \in Taken(p)', i \in Taken(q)' PROVE FALSE
            OBVIOUS
        <3>1. consumed < i /\ i \in Taken(q)
            BY <1>13, <1>14, <2>2
        <3> QED BY <1>1, <1>15, <3>1
    <2>3. CASE p \notin h /\ q \in h
        <3> SUFFICES ASSUME NEW i, i \in Taken(p)', i \in Taken(q)' PROVE FALSE
            OBVIOUS
        <3>1. consumed < i /\ i \in Taken(p)
            BY <1>13, <1>14, <2>3
        <3> QED BY <1>1, <1>15, <3>1
    <2> QED BY <1>18, <2>1, <2>2, <2>3
<1>19. ASSUME NEW p \in Readers, NEW q \in Readers, Earlier(p, q)
       PROVE  /\ \A m \in Taken(p)', n \in Taken(q)' : m < n
              /\ reply'[q].outcome \notin {"None", "Cancelled"} => reply'[p].outcome # "None"
    <2>0. /\ \A m \in Taken(p), n \in Taken(q) : m < n
          /\ reply[q].outcome \notin {"None", "Cancelled"} => reply[p].outcome # "None"
        BY <1>19 DEF InputInv, Given
    <2>1. reply[p].outcome # "None" => reply'[p] = reply[p]
        BY <1>4, <1>6
    <2>2. CASE q \notin h
        <3>1. reply'[q].outcome \notin {"None", "Cancelled"} => reply'[q] = reply[q]
            BY <1>2, <1>6, <2>2
        <3>2. CASE p \notin h
            BY <1>13, <2>0, <2>1, <2>2, <3>1, <3>2
        <3>3. CASE p \in h
            <4>1. reply[p].outcome = "None" /\ reply'[p].outcome # "None"
                BY <1>4, <1>6, <3>3 DEF U
            <4>2. reply[q].outcome \in {"None", "Cancelled"}
                BY <2>0, <4>1
            <4>3. reply[q].data = <<>> /\ reply[q].at \in Nat
                BY <4>2 DEF InputInv, Given, InputTyped, Replies
            <4>4. Taken(q)' = {}
                BY <1>1, <1>13, <2>2, <4>3, TakenNone
            <4> QED BY <4>1, <4>4
        <3> QED BY <3>2, <3>3
    <2>3. CASE q \in h
        <3>1. p # q
            <4>1. \A i, j \in DOMAIN arrivals : arrivals[i] = arrivals[j] => i = j
                BY DEF InputInv, Queueing
            <4>2. DOMAIN arrivals = 1..Len(arrivals) /\ Len(arrivals) \in Nat
                BY DEF InputInv, InputTyped
            <4>3. \A i, j \in DOMAIN arrivals : i < j => i # j
                BY <4>2
            <4> QED BY <1>19, <4>1, <4>3 DEF Earlier
        <3>2. p \notin h
            BY <2>3, <3>1
        <3>3. \A m \in Taken(p)', n \in Taken(q)' : m < n
            <4> SUFFICES ASSUME NEW m \in Taken(p)', NEW n \in Taken(q)' PROVE m < n
                OBVIOUS
            <4>1. m \in Int /\ m <= consumed
                BY <1>13, <1>15, <3>2
            <4>2. n \in 1..Len(text) /\ consumed < n
                BY <1>14, <2>3
            <4> QED BY <1>1, <4>1, <4>2
        <3>4. reply'[p].outcome # "None"
            <4> SUFFICES ASSUME reply'[p].outcome = "None" PROVE FALSE
                OBVIOUS
            <4>1. p \notin U /\ reply[p].outcome = "None" /\ p \in ToSet(arrivals)
                <5>1. p \notin U
                    BY <1>6
                <5>2. p \in ToSet(arrivals)
                    BY <1>19 DEF Earlier, ToSet
                <5> QED BY <1>6, <5>1, <5>2
            <4>2. p \in ToSet(queue) /\ q \in ToSet(queue)
                BY <2>3, <4>1 DEF InputInv, Progress, Queueing
            <4>3. PICK m \in DOMAIN queue, n \in DOMAIN queue : queue[m] = p /\ queue[n] = q
                BY <4>2 DEF ToSet
            <4>4. m < n
                BY <1>19, <4>3 DEF InputInv, Queueing
            <4>5. p \in S
                BY <2>3, <4>3, <4>4
            <4> QED BY <4>1, <4>5 DEF U
        <3> QED BY <3>3, <3>4
    <2> QED BY <2>2, <2>3
<1>20. Given'
    BY <1>8, <1>10, <1>12, <1>17, <1>18, <1>19 DEF Given
<1> QED BY <1>5, <1>7, <1>9, <1>20

\* Everything that was parked has left the queue.
LEMMA CancelledInput == ASSUME InputInv, PollCancelled PROVE InputInv'
<1>1. UNCHANGED <<text, given, hangup, pending, consumed, ended, failed, kind, scanned, readAsked, arrivals>>
    BY DEF PollCancelled, source, cursor
<1>2. queue' = <<>> /\ Finish(ToSet(queue), {}, NoReply)
    BY DEF PollCancelled
<1>3. text \in Seq(Bytes) /\ consumed \in Nat /\ queue \in Seq(Readers)
    BY DEF InputInv, InputTyped
<1>4. <<>> \in Seq(Readers) /\ Thinned(<<>>, queue, ToSet(queue) \cup {})
    <2> DEFINE pos == [n \in {} |-> n]
               t == <<>>
    <2>1. DOMAIN t = {} /\ t \in Seq(Readers)
        OBVIOUS
    <2>2. \A i \in DOMAIN queue : queue[i] \in ToSet(queue)
        BY DEF ToSet
    <2>3. pos \in [{} -> DOMAIN queue]
        OBVIOUS
    <2> HIDE DEF pos, t
    <2>4. \E f \in [DOMAIN t -> DOMAIN queue] :
             /\ \A n \in DOMAIN t : t[n] = queue[f[n]] /\ queue[f[n]] \notin ToSet(queue) \cup {}
             /\ \A m, n \in DOMAIN t : m < n => f[m] < f[n]
             /\ \A i \in DOMAIN queue : queue[i] \notin ToSet(queue) \cup {} => \E n \in DOMAIN t : f[n] = i
        BY <2>1, <2>2, <2>3
    <2>5. Thinned(t, queue, ToSet(queue) \cup {})
        BY <2>4 DEF Thinned
    <2> QED BY <2>1, <2>5 DEF t
<1>5. consumed' = consumed /\ consumed <= consumed
    BY <1>1, <1>3
<1>6. /\ read' \in [Readers -> States] /\ reply' \in [Readers -> Replies]
      /\ \A r \in Readers :
           /\ read'[r] = "cold" => reply'[r] = NoReply /\ read[r] = "cold"
           /\ read'[r] = "parked" => reply'[r] = NoReply /\ read[r] = "parked"
           /\ r \in ToSet(arrivals) /\ reply'[r].outcome = "None" => read'[r] = "parked"
      /\ Queueing' /\ Given'
    <2> DEFINE S == ToSet(queue)
               h == {}
    <2>1. S \in SUBSET ToSet(queue) /\ h \in SUBSET ToSet(queue) /\ Finish(S, h, NoReply)
        BY <1>2
    <2>2. \A x \in h : FALSE
        OBVIOUS
    <2>3. h = {} /\ Thinned(<<>>, queue, S \cup h)
        BY <1>4
    <2> HIDE DEF S, h
    <2> QED BY <1>1, <1>2, <1>3, <1>4, <1>5, <2>1, <2>2, <2>3, AnswerInput
<1>7. InputTyped'
    BY <1>1, <1>2, <1>4, <1>6 DEF InputInv, InputTyped
<1>8. Held'
    BY <1>1 DEF InputInv, Held
<1>9. DOMAIN queue' = {}
    BY <1>2
<1>10. Progress'
    BY <1>1, <1>6, <1>9 DEF InputInv, Progress
<1> QED BY <1>6, <1>7, <1>8, <1>10 DEF InputInv

\* A fill adds to what is pending, and finds the end only at the end.
LEMMA FillSegment ==
    ASSUME InputInv, NEW bytes, NEW end \in BOOLEAN, NEW failure \in BOOLEAN, Filled(bytes, end, failure)
    PROVE  /\ IsSegment(text, bytes, consumed) /\ consumed + Len(bytes) <= given
           /\ end = TRUE => consumed + Len(bytes) = Len(text)
           /\ Len(pending) <= Len(bytes) /\ \A i \in 1..Len(pending) : bytes[i] = pending[i]
<1>1. /\ text \in Seq(Bytes) /\ given \in Nat /\ consumed \in Nat /\ Len(text) \in Nat /\ given <= Len(text)
      /\ consumed + Len(pending) <= given
      /\ hangup => given = Len(text)
    BY DEF InputInv, InputTyped, Held
<1>2. IsSegment(text, pending, consumed) /\ (ended => consumed + Len(pending) = Len(text))
    BY DEF InputInv, Held
<1>3. Len(pending) \in Nat /\ \A i \in 1..Len(pending) : pending[i] = text[consumed + i]
    BY <1>2 DEF IsSegment
<1>4. CASE bytes = pending /\ end = ended
    <2>1. ended = TRUE => consumed + Len(pending) = Len(text)
        BY <1>2
    <2>2. end = TRUE => consumed + Len(bytes) = Len(text)
        BY <1>4, <2>1
    <2>3. Len(pending) <= Len(bytes) /\ \A i \in 1..Len(pending) : bytes[i] = pending[i]
        BY <1>3, <1>4
    <2>4. IsSegment(text, bytes, consumed) /\ consumed + Len(bytes) <= given
        BY <1>1, <1>2, <1>4
    <2> QED BY <2>2, <2>3, <2>4, Zenon
<1>5. CASE Unread = 0 /\ hangup /\ bytes = pending
    <2>1. consumed + Len(pending) = given /\ given = Len(text)
        BY <1>1, <1>3, <1>5 DEF Unread
    <2> QED BY <1>1, <1>2, <1>3, <1>5, <2>1
<1>6. CASE Unread > 0 /\ bytes = SubSeq(text, consumed + 1, given) /\ end = FALSE
    <2>1. consumed + Len(pending) < given
        BY <1>1, <1>3, <1>6 DEF Unread
    <2>2. consumed + 1 \in Int /\ given \in Int /\ 1 <= consumed + 1 /\ consumed + 1 <= given + 1
        BY <1>1, <1>3, <2>1
    <2>3. /\ SubSeq(text, consumed + 1, given) \in Seq(Bytes)
          /\ Len(SubSeq(text, consumed + 1, given)) = given - (consumed + 1) + 1
          /\ \A i \in 1..given - (consumed + 1) + 1 :
                SubSeq(text, consumed + 1, given)[i] = text[consumed + 1 + i - 1]
        BY <1>1, <2>2, PartOf
    <2>4. /\ bytes \in Seq(Bytes) /\ Len(bytes) = given - consumed
          /\ \A i \in 1..given - consumed : bytes[i] = text[consumed + i]
        BY <1>1, <1>6, <2>3
    <2>5. consumed + Len(bytes) = given /\ Len(pending) <= Len(bytes) /\ Len(bytes) \in Nat
        BY <1>1, <1>3, <2>1, <2>4
    <2>6. \A i \in 1..Len(pending) : i \in 1..given - consumed
        BY <1>1, <1>3, <2>1
    <2>7. \A i \in 1..Len(pending) : bytes[i] = pending[i]
        BY <1>3, <2>4, <2>6
    <2>8. IsSegment(text, bytes, consumed)
        BY <1>1, <2>4, <2>5 DEF IsSegment
    <2> QED BY <1>1, <1>6, <2>5, <2>7, <2>8
<1> QED BY <1>4, <1>5, <1>6 DEF Filled

\* t without its first entry, which is the first of s that is not in U.
LEMMA TailThins ==
    ASSUME NEW s \in Seq(Readers), NEW t \in Seq(Readers), t # <<>>, NEW U, Thinned(t, s, U),
           \A m, n \in DOMAIN s : s[m] = s[n] => m = n
    PROVE  /\ Tail(t) \in Seq(Readers) /\ Thinned(Tail(t), s, U \cup {Head(t)})
           /\ Head(t) \in ToSet(s) /\ Head(t) \notin U /\ Head(t) \in Readers
           /\ \A m, n \in DOMAIN s : s[m] = Head(t) /\ n < m => s[n] \in U
           /\ \A n \in DOMAIN t : t[n] = Head(t) => n = 1
           /\ \A n \in DOMAIN t : t[n] \in ToSet(s) /\ t[n] \notin U
           /\ \A n \in DOMAIN Tail(t) : Tail(t)[n] # Head(t) /\ \E i \in DOMAIN t : Tail(t)[n] = t[i]
<1> DEFINE u == Tail(t)
           l == Len(t)
           x == Head(t)
<1>1. /\ l \in Nat /\ l >= 1 /\ DOMAIN t = 1..l /\ x = t[1] /\ u \in Seq(Readers) /\ DOMAIN u = 1..(l - 1)
      /\ \A n \in 1..(l - 1) : u[n] = t[n + 1]
    OBVIOUS
<1>s. DOMAIN s = 1..Len(s) /\ Len(s) \in Nat
    OBVIOUS
<1> HIDE DEF u, l, x
<1>2. PICK pos \in [DOMAIN t -> DOMAIN s] :
        /\ \A n \in DOMAIN t : t[n] = s[pos[n]] /\ s[pos[n]] \notin U
        /\ \A m, n \in DOMAIN t : m < n => pos[m] < pos[n]
        /\ \A i \in DOMAIN s : s[i] \notin U => \E n \in DOMAIN t : pos[n] = i
    BY DEF Thinned
<1>3. 1 \in DOMAIN t /\ x = s[pos[1]] /\ pos[1] \in DOMAIN s /\ x \notin U /\ x \in Readers
    BY <1>1, <1>2
<1>4. \A n \in DOMAIN t : n \in Int /\ pos[n] \in Int /\ (n # 1 => pos[1] < pos[n])
    <2> SUFFICES ASSUME NEW n \in DOMAIN t PROVE n \in Int /\ pos[n] \in Int /\ (n # 1 => pos[1] < pos[n])
        OBVIOUS
    <2>1. pos[n] \in DOMAIN s /\ n \in Int /\ (n # 1 => 1 < n)
        BY <1>1, <1>2
    <2> QED BY <1>2, <1>3, <1>s, <2>1
<1>5. ASSUME NEW n \in DOMAIN t, t[n] = x PROVE n = 1
    <2>1. pos[n] = pos[1]
        BY <1>2, <1>3, <1>5
    <2> QED BY <1>3, <1>4, <2>1
<1>6. ASSUME NEW m \in DOMAIN s, NEW n \in DOMAIN s, s[m] = x, n < m PROVE s[n] \in U
    <2> SUFFICES ASSUME s[n] \notin U PROVE FALSE
        OBVIOUS
    <2>1. m = pos[1]
        BY <1>3, <1>6
    <2>2. PICK i \in DOMAIN t : pos[i] = n
        BY <1>2
    <2>3. i # 1 /\ n \in Int /\ m \in Int
        BY <1>6, <1>s, <2>1, <2>2
    <2>4. pos[1] < pos[i]
        BY <1>4, <2>3
    <2> QED BY <1>6, <2>1, <2>2, <2>3, <2>4
<1>7. \A n \in DOMAIN u : n \in Int /\ n + 1 \in DOMAIN t /\ u[n] = t[n + 1] /\ n + 1 # 1
    BY <1>1
<1>8. \A n \in DOMAIN u : u[n] # x /\ \E i \in DOMAIN t : u[n] = t[i]
    BY <1>5, <1>7
<1>9. Thinned(u, s, U \cup {x})
    <2> DEFINE f == [n \in DOMAIN u |-> pos[n + 1]]
    <2>1. f \in [DOMAIN u -> DOMAIN s] /\ \A n \in DOMAIN u : f[n] = pos[n + 1]
        BY <1>2, <1>7
    <2> HIDE DEF f
    <2>2. \A n \in DOMAIN u : u[n] = s[f[n]] /\ s[f[n]] \notin U \cup {x}
        BY <1>2, <1>7, <1>8, <2>1
    <2>3. \A m, n \in DOMAIN u : m < n => f[m] < f[n]
        <3> SUFFICES ASSUME NEW m \in DOMAIN u, NEW n \in DOMAIN u, m < n PROVE f[m] < f[n]
            OBVIOUS
        <3>1. m + 1 < n + 1
            BY <1>7
        <3>2. pos[m + 1] < pos[n + 1]
            BY <1>2, <1>7, <3>1
        <3> QED BY <2>1, <3>2
    <2>4. ASSUME NEW i \in DOMAIN s, s[i] \notin U \cup {x} PROVE \E n \in DOMAIN u : f[n] = i
        <3>1. PICK n \in DOMAIN t : pos[n] = i
            BY <1>2, <2>4
        <3>2. n # 1
            BY <1>3, <2>4, <3>1
        <3>3. n - 1 \in DOMAIN u /\ (n - 1) + 1 = n
            BY <1>1, <3>2
        <3> QED BY <2>1, <3>1, <3>3
    <2> QED BY <2>1, <2>2, <2>3, <2>4 DEF Thinned
<1>10. \A n \in DOMAIN t : t[n] \in ToSet(s) /\ t[n] \notin U
    BY <1>2 DEF ToSet
<1>11. x \in ToSet(s)
    BY <1>3 DEF ToSet
<1> QED BY <1>1, <1>3, <1>5, <1>6, <1>8, <1>9, <1>10, <1>11 DEF u, x

\* What PollHead tries the head x on, and with which result.
HeadTried(x, bytes, end, failure, atOnce, answer) ==
    /\ kind[x] \in Kinds /\ ended \in BOOLEAN /\ failed \in BOOLEAN
    /\ scanned[x] <= Len(pending) /\ \A i \in 1..scanned[x] : pending[i] # LF
    /\ atOnce = Ready(x, pending, scanned[x], ended, failed)
    /\ answer = IF atOnce # NoReply THEN atOnce
                ELSE Ready(x, bytes, Scanned(x, pending), end, failure)
    /\ IF atOnce # NoReply THEN <<bytes, end, failure>> = <<pending, ended, failed>>
       ELSE Filled(bytes, end, failure)

HeadFound(x, bytes, end, answer) ==
    /\ IsSegment(text, bytes, consumed) /\ consumed + Len(bytes) <= given
    /\ end = TRUE => consumed + Len(bytes) = Len(text)
    /\ Cut(answer, bytes) /\ (answer # NoReply => Exact(kind[x], answer))
    /\ answer = NoReply =>
         /\ Scanned(x, bytes) \in Nat /\ Scanned(x, bytes) <= Len(bytes)
         /\ \A i \in 1..Scanned(x, bytes) : bytes[i] # LF
    /\ Scanned(x, bytes) \in Nat

\* What the first read that was not cancelled is told by a poll.
LEMMA HeadReply ==
    ASSUME InputInv, NEW x \in Readers, NEW bytes, NEW end \in BOOLEAN, NEW failure \in BOOLEAN,
           NEW atOnce, NEW answer, HeadTried(x, bytes, end, failure, atOnce, answer)
    PROVE  HeadFound(x, bytes, end, answer)
<1> SUFFICES ASSUME kind[x] \in Kinds,
                    scanned[x] <= Len(pending), \A i \in 1..scanned[x] : pending[i] # LF,
                    atOnce = Ready(x, pending, scanned[x], ended, failed),
                    answer = IF atOnce # NoReply THEN atOnce
                             ELSE Ready(x, bytes, Scanned(x, pending), end, failure),
                    IF atOnce # NoReply THEN <<bytes, end, failure>> = <<pending, ended, failed>>
                    ELSE Filled(bytes, end, failure),
                    ended \in BOOLEAN, failed \in BOOLEAN
             PROVE  /\ IsSegment(text, bytes, consumed) /\ consumed + Len(bytes) <= given
                    /\ end = TRUE => consumed + Len(bytes) = Len(text)
                    /\ Cut(answer, bytes) /\ (answer # NoReply => Exact(kind[x], answer))
                    /\ answer = NoReply =>
                         /\ Scanned(x, bytes) \in Nat /\ Scanned(x, bytes) <= Len(bytes)
                         /\ \A i \in 1..Scanned(x, bytes) : bytes[i] # LF
                    /\ Scanned(x, bytes) \in Nat
    BY Zenon DEF HeadTried, HeadFound
<1>1. /\ text \in Seq(Bytes) /\ consumed \in Nat /\ scanned[x] \in Nat
    BY DEF InputInv, InputTyped
<1>2. /\ IsSegment(text, pending, consumed) /\ (ended = TRUE => consumed + Len(pending) = Len(text))
      /\ consumed + Len(pending) <= given
    BY DEF InputInv, Held
<1>3. Len(pending) \in Nat
    BY <1>2 DEF IsSegment
<1>4. scanned[x] \in 0..Len(pending)
    BY <1>1, <1>3
<1>5. /\ Cut(atOnce, pending) /\ (atOnce # NoReply => Exact(kind[x], atOnce))
      /\ atOnce = NoReply /\ kind[x].mode = "Line" => \A i \in 1..Len(pending) : pending[i] # LF
    BY <1>1, <1>2, <1>4, ReadyExact
<1>6. CASE atOnce # NoReply
    <2>1. bytes = pending /\ end = ended /\ answer = atOnce
        BY <1>6
    <2>2. Scanned(x, bytes) \in Nat
        BY <1>1, <1>3, <2>1 DEF Scanned
    <2> QED BY <1>2, <1>5, <1>6, <2>1, <2>2
<1>7. CASE atOnce = NoReply
    <2>1. Filled(bytes, end, failure) /\ answer = Ready(x, bytes, Scanned(x, pending), end, failure)
        BY <1>7
    <2>2. /\ IsSegment(text, bytes, consumed) /\ consumed + Len(bytes) <= given
          /\ end = TRUE => consumed + Len(bytes) = Len(text)
          /\ Len(pending) <= Len(bytes) /\ \A i \in 1..Len(pending) : bytes[i] = pending[i]
        BY <2>1, FillSegment
    <2>3. Len(bytes) \in Nat
        BY <2>2 DEF IsSegment
    <2>4. /\ Scanned(x, pending) \in Nat /\ Scanned(x, pending) <= Len(pending)
          /\ \A i \in 1..Scanned(x, pending) : pending[i] # LF
        <3>1. CASE kind[x].mode = "Line"
            <4>1. Scanned(x, pending) = Len(pending) /\ Len(pending) <= Len(pending)
                BY <1>3, <3>1 DEF Scanned
            <4> QED BY <1>3, <1>5, <1>7, <3>1, <4>1
        <3>2. CASE kind[x].mode # "Line"
            <4>1. Scanned(x, pending) = scanned[x]
                BY <3>2 DEF Scanned
            <4> QED BY <1>1, <4>1
        <3> QED BY <3>1, <3>2
    <2>5. Scanned(x, pending) \in 0..Len(bytes) /\ \A i \in 1..Scanned(x, pending) : bytes[i] # LF
        <3>1. Scanned(x, pending) \in 0..Len(bytes)
            BY <1>3, <2>2, <2>3, <2>4
        <3>2. \A i \in 1..Scanned(x, pending) : i \in 1..Len(pending)
            BY <1>3, <2>4
        <3> QED BY <2>2, <2>4, <3>1, <3>2
    <2>6. /\ Cut(answer, bytes) /\ (answer # NoReply => Exact(kind[x], answer))
          /\ answer = NoReply /\ kind[x].mode = "Line" => \A i \in 1..Len(bytes) : bytes[i] # LF
        BY <1>1, <2>1, <2>2, <2>5, ReadyExact
    <2>7. CASE kind[x].mode = "Line"
        <3>1. Scanned(x, bytes) = Len(bytes) /\ Len(bytes) <= Len(bytes)
            BY <2>3, <2>7 DEF Scanned
        <3> QED BY <2>2, <2>3, <2>6, <2>7, <3>1
    <2>8. CASE kind[x].mode # "Line"
        <3>1. Scanned(x, bytes) = Scanned(x, pending)
            BY <2>8 DEF Scanned
        <3>2. Scanned(x, bytes) \in Nat /\ Scanned(x, bytes) <= Len(bytes)
            BY <1>3, <2>2, <2>3, <2>4, <3>1
        <3> QED BY <2>2, <2>5, <2>6, <3>1, <3>2
    <2> QED BY <2>7, <2>8
<1> QED BY <1>6, <1>7

\* What is left when some of the bytes at hand are consumed.
LEMMA RestSegment ==
    ASSUME text \in Seq(Bytes), consumed \in Nat, NEW bytes, IsSegment(text, bytes, consumed),
           NEW n \in Nat, n <= Len(bytes)
    PROVE  /\ IsSegment(text, SubSeq(bytes, n + 1, Len(bytes)), consumed + n)
           /\ consumed + n + Len(SubSeq(bytes, n + 1, Len(bytes))) = consumed + Len(bytes)
           /\ n = 0 => SubSeq(bytes, n + 1, Len(bytes)) = bytes
<1>1. /\ bytes \in Seq(Bytes) /\ consumed + Len(bytes) <= Len(text) /\ Len(bytes) \in Nat /\ Len(text) \in Nat
      /\ \A i \in 1..Len(bytes) : bytes[i] = text[consumed + i]
    BY DEF IsSegment
<1>2. n + 1 \in Int /\ Len(bytes) \in Int /\ 1 <= n + 1 /\ Len(bytes) <= Len(bytes) /\ n + 1 <= Len(bytes) + 1
    BY <1>1
<1>3. /\ SubSeq(bytes, n + 1, Len(bytes)) \in Seq(Bytes)
      /\ Len(SubSeq(bytes, n + 1, Len(bytes))) = Len(bytes) - (n + 1) + 1
      /\ \A i \in 1..Len(bytes) - (n + 1) + 1 : SubSeq(bytes, n + 1, Len(bytes))[i] = bytes[n + 1 + i - 1]
    BY <1>1, <1>2, PartOf
<1> DEFINE d == SubSeq(bytes, n + 1, Len(bytes))
<1>4. d \in Seq(Bytes) /\ Len(d) = Len(bytes) - n /\ \A i \in 1..Len(bytes) - n : d[i] = bytes[n + i]
    <2>1. Len(bytes) - (n + 1) + 1 = Len(bytes) - n /\ \A i \in 1..Len(bytes) - n : n + 1 + i - 1 = n + i
        BY <1>1
    <2> QED BY <1>3, <2>1
<1> HIDE DEF d
<1>5. ASSUME NEW i \in 1..Len(d) PROVE d[i] = text[consumed + n + i]
    <2>1. i \in 1..Len(bytes) - n /\ n + i \in 1..Len(bytes) /\ consumed + (n + i) = consumed + n + i
        BY <1>1, <1>4
    <2> QED BY <1>1, <1>4, <2>1
<1>6. consumed + n + Len(d) = consumed + Len(bytes)
    BY <1>1, <1>4
<1>7. IsSegment(text, d, consumed + n)
    BY <1>1, <1>4, <1>5, <1>6 DEF IsSegment
<1>8. n = 0 => d = bytes
    <2> SUFFICES ASSUME n = 0 PROVE d = bytes
        OBVIOUS
    <2>1. Len(d) = Len(bytes) /\ \A i \in 1..Len(bytes) : d[i] = bytes[i]
        BY <1>1, <1>4
    <2> QED BY <1>1, <1>4, <2>1, SeqEqual
<1> QED BY <1>6, <1>7, <1>8 DEF d

\* A poll that reaches a read: the head is answered from the bytes after those that
\* were consumed, or stays and has scanned them without finding a line feed.
LEMMA PollHeadInput ==
    ASSUME InputInv, queue # <<>>, NEW bytes, NEW end \in BOOLEAN, NEW failure \in BOOLEAN,
           PollHead(bytes, end, failure)
    PROVE  InputInv'
<1> DEFINE S == ToSet(queue) \cap readAsked
           kept == Kept(S)
           x == Head(kept)
           atOnce == Ready(x, pending, scanned[x], ended, failed)
           answer == IF atOnce # NoReply THEN atOnce
                     ELSE Ready(x, bytes, Scanned(x, pending), end, failure)
           n == Len(answer.data)
           h == IF answer # NoReply THEN {x} ELSE {}
           t == IF answer # NoReply THEN Tail(kept) ELSE kept
<1>1. /\ kept # <<>>
      /\ IF atOnce # NoReply THEN <<bytes, end, failure>> = <<pending, ended, failed>>
         ELSE Filled(bytes, end, failure)
      /\ queue' = t /\ Finish(S, h, answer)
      /\ pending' = SubSeq(bytes, n + 1, Len(bytes)) /\ consumed' = consumed + n
      /\ ended' = end /\ failed' = failure
      /\ scanned' = [scanned EXCEPT ![x] = Scanned(x, bytes)]
    BY DEF PollHead
<1>2. UNCHANGED <<text, given, hangup, kind, arrivals>>
    BY DEF PollHead, source
<1>3. /\ text \in Seq(Bytes) /\ consumed \in Nat /\ given \in Nat /\ queue \in Seq(Readers)
      /\ scanned \in [Readers -> Nat] /\ ended \in BOOLEAN /\ failed \in BOOLEAN
      /\ given <= Len(text) /\ (hangup => given = Len(text)) /\ Len(text) \in Nat
    BY DEF InputInv, InputTyped, Held
<1>4. kept \in Seq(Readers) /\ Thinned(kept, queue, S)
    BY <1>3, KeptThins
<1>5. S \in SUBSET ToSet(queue)
    OBVIOUS
<1> HIDE DEF S, kept, x
<1>6. /\ Tail(kept) \in Seq(Readers) /\ Thinned(Tail(kept), queue, S \cup {x})
      /\ x \in ToSet(queue) /\ x \notin S /\ x \in Readers
      /\ \A i, j \in DOMAIN queue : queue[i] = x /\ j < i => queue[j] \in S
      /\ \A i \in DOMAIN kept : kept[i] = x => i = 1
      /\ \A i \in DOMAIN kept : kept[i] \in ToSet(queue) /\ kept[i] \notin S
      /\ \A i \in DOMAIN Tail(kept) : Tail(kept)[i] # x /\ \E j \in DOMAIN kept : Tail(kept)[i] = kept[j]
    <2>1. \A i, j \in DOMAIN queue : queue[i] = queue[j] => i = j
        BY DEF InputInv, Queueing
    <2> QED BY <1>1, <1>3, <1>4, <2>1, TailThins DEF x
<1>7. kind[x] \in Kinds
    BY <1>6 DEF InputInv, Queueing, Progress
<1>8. PICK first \in DOMAIN queue : queue[first] = x
    BY <1>6 DEF ToSet
<1>9. scanned[x] = 0 \/ (scanned[x] <= Len(pending) /\ \A i \in 1..scanned[x] : pending[i] # LF)
    BY <1>8 DEF InputInv, Progress
<1>10. scanned[x] <= Len(pending) /\ \A i \in 1..scanned[x] : pending[i] # LF
    <2>1. Len(pending) \in Nat
        BY DEF InputInv, Held, IsSegment
    <2>2. CASE scanned[x] = 0
        BY <2>1, <2>2
    <2> QED BY <1>9, <2>2
<1> HIDE DEF atOnce, answer, n, h, t
<1>11. /\ IsSegment(text, bytes, consumed) /\ consumed + Len(bytes) <= given
       /\ end = TRUE => consumed + Len(bytes) = Len(text)
       /\ Cut(answer, bytes) /\ (answer # NoReply => Exact(kind[x], answer))
       /\ answer = NoReply =>
            /\ Scanned(x, bytes) \in Nat /\ Scanned(x, bytes) <= Len(bytes)
            /\ \A i \in 1..Scanned(x, bytes) : bytes[i] # LF
       /\ Scanned(x, bytes) \in Nat
    <2>1. x \in Readers /\ scanned[x] <= Len(pending) /\ \A i \in 1..scanned[x] : pending[i] # LF
        BY <1>6, <1>10
    <2>2. atOnce = Ready(x, pending, scanned[x], ended, failed)
        BY DEF atOnce
    <2>3. answer = IF atOnce # NoReply THEN atOnce
                   ELSE Ready(x, bytes, Scanned(x, pending), end, failure)
        BY DEF answer
    <2>4. IF atOnce # NoReply THEN <<bytes, end, failure>> = <<pending, ended, failed>>
          ELSE Filled(bytes, end, failure)
        BY <1>1
    <2>5. ended \in BOOLEAN /\ failed \in BOOLEAN
        BY <1>3
    <2>6. HeadTried(x, bytes, end, failure, atOnce, answer)
        BY <1>7, <2>1, <2>2, <2>3, <2>4, <2>5, Zenon DEF HeadTried
    <2>7. HeadFound(x, bytes, end, answer)
        BY <2>1, <2>6, HeadReply
    <2> QED BY <2>7 DEF HeadFound
<1>12. Len(bytes) \in Nat /\ bytes \in Seq(Bytes)
    BY <1>11 DEF IsSegment
<1>13. n \in Nat /\ n <= Len(bytes) /\ answer.data \in Seq(Bytes)
    BY <1>11 DEF Cut, n
<1>14. answer = NoReply => n = 0
    BY NoReplyTyped DEF n
<1>15. ASSUME answer # NoReply
       PROVE  /\ answer \in Replies /\ IsSegment(text, answer.data, consumed) /\ answer.at = consumed
              /\ answer.outcome \notin {"None", "Cancelled"}
              /\ answer.outcome # "Data" => answer.data = <<>>
    <2>1. /\ answer = Reply(answer.outcome, answer.data)
          /\ answer.outcome \in {"Data", "TooLarge", "End", "System"}
          /\ answer.outcome # "Data" => answer.data = <<>>
          /\ \A i \in 1..n : answer.data[i] = bytes[i]
        BY <1>11, <1>15 DEF Cut, n
    <2>2. answer.outcome \in Outcomes /\ answer.outcome \notin {"None", "Cancelled"}
        BY <2>1 DEF Outcomes
    <2>3. answer \in Replies /\ answer.at = consumed
        <3> DEFINE o == answer.outcome
                   d == answer.data
        <3>1. o \in Outcomes /\ d \in Seq(Bytes) /\ answer = Reply(o, d)
            BY <1>13, <2>1, <2>2
        <3> HIDE DEF o, d
        <3>2. Reply(o, d) \in Replies /\ Reply(o, d).at = consumed
            BY <1>3, <3>1, ReplyTyped
        <3> QED BY <3>1, <3>2
    <2>4. IsSegment(text, answer.data, consumed)
        <3>1. /\ consumed + Len(bytes) <= Len(text)
              /\ \A i \in 1..Len(bytes) : bytes[i] = text[consumed + i]
            BY <1>11 DEF IsSegment
        <3>2. consumed + n <= Len(text) /\ \A i \in 1..n : i \in 1..Len(bytes)
            BY <1>3, <1>12, <1>13, <3>1
        <3>3. \A i \in 1..n : answer.data[i] = text[consumed + i]
            BY <2>1, <3>1, <3>2
        <3> QED BY <1>13, <3>2, <3>3 DEF IsSegment, n
    <2> QED BY <2>1, <2>2, <2>3, <2>4
<1>16. /\ h \in SUBSET ToSet(queue) /\ \A y \in h : y = x /\ answer # NoReply
       /\ h = {} => n = 0 /\ answer = NoReply
    BY <1>6, <1>14 DEF h
<1>17. t \in Seq(Readers) /\ Thinned(t, queue, S \cup h)
    <2>1. CASE answer # NoReply
        BY <1>6, <2>1 DEF t, h
    <2>2. CASE answer = NoReply
        <3>1. t = kept /\ S \cup h = S
            BY <2>2 DEF t, h
        <3> QED BY <1>4, <3>1
    <2> QED BY <2>1, <2>2
<1> DEFINE c == consumed + n
<1>18. c \in Nat /\ consumed' = c /\ consumed <= c /\ (h = {} => c = consumed)
    BY <1>1, <1>3, <1>13, <1>16
<1>19. \A y \in h : /\ answer \in Replies /\ IsSegment(text, answer.data, consumed)
                    /\ answer.at = consumed /\ c = consumed + Len(answer.data)
                    /\ answer.outcome \notin {"None", "Cancelled"}
                    /\ answer.outcome # "Data" => answer.data = <<>>
                    /\ Exact(kind[y], answer)
                    /\ \A i, j \in DOMAIN queue : queue[i] = y /\ j < i => queue[j] \in S
    <2> SUFFICES ASSUME NEW y \in h
                 PROVE  /\ answer \in Replies /\ IsSegment(text, answer.data, consumed)
                        /\ answer.at = consumed /\ c = consumed + Len(answer.data)
                        /\ answer.outcome \notin {"None", "Cancelled"}
                        /\ answer.outcome # "Data" => answer.data = <<>>
                        /\ Exact(kind[y], answer)
                        /\ \A i, j \in DOMAIN queue : queue[i] = y /\ j < i => queue[j] \in S
        OBVIOUS
    <2>1. y = x /\ answer # NoReply
        BY <1>16
    <2>2. c = consumed + Len(answer.data)
        BY DEF n
    <2> QED BY <1>6, <1>11, <1>15, <2>1, <2>2
<1> HIDE DEF c
<1>20. /\ read' \in [Readers -> States] /\ reply' \in [Readers -> Replies]
       /\ \A r \in Readers :
            /\ read'[r] = "cold" => reply'[r] = NoReply /\ read[r] = "cold"
            /\ read'[r] = "parked" => reply'[r] = NoReply /\ read[r] = "parked"
            /\ r \in ToSet(arrivals) /\ reply'[r].outcome = "None" => read'[r] = "parked"
       /\ Queueing' /\ Given'
    <2>1. \A y, z \in h : y = z
        BY <1>16
    <2>2. queue' = t /\ Finish(S, h, answer) /\ UNCHANGED <<text, kind, arrivals>>
        BY <1>1, <1>2
    <2> QED BY <1>5, <1>16, <1>17, <1>18, <1>19, <2>1, <2>2, AnswerInput
<1>21. scanned' \in [Readers -> Nat] /\ scanned'[x] = Scanned(x, bytes)
       /\ \A r \in Readers : r # x => scanned'[r] = scanned[r]
    BY <1>1, <1>3, <1>6, <1>11
<1>22. InputTyped'
    BY <1>1, <1>2, <1>17, <1>18, <1>20, <1>21 DEF InputInv, InputTyped
<1>23. /\ IsSegment(text, pending', c) /\ c + Len(pending') = consumed + Len(bytes)
       /\ n = 0 => pending' = bytes
    <2>1. /\ IsSegment(text, SubSeq(bytes, n + 1, Len(bytes)), consumed + n)
          /\ consumed + n + Len(SubSeq(bytes, n + 1, Len(bytes))) = consumed + Len(bytes)
          /\ n = 0 => SubSeq(bytes, n + 1, Len(bytes)) = bytes
        BY <1>3, <1>11, <1>13, RestSegment
    <2> QED BY <1>1, <2>1 DEF c
<1>24. Held'
    BY <1>1, <1>2, <1>3, <1>11, <1>18, <1>23 DEF Held
<1>25. ASSUME NEW r \in Readers
       PROVE  /\ read'[r] = "cold" => reply'[r] = NoReply /\ scanned'[r] = 0 /\ r \notin ToSet(arrivals)
              /\ read'[r] = "parked" => reply'[r] = NoReply /\ kind[r] \in Kinds /\ r \in ToSet(arrivals)
              /\ r \in ToSet(arrivals) /\ reply'[r].outcome = "None" => read'[r] = "parked"
    <2>1. read[x] = "parked"
        BY <1>6 DEF InputInv, Queueing
    <2>2. read[r] = "cold" => r # x /\ scanned[r] = 0 /\ r \notin ToSet(arrivals)
        BY <2>1 DEF InputInv, Progress
    <2>3. read[r] = "parked" => kind[r] \in Kinds /\ r \in ToSet(arrivals)
        BY DEF InputInv, Progress
    <2> QED BY <1>20, <1>21, <2>2, <2>3
<1>26. ASSUME NEW r \in ToSet(queue), r # x, r \notin S PROVE scanned'[r] = 0
    <2>1. PICK i \in DOMAIN queue : queue[i] = r
        BY DEF ToSet
    <2>2. i # first /\ i \in Int /\ first \in Int /\ i >= 1 /\ first >= 1
        BY <1>3, <1>8, <1>26, <2>1
    <2>3. ~(i < first)
        BY <1>6, <1>8, <1>26, <2>1
    <2>4. i # 1
        BY <2>2, <2>3
    <2>5. scanned[r] = 0
        BY <2>1, <2>4 DEF InputInv, Progress
    <2>6. r \in Readers
        BY <1>3, <2>1
    <2> QED BY <1>21, <1>26, <2>5, <2>6
<1>27. ASSUME NEW i \in DOMAIN t
       PROVE  \/ scanned'[t[i]] = 0
              \/ /\ i = 1 /\ scanned'[t[i]] <= Len(pending')
                 /\ \A j \in 1..scanned'[t[i]] : pending'[j] # LF
    <2>1. CASE answer # NoReply
        <3>1. t = Tail(kept)
            BY <2>1 DEF t
        <3>2. t[i] # x /\ t[i] \in ToSet(queue) /\ t[i] \notin S
            BY <1>6, <3>1
        <3> QED BY <1>26, <3>2
    <2>2. CASE answer = NoReply
        <3>1. t = kept /\ pending' = bytes
            BY <1>14, <1>23, <2>2 DEF t
        <3>2. t[i] \in ToSet(queue) /\ t[i] \notin S /\ (t[i] = x => i = 1)
            BY <1>6, <3>1
        <3>3. CASE t[i] # x
            BY <1>26, <3>2, <3>3
        <3>4. CASE t[i] = x
            BY <1>11, <1>21, <2>2, <3>1, <3>2, <3>4
        <3> QED BY <3>3, <3>4
    <2> QED BY <2>1, <2>2
<1>28. Progress'
    BY <1>1, <1>2, <1>25, <1>27 DEF Progress
<1> QED BY <1>20, <1>22, <1>24, <1>28 DEF InputInv

\* No step of the tasks, the driver or the other end breaks the invariant.
LEMMA NextInput == InputInv /\ [Next]_vars => InputInv'
<1> SUFFICES ASSUME InputInv, [Next]_vars PROVE InputInv' OBVIOUS
<1>1. CASE Outside
    <2>1. CASE Supply \/ HangUp
        BY <2>1, OutsideInput
    <2>2. CASE UNCHANGED inputVars
        BY <2>2, QuietInput
    <2> QED BY <1>1, <2>1, <2>2 DEF Outside
<1>2. CASE Cancel
    <2>1. CASE \E r \in Readers : CancelRead(r)
        BY <2>1, CancelInput
    <2>2. CASE UNCHANGED inputVars
        BY <2>2, QuietInput
    <2> QED BY <1>2, <2>1, <2>2 DEF Cancel
<1>3. CASE \E r \in Readers : Read(r)
    <2>1. PICK r \in Readers : Read(r)
        BY <1>3
    <2>2. CASE StartReadCancelled(r)
        BY <2>2, StartCancelledInput
    <2>3. CASE \E k \in Kinds : StartRead(r, k)
        BY <2>3, StartInput
    <2> QED BY <2>1, <2>2, <2>3 DEF Read
<1>4. CASE \E w \in Writers : Write(w)
    <2>1. UNCHANGED inputVars
        BY <1>4 DEF Write
    <2> QED BY <2>1, QuietInput
<1>5. CASE Poll
    <2>1. CASE queue # <<>> /\ PollCancelled
        BY <2>1, CancelledInput
    <2>2. CASE queue # <<>> /\ \E bytes, end, failure : end \in BOOLEAN /\ failure \in BOOLEAN /\ PollHead(bytes, end, failure)
        BY <2>2, PollHeadInput
    <2>3. CASE UNCHANGED inputVars
        BY <2>3, QuietInput
    <2>4. queue # <<>> => PollInput
        BY <1>5 DEF Poll
    <2>5. queue = <<>> => UNCHANGED inputVars
        BY <1>5 DEF Poll
    <2> QED BY <2>1, <2>2, <2>3, <2>4, <2>5 DEF PollInput
<1>6. CASE Dispatch
    <2>1. CASE \E r \in Readers : ReturnRead(r)
        BY <2>1, ReturnInput
    <2>2. CASE UNCHANGED inputVars
        BY <2>2, QuietInput
    <2> QED BY <1>6, <2>1, <2>2 DEF Dispatch
<1>7. CASE EndTurn \/ Block \/ Woken
    <2>1. UNCHANGED inputVars
        BY <1>7 DEF EndTurn, Block, Woken
    <2> QED BY <2>1, QuietInput
<1>8. CASE Interrupted
    <2>1. CASE WaitInputFails
        BY <2>1, WaitInput
    <2>2. CASE UNCHANGED inputVars
        BY <2>2, QuietInput
    <2> QED BY <1>8, <2>1, <2>2 DEF Interrupted
<1>9. CASE UNCHANGED vars
    <2>1. UNCHANGED inputVars
        BY <1>9 DEF vars
    <2> QED BY <2>1, QuietInput
<1> QED BY <1>1, <1>2, <1>3, <1>4, <1>5, <1>6, <1>7, <1>8, <1>9 DEF Next, TasksStep, Host

\* The invariant says what the property does.
LEMMA InputInvWhole == InputInv => InputWhole
<1> SUFFICES ASSUME InputInv PROVE InputWhole OBVIOUS
<1>1. /\ text \in Seq(Bytes) /\ Len(text) \in Nat /\ consumed \in Nat /\ consumed <= Len(text)
      /\ IsSegment(text, pending, consumed)
    <2>1. /\ text \in Seq(Bytes) /\ consumed \in Nat /\ given \in Nat /\ given <= Len(text)
          /\ IsSegment(text, pending, consumed) /\ consumed + Len(pending) <= given
        BY DEF InputInv, InputTyped, Held
    <2>2. Len(pending) \in Nat
        BY <2>1 DEF IsSegment
    <2> QED BY <2>1, <2>2
<1>2. ASSUME NEW s, NEW k \in Nat, IsSegment(text, s, k) PROVE s = SubSeq(text, k + 1, k + Len(s))
    <2>1. /\ s \in Seq(Bytes) /\ k + Len(s) <= Len(text) /\ Len(s) \in Nat
          /\ \A i \in 1..Len(s) : s[i] = text[k + i]
        BY <1>2 DEF IsSegment
    <2> DEFINE m == k + 1
               n == k + Len(s)
    <2>2. /\ m \in Int /\ n \in Int /\ 1 <= m /\ n <= Len(text) /\ m <= n + 1 /\ n - m + 1 = Len(s)
          /\ \A i \in 1..Len(s) : m + i - 1 = k + i
        BY <2>1
    <2> HIDE DEF m, n
    <2>3. /\ SubSeq(text, m, n) \in Seq(Bytes) /\ Len(SubSeq(text, m, n)) = Len(s)
          /\ \A i \in 1..Len(s) : SubSeq(text, m, n)[i] = text[m + i - 1]
        BY <1>1, <2>2, PartOf
    <2>4. s = SubSeq(text, m, n)
        <3> DEFINE d == SubSeq(text, m, n)
        <3>1. d \in Seq(Bytes) /\ Len(d) = Len(s) /\ \A i \in 1..Len(s) : d[i] = text[m + i - 1]
            BY <2>3
        <3> HIDE DEF d
        <3>2. \A i \in 1..Len(s) : s[i] = d[i]
            BY <2>1, <2>2, <3>1
        <3>3. s = d
            BY <2>1, <3>1, <3>2, SeqEqual
        <3> QED BY <3>3 DEF d
    <2> QED BY <2>4 DEF m, n
<1>3. \A r \in Readers : reply[r].at \in Nat /\ IsSegment(text, reply[r].data, reply[r].at)
    BY DEF InputInv, InputTyped, Replies, Given
<1>4. \A r \in Readers :
         reply[r].data = SubSeq(text, reply[r].at + 1, reply[r].at + Len(reply[r].data))
    BY <1>2, <1>3
<1>5. pending = SubSeq(text, consumed + 1, consumed + Len(pending))
    BY <1>1, <1>2
<1>6. \A r \in Readers : \A i \in Taken(r) : i \in 1..consumed
    <2> SUFFICES ASSUME NEW r \in Readers, NEW i \in Taken(r) PROVE i \in 1..consumed
        OBVIOUS
    <2>1. i \in 1..Len(text) /\ i <= reply[r].at + Len(reply[r].data)
        BY DEF Taken
    <2>2. reply[r].at + Len(reply[r].data) <= consumed
        BY DEF InputInv, Given
    <2>3. Len(reply[r].data) \in Nat
        BY <1>3 DEF IsSegment
    <2> QED BY <1>1, <1>3, <2>1, <2>2, <2>3
<1>7. UNION {Taken(r) : r \in Readers} = 1..consumed
    <2>1. \A i \in 1..consumed : \E r \in Readers : i \in Taken(r)
        BY DEF InputInv, Given
    <2> QED BY <1>6, <2>1
<1>8. \A q, r \in Readers : q # r => Taken(q) \cap Taken(r) = {}
    BY DEF InputInv, Given
<1>9. ASSUME NEW i \in DOMAIN arrivals, NEW j \in DOMAIN arrivals, i < j
      PROVE  /\ \A m \in Taken(arrivals[i]), n \in Taken(arrivals[j]) : m < n
             /\ reply[arrivals[j]].outcome \notin {"None", "Cancelled"}
                  => reply[arrivals[i]].outcome # "None"
    <2>1. PICK q \in Readers, r \in Readers : q = arrivals[i] /\ r = arrivals[j]
        BY DEF InputInv, InputTyped
    <2>2. Earlier(q, r)
        BY <1>9, <2>1 DEF Earlier
    <2>3. /\ \A m \in Taken(q), n \in Taken(r) : m < n
          /\ reply[r].outcome \notin {"None", "Cancelled"} => reply[q].outcome # "None"
        BY <2>2 DEF InputInv, Given
    <2> QED BY <2>1, <2>3
<1>10. InputOnce
    BY <1>4, <1>5, <1>7, <1>8, <1>9 DEF InputOnce
<1>11. InputExact
    BY DEF InputInv, Given
<1> QED BY <1>10, <1>11 DEF InputWhole

\* What a read decides from the bytes that happened to be there is right for the
\* whole input, and the replies are the input, cut where the reads ask for it:
\* for any number of reads, any limits and any text, in whatever pieces the text
\* arrives and whichever reads are cancelled or refused in between.
THEOREM InputsWhole == Spec => []InputWhole
<1>1. InputInv => InputWhole
    BY InputInvWhole
<1> QED BY <1>1, InitInput, NextInput, PTL DEF Spec
=============================================================================
