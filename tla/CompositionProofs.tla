------------------------- MODULE CompositionProofs -------------------------
(***************************************************************************)
(* For any number of inputs: what a composite decides follows from the     *)
(* completions of its children, is stable, and hides nothing.  For any     *)
(* clock range and any durations: a timeout, the composite of Timeout, is  *)
(* reported only after its whole duration, and an unrepresentable deadline *)
(* is refused.                                                             *)
(***************************************************************************)
EXTENDS Timeout, TLAPS

-----------------------------------------------------------------------------
(* The inductive invariant.                                                *)

Open == phase \in {"looping", "waiting", "woken", "selected"}
Race == policy \in {"WhenAny", "ForwardFirst"}

\* How far the activation has come, for every policy: a committed selection is
\* an unconsumed child that ended, or a request is pending; a child that was
\* stopped has put the stop where the composite reads it.
Progress ==
    /\ phase = "cold" =>
         selected = <<>> /\ published = <<>> /\ output = Undecided /\ fallback = None
    /\ Open => output \in {Undecided, Cancelled}
    /\ dirty => request # "None"
    /\ phase \in {"woken", "selected"} =>
         \/ winner = None /\ request # "None"
         \/ winner # None /\ winner \in active /\ ended[winner] # "no"
    /\ active \subseteq Candidates
    /\ \A i \in Inputs : (ended[i] # "no" \/ consumed[i] # "no") => i \in Candidates
    /\ \A i \in Inputs : ended[i] = "Stopped" => request = "Stopped"
    /\ \A k \in DOMAIN selected : selected[k] \notin active
    /\ \A i \in Inputs : consumed[i] # "no" => consumed[i] = ended[i]

\* What the join has consumed so far, and the outcome it comes to.
Join ==
    policy = "WhenAll" =>
      /\ Open =>
           /\ \A i \in Candidates \ active : consumed[i] \in {"Success", "Cancelled"}
           /\ output = Undecided => \A i \in Candidates \ active : consumed[i] = "Success"
           /\ output = Cancelled => \E i \in Candidates : consumed[i] = "Cancelled"
      /\ Committed /\ output.kind = "Success" => \A i \in Candidates : consumed[i] = "Success"
      /\ Committed /\ output.kind = "Cancelled" /\ request = "None" =>
           /\ \A i \in Candidates : consumed[i] \in {"Success", "Cancelled"}
           /\ \E i \in Candidates : consumed[i] = "Cancelled"

\* A race selects at most once, and the child it selects published first.
First ==
    Race =>
      /\ fallback = None
      /\ Open => output = Undecided
      /\ phase \in {"cold", "looping", "waiting"} =>
           published = <<>> /\ \A i \in Inputs : ended[i] = "no"
      /\ phase \in {"looping", "waiting"} => active = Candidates
      /\ phase \in {"woken", "selected"} /\ winner # None =>
           published # <<>> /\ published[1] = winner
      /\ Committed /\ output.from # None =>
           /\ published # <<>> /\ published[1] = output.from
           /\ output.kind = ended[output.from] /\ ended[output.from] # "no"

\* The selection at which child f was the first to fail.
FirstFailed(f) ==
    \E k \in DOMAIN selected :
      /\ selected[k] = f
      /\ \A j \in 1..(k - 1) : consumed[selected[j]] = "Cancelled"

\* first_successful has met no success yet and remembers its first failure.
Fallback ==
    policy = "FirstSuccessful" =>
      /\ Open =>
           /\ output = Undecided
           /\ \A i \in Candidates \ active : consumed[i] \in {"Failure", "Cancelled"}
           /\ fallback = None => \A k \in DOMAIN selected : consumed[selected[k]] = "Cancelled"
           /\ fallback # None => FirstFailed(fallback)
      /\ Committed /\ output.kind = "Failure" =>
           /\ \A i \in Candidates : consumed[i] \in {"Failure", "Cancelled"}
           /\ FirstFailed(output.from)

IInv == TypeOK /\ Progress /\ Join /\ First /\ Fallback

-----------------------------------------------------------------------------
\* Positions of the pack are inputs, and None is not one of them.
LEMMA CandidatesAreInputs ==
    TypeOK => Candidates \subseteq Inputs /\ None \notin Inputs /\ Inputs \subseteq Nat
  BY CountAssumption DEF TypeOK, Candidates, Inputs, None

\* Outcomes are told apart by their fields.
LEMMA Outcomes ==
    \A k, i : /\ Outcome(k, i).kind = k /\ Outcome(k, i).from = i
              /\ Undecided.kind = "none" /\ Undecided.from = None
              /\ Cancelled.kind = "Cancelled" /\ Cancelled.from = None
              /\ Stopped.kind = "Stopped" /\ Stopped.from = None
              /\ Undecided # Cancelled
  BY DEF Outcome, Undecided, Cancelled, Stopped

\* The outcomes that TypeOK allows.
Outputs == [kind : Terminal \cup {"none"}, from : Inputs \cup {None}]
LEMMA OutcomeType ==
    ASSUME NEW k \in Terminal \cup {"none"}, NEW i \in Inputs \cup {None}
    PROVE  Outcome(k, i) \in Outputs
  BY DEF Outcome, Outputs

\* The invariant holds before the composite starts.
LEMMA InitIInv == Init => IInv
<1> SUFFICES ASSUME Init PROVE IInv
  OBVIOUS
<1>1. output = Undecided /\ Undecided \in Outputs
  BY OutcomeType DEF Init, Undecided
<1>2. TypeOK
  <2>1. <<>> \in Seq(Inputs)
    OBVIOUS
  <2> QED
    BY <1>1, <2>1 DEF Init, TypeOK, Outputs
<1>3. Progress
  BY DEF Init, Progress, Open
<1>4. Join /\ First /\ Fallback
  BY DEF Init, Join, First, Fallback, Open, Race, Committed
<1> QED
  BY <1>2, <1>3, <1>4 DEF IInv

-----------------------------------------------------------------------------
(* What a consumption does: the selected child leaves the active ones and   *)
(* its slot holds what it ended with.                                      *)
LEMMA Consuming ==
    ASSUME TypeOK, Progress, Ready, NEW state, Consume(state)
    PROVE  /\ winner \in active /\ winner \in Candidates /\ winner \in Inputs
           /\ state \in {"Success", "Failure", "Cancelled"} /\ ended[winner] = state
           /\ active' = active \ {winner}
           /\ consumed'[winner] = state
           /\ \A i \in Inputs : i # winner => consumed'[i] = consumed[i]
           /\ consumed' \in [Inputs -> {"no", "Success", "Failure", "Cancelled"}]
           /\ selected' \in Seq(Inputs) /\ Len(selected') = Len(selected) + 1
           /\ selected'[Len(selected) + 1] = winner
           /\ \A k \in DOMAIN selected : selected'[k] = selected[k] /\ consumed'[selected[k]] = consumed[selected[k]]
           /\ DOMAIN selected = 1..Len(selected) /\ Len(selected) \in Nat
           /\ DOMAIN selected' = 1..(Len(selected) + 1)
<1>1. winner \in active /\ ended[winner] # "no" /\ winner \in Candidates /\ winner \in Inputs
  BY CandidatesAreInputs DEF Progress, Consume, TypeOK
<1>2. ended[winner] # "Stopped"
  BY <1>1 DEF Progress, Ready
<1>3. state \in {"Success", "Failure", "Cancelled"} /\ ended[winner] = state
  BY <1>1, <1>2 DEF Consume, TypeOK, Terminal
<1>4. /\ active' = active \ {winner} /\ consumed' = [consumed EXCEPT ![winner] = state]
      /\ selected' = Append(selected, winner)
  BY DEF Consume
<1>5. /\ consumed'[winner] = state
      /\ \A i \in Inputs : i # winner => consumed'[i] = consumed[i]
      /\ consumed' \in [Inputs -> {"no", "Success", "Failure", "Cancelled"}]
  BY <1>1, <1>3, <1>4 DEF TypeOK
<1>6. /\ selected' \in Seq(Inputs) /\ Len(selected') = Len(selected) + 1
      /\ selected'[Len(selected) + 1] = winner
      /\ DOMAIN selected = 1..Len(selected) /\ Len(selected) \in Nat
      /\ DOMAIN selected' = 1..(Len(selected) + 1)
      /\ \A k \in DOMAIN selected : selected'[k] = selected[k] /\ selected[k] \in Inputs
  BY <1>1, <1>4 DEF TypeOK
<1>7. \A k \in DOMAIN selected : selected[k] # winner
  BY <1>1 DEF Progress
<1> QED
  BY <1>1, <1>3, <1>4, <1>5, <1>6, <1>7

-----------------------------------------------------------------------------
(* Types.                                                                  *)

\* Leaving the loop keeps the types.
LEMMA DecideType ==
    ASSUME TypeOK, NEW o \in Outputs, NEW R, Decide(o, R)
    PROVE  output' \in Outputs /\ phase' = "closing" /\ asked' \subseteq Inputs
  BY CandidatesAreInputs DEF TypeOK, Decide

\* The outcome that a loop without candidates comes to is well typed.
LEMMA ExhaustedType == TypeOK => Exhausted \in Outputs
<1> SUFFICES ASSUME TypeOK PROVE Exhausted \in Outputs
  OBVIOUS
<1>1. fallback \in Inputs \cup {None} /\ output \in Outputs
  BY DEF TypeOK, Outputs
<1>2. "Cancelled" \in Terminal /\ "Success" \in Terminal /\ "Failure" \in Terminal
  BY DEF Terminal
<1>3. /\ Cancelled \in Outputs /\ Outcome("Success", None) \in Outputs
      /\ Outcome("Failure", fallback) \in Outputs
  BY <1>1, <1>2, OutcomeType DEF Cancelled
<1> QED
  BY <1>1, <1>3 DEF Exhausted

\* The steps that consume a completion.
Consumption ==
    \/ JoinSuccess \/ JoinFailure \/ JoinCancelled \/ FirstSuccess
    \/ \E state \in {"Success", "Failure", "Cancelled"} : RaceFirst(state) \/ Remember(state)

\* They keep the types.
LEMMA ConsumptionType ==
    ASSUME TypeOK, Progress, Consumption
    PROVE  TypeOK'
<1>a. /\ \A st \in {"Success", "Failure", "Cancelled"} : st \in Terminal \cup {"none"}
      /\ Cancelled \in Outputs
  BY OutcomeType DEF Terminal, Cancelled
<1>c. ASSUME NEW st, Ready, Consume(st)
      PROVE  /\ winner \in Inputs /\ active' \subseteq Inputs
             /\ consumed' \in [Inputs -> {"no", "Success", "Failure", "Cancelled"}]
             /\ selected' \in Seq(Inputs)
  BY <1>c, Consuming DEF TypeOK
<1>1. CASE JoinSuccess
  BY <1>1, <1>c DEF TypeOK, JoinSuccess, shape, childVars
<1>2. CASE JoinFailure
  <2>1. winner \in Inputs /\ Outcome("Failure", winner) \in Outputs
    BY <1>2, <1>a, <1>c, OutcomeType DEF JoinFailure
  <2>2. output' \in Outputs /\ phase' = "closing" /\ asked' \subseteq Inputs
    BY <1>2, <2>1, DecideType DEF JoinFailure
  <2> QED
    BY <1>2, <1>c, <2>2 DEF TypeOK, JoinFailure, shape, Outputs
<1>3. CASE JoinCancelled
  <2>1. output' \in Outputs /\ asked' \subseteq Inputs
    BY <1>3, <1>a DEF TypeOK, JoinCancelled, Outputs
  <2> QED
    BY <1>3, <1>c, <2>1 DEF TypeOK, JoinCancelled, shape, Outputs
<1>4. CASE FirstSuccess
  <2>1. winner \in Inputs /\ Outcome("Success", winner) \in Outputs
    BY <1>4, <1>a, <1>c, OutcomeType DEF FirstSuccess
  <2>2. output' \in Outputs /\ phase' = "closing" /\ asked' \subseteq Inputs
    BY <1>4, <2>1, DecideType DEF FirstSuccess
  <2> QED
    BY <1>4, <1>c, <2>2 DEF TypeOK, FirstSuccess, shape, Outputs
<1>5. ASSUME NEW st \in {"Success", "Failure", "Cancelled"}, RaceFirst(st) PROVE TypeOK'
  <2> DEFINE o == Outcome(st, IF st = "Cancelled" THEN None ELSE winner)
  <2>1. o \in Outputs
    BY <1>5, <1>a, <1>c, OutcomeType DEF RaceFirst
  <2>2. output' \in Outputs /\ phase' = "closing" /\ asked' \subseteq Inputs
    BY <1>5, <2>1, DecideType DEF RaceFirst
  <2> QED
    BY <1>5, <1>c, <2>2 DEF TypeOK, RaceFirst, shape, Outputs
<1>6. ASSUME NEW st \in {"Success", "Failure", "Cancelled"}, Remember(st) PROVE TypeOK'
  BY <1>6, <1>c DEF TypeOK, Remember, shape, childVars
<1> QED
  BY <1>1, <1>2, <1>3, <1>4, <1>5, <1>6 DEF Consumption

\* Every step keeps the types.
LEMMA TypeStep == TypeOK /\ Progress /\ [Next]_vars => TypeOK'
<1> SUFFICES ASSUME TypeOK, Progress, [Next]_vars PROVE TypeOK'
  OBVIOUS
<1>1. CASE StartRefused \/ StartEmpty
  <2>1. output' \in Outputs
    <3>1. /\ Outcome("Success", None) \in Outputs /\ Stopped \in Outputs /\ Cancelled \in Outputs
      BY OutcomeType DEF Terminal, Stopped, Cancelled
    <3> QED
      BY <1>1, <3>1 DEF StartRefused, StartEmpty
  <2> QED
    BY <1>1, <2>1 DEF TypeOK, StartRefused, StartEmpty, shape, childVars, choiceVars, Outputs
<1>2. CASE Start
  BY <1>2, CandidatesAreInputs DEF TypeOK, Start, shape, childVars
<1>3. ASSUME NEW i \in Inputs, SelectReady(i) PROVE TypeOK'
  BY <1>3 DEF TypeOK, SelectReady, shape, childVars, choiceVars
<1>4. CASE Wait \/ Resume
  BY <1>4 DEF TypeOK, Wait, Resume, shape, childVars, choiceVars
<1>5. CASE AcceptRequest
  <2> DEFINE o == IF request = "Stopped" THEN Stopped ELSE Cancelled
  <2>1. o \in Outputs
    BY OutcomeType DEF Terminal, Stopped, Cancelled
  <2>2. output' \in Outputs /\ phase' = "closing" /\ asked' \subseteq Inputs
    BY <1>5, <2>1, DecideType DEF AcceptRequest
  <2> QED
    BY <1>5, <2>2 DEF TypeOK, AcceptRequest, shape, choiceVars, Outputs
<1>6. CASE Consumption
  BY <1>6, ConsumptionType
<1>7. CASE Conclude
  <2>1. output' \in Outputs /\ phase' = "closing" /\ asked' \subseteq Inputs
    BY <1>7, ExhaustedType, DecideType DEF Conclude
  <2> QED
    BY <1>7, <2>1 DEF TypeOK, Conclude, shape, choiceVars, Outputs
<1>8. CASE Deliver
  <2>1. output' \in Outputs
    BY <1>8, OutcomeType DEF Deliver, TypeOK, Outputs, Terminal, Stopped
  <2> QED
    BY <1>8, <2>1 DEF TypeOK, Deliver, shape, childVars, choiceVars, Outputs
<1>9. CASE Poll
  BY <1>9 DEF TypeOK, Poll, shape, childVars, choiceVars
<1>10. ASSUME NEW i \in Inputs, NEW res \in Terminal, Publish(i, res) PROVE TypeOK'
  <2>1. ended' \in [Inputs -> Terminal \cup {"no"}] /\ published' \in Seq(Inputs)
    BY <1>10 DEF TypeOK, Publish
  <2>2. request' \in {"None", "Cancelled", "Stopped"} /\ dirty' \in BOOLEAN
    BY <1>10 DEF TypeOK, Publish
  <2> QED
    BY <1>10, <2>1, <2>2 DEF TypeOK, Publish, shape, choiceVars
<1>11. ASSUME NEW r \in {"Cancelled", "Stopped"}, Request(r) PROVE TypeOK'
  BY <1>11 DEF TypeOK, Request, shape, childVars, choiceVars
<1>12. CASE UNCHANGED vars
  BY <1>12 DEF TypeOK, vars, shape, childVars, choiceVars
<1> QED
  BY <1>1, <1>2, <1>3, <1>4, <1>5, <1>6, <1>7, <1>8, <1>9, <1>10, <1>11, <1>12
     DEF Next, Step, Consumption

-----------------------------------------------------------------------------
(* Progress.                                                               *)

\* What a consumption keeps, whatever the policy does with it.
LEMMA ConsumptionProgress ==
    ASSUME TypeOK, Progress, Consumption
    PROVE  Progress'
<1>1. PICK st : Ready /\ Consume(st)
  BY DEF Consumption, JoinSuccess, JoinFailure, JoinCancelled, FirstSuccess, RaceFirst, Remember
<1>2. /\ UNCHANGED <<policy, count, request, dirty, ended, winner>>
      /\ phase' \in {"looping", "closing"}
      /\ phase' = "looping" => output' \in {output, Cancelled}
      /\ phase = "selected"
  BY DEF Consumption, JoinSuccess, JoinFailure, JoinCancelled, FirstSuccess, RaceFirst,
         Remember, Decide, Consume, shape, childVars
<1>3. /\ winner \in active /\ winner \in Candidates /\ winner \in Inputs
      /\ ended[winner] = st /\ st # "Stopped"
      /\ active' = active \ {winner}
      /\ consumed'[winner] = st
      /\ \A i \in Inputs : i # winner => consumed'[i] = consumed[i]
      /\ selected'[Len(selected) + 1] = winner
      /\ \A k \in DOMAIN selected : selected'[k] = selected[k]
      /\ DOMAIN selected = 1..Len(selected) /\ Len(selected) \in Nat
      /\ DOMAIN selected' = 1..(Len(selected) + 1)
  BY <1>1, Consuming
<1>4. Candidates' = Candidates
  BY <1>2 DEF Candidates
<1>5. \A k \in DOMAIN selected' : selected'[k] \notin active'
  <2> SUFFICES ASSUME NEW k \in DOMAIN selected' PROVE selected'[k] \notin active'
    OBVIOUS
  <2>1. k = Len(selected) + 1 \/ k \in DOMAIN selected
    BY <1>3
  <2> QED
    BY <1>3, <2>1 DEF Progress
<1>6. Open' => output' \in {Undecided, Cancelled}
  BY <1>2 DEF Progress, Open
<1>7. /\ active' \subseteq Candidates'
      /\ \A i \in Inputs : (ended'[i] # "no" \/ consumed'[i] # "no") => i \in Candidates'
      /\ \A i \in Inputs : consumed'[i] # "no" => consumed'[i] = ended'[i]
  BY <1>2, <1>3, <1>4 DEF Progress
<1> QED
  BY <1>2, <1>5, <1>6, <1>7 DEF Progress

\* Steps that consume nothing and publish nothing.
LEMMA ProgressKept ==
    ASSUME Progress, UNCHANGED <<count, ended, active, consumed, selected>>,
           request = "Stopped" => request' = "Stopped",
           phase' = "cold" => phase = "cold" /\ UNCHANGED <<published, output, fallback>>,
           Open' => output' \in {Undecided, Cancelled},
           dirty' => request' # "None",
           phase' \in {"woken", "selected"} =>
             \/ winner' = None /\ request' # "None"
             \/ winner' # None /\ winner' \in active /\ ended[winner'] # "no"
    PROVE  Progress'
<1>1. Candidates' = Candidates
  BY DEF Candidates
<1>2. /\ active' \subseteq Candidates'
      /\ \A i \in Inputs : (ended'[i] # "no" \/ consumed'[i] # "no") => i \in Candidates'
      /\ \A i \in Inputs : ended'[i] = "Stopped" => request' = "Stopped"
      /\ \A k \in DOMAIN selected' : selected'[k] \notin active'
      /\ \A i \in Inputs : consumed'[i] # "no" => consumed'[i] = ended'[i]
  BY <1>1 DEF Progress
<1>3. phase' = "cold" =>
         selected' = <<>> /\ published' = <<>> /\ output' = Undecided /\ fallback' = None
  BY DEF Progress
<1> QED
  BY <1>2, <1>3 DEF Progress

\* Every step keeps the progress facts.
LEMMA ProgressStep == TypeOK /\ Progress /\ [Next]_vars => Progress'
<1> SUFFICES ASSUME TypeOK, Progress, [Next]_vars PROVE Progress'
  OBVIOUS
<1>1. CASE StartRefused \/ StartEmpty
  <2>1. /\ UNCHANGED <<count, ended, active, consumed, selected, request, dirty>>
        /\ phase' = "delivered"
    BY <1>1 DEF StartRefused, StartEmpty, shape, childVars, choiceVars
  <2>2. ~Open'
    BY <2>1 DEF Open
  <2> QED
    BY <2>1, <2>2, ProgressKept DEF Progress
<1>2. CASE Start
  <2>1. /\ UNCHANGED <<count, ended, consumed, selected, request, dirty, output>>
        /\ active' = Candidates /\ phase' = "looping" /\ phase = "cold"
    BY <1>2 DEF Start, shape, childVars
  <2>2. Candidates' = Candidates /\ selected' = <<>> /\ output' = Undecided
    BY <2>1 DEF Candidates, Progress
  <2>3. /\ \A i \in Inputs : (ended'[i] # "no" \/ consumed'[i] # "no") => i \in Candidates'
        /\ \A i \in Inputs : ended'[i] = "Stopped" => request' = "Stopped"
        /\ \A i \in Inputs : consumed'[i] # "no" => consumed'[i] = ended'[i]
        /\ dirty' => request' # "None"
    BY <2>1, <2>2 DEF Progress
  <2>4. \A k \in DOMAIN selected' : selected'[k] \notin active'
    BY <2>2
  <2> QED
    BY <2>1, <2>2, <2>3, <2>4 DEF Progress
<1>3. ASSUME NEW i \in Inputs, SelectReady(i) PROVE Progress'
  <2>1. ended[i] # "no" /\ i # None /\ i \in active
    BY <1>3, CandidatesAreInputs DEF SelectReady, Unfinished, Progress
  <2>2. /\ UNCHANGED <<count, ended, active, consumed, selected, request, dirty, output>>
        /\ phase' = "selected" /\ winner' = i /\ Open
    BY <1>3 DEF SelectReady, shape, childVars, choiceVars, Open
  <2> QED
    BY <2>1, <2>2, ProgressKept DEF Progress
<1>4. CASE Wait \/ Resume
  <2>1. /\ UNCHANGED <<count, ended, active, consumed, selected, request, dirty, output, winner>>
        /\ Open /\ phase' \in {"waiting", "selected"}
        /\ phase' = "selected" => phase = "woken"
    BY <1>4 DEF Wait, Resume, shape, childVars, choiceVars, Open
  <2> QED
    BY <2>1, ProgressKept DEF Progress
<1>5. CASE AcceptRequest \/ Conclude
  <2>1. /\ UNCHANGED <<count, ended, active, consumed, selected, request, dirty>>
        /\ phase' = "closing" /\ ~Open'
    BY <1>5 DEF AcceptRequest, Conclude, Decide, shape, choiceVars, Open
  <2> QED
    BY <2>1, ProgressKept DEF Progress
<1>6. CASE Consumption
  BY <1>6, ConsumptionProgress
<1>7. CASE Deliver
  <2>1. /\ UNCHANGED <<count, ended, active, consumed, selected, request, dirty>>
        /\ phase' = "delivered" /\ ~Open'
    BY <1>7 DEF Deliver, shape, childVars, choiceVars, Open
  <2> QED
    BY <2>1, ProgressKept DEF Progress
<1>8. CASE Poll
  <2>1. /\ UNCHANGED <<count, ended, active, consumed, selected, request, output, fallback, published>>
        /\ request # "None" /\ ~dirty'
        /\ \/ phase = "waiting" /\ phase' = "woken" /\ winner' = None
           \/ UNCHANGED <<phase, winner>>
    BY <1>8 DEF Poll, shape, childVars, choiceVars, Progress
  <2>2. Open' => Open
    BY <2>1 DEF Open
  <2>3. phase' = "cold" => phase = "cold"
    BY <2>1
  <2> QED
    BY <2>1, <2>2, <2>3, ProgressKept DEF Progress
<1>9. ASSUME NEW i \in Inputs, NEW res \in Terminal, Publish(i, res) PROVE Progress'
  <2>1. /\ ended' = [ended EXCEPT ![i] = res] /\ i \in Candidates /\ ended[i] = "no" /\ res # "no"
        /\ request' = IF res = "Stopped" THEN "Stopped" ELSE request
        /\ UNCHANGED <<policy, count, active, consumed, selected, fallback, output>>
        /\ phase # "cold"
    BY <1>9 DEF Publish, Unfinished, Terminal, Suspended, shape, choiceVars
  <2>2. /\ ended'[i] = res /\ \A j \in Inputs : j # i => ended'[j] = ended[j]
    BY <2>1 DEF TypeOK
  <2>3. Candidates' = Candidates
    BY <2>1 DEF Candidates
  <2>4. /\ \A j \in Inputs : (ended'[j] # "no" \/ consumed'[j] # "no") => j \in Candidates'
        /\ \A j \in Inputs : ended'[j] = "Stopped" => request' = "Stopped"
        /\ active' \subseteq Candidates'
    BY <2>1, <2>2, <2>3 DEF Progress
  <2>5. \A j \in Inputs : consumed'[j] # "no" => consumed'[j] = ended'[j]
    BY <2>1, <2>2 DEF Progress
  <2>6. dirty' => request' # "None"
    BY <1>9, <2>1 DEF Progress, Publish
  <2>7. phase' \in {"woken", "selected"} =>
           \/ winner' = None /\ request' # "None"
           \/ winner' # None /\ winner' \in active' /\ ended'[winner'] # "no"
    <3>1. i # None /\ active \subseteq Inputs
      BY CandidatesAreInputs DEF TypeOK
    <3> QED
      BY <1>9, <2>1, <2>2, <3>1 DEF Progress, Publish
  <2>8. phase' # "cold" /\ (Open' => Open)
    BY <1>9, <2>1 DEF Publish, Open, Suspended
  <2> QED
    BY <2>1, <2>4, <2>5, <2>6, <2>7, <2>8 DEF Progress
<1>10. ASSUME NEW r \in {"Cancelled", "Stopped"}, Request(r) PROVE Progress'
  <2>1. /\ UNCHANGED <<count, ended, active, consumed, selected, output, fallback, published, phase, winner>>
        /\ request # "Stopped" /\ request' # "None"
    BY <1>10 DEF Request, shape, childVars, choiceVars
  <2>2. Open' = Open
    BY <2>1 DEF Open
  <2> QED
    BY <2>1, <2>2, ProgressKept DEF Progress
<1>11. CASE UNCHANGED vars
  <2>1. UNCHANGED <<count, ended, active, consumed, selected, request, dirty, output, fallback,
                    published, phase, winner>>
    BY <1>11 DEF vars, shape, childVars, choiceVars
  <2>2. Open' = Open
    BY <2>1 DEF Open
  <2> QED
    BY <2>1, <2>2, ProgressKept DEF Progress
<1> QED
  BY <1>1, <1>2, <1>3, <1>4, <1>5, <1>6, <1>7, <1>8, <1>9, <1>10, <1>11
     DEF Next, Step, Consumption

-----------------------------------------------------------------------------
(* The policies.                                                           *)

\* What the join's children became is not changed by steps that leave the
\* activation where it is.
LEMMA JoinStep == TypeOK /\ Progress /\ Join /\ [Next]_vars => Join'
<1> SUFFICES ASSUME TypeOK, Progress, Join, [Next]_vars, policy' = "WhenAll" PROVE Join'
  BY DEF Join
<1>0. policy = "WhenAll" /\ policy' = policy /\ count' = count /\ Candidates' = Candidates
  BY DEF Next, Step, StartRefused, StartEmpty, Start, SelectReady, Wait, Resume, AcceptRequest,
         JoinSuccess, JoinFailure, JoinCancelled, RaceFirst, Remember, FirstSuccess, Conclude,
         Deliver, Poll, Publish, Request, vars, shape, Candidates
<1>1. CASE StartRefused \/ StartEmpty
  BY <1>0, <1>1, Outcomes DEF Join, Open, Committed, Candidates, StartRefused, StartEmpty, shape, childVars, choiceVars
<1>2. CASE Start
  BY <1>0, <1>2, Outcomes DEF Join, Progress, Open, Committed, Start, shape, childVars
<1>3. CASE (\E i \in Inputs : SelectReady(i)) \/ Wait \/ Resume \/ Poll
  BY <1>0, <1>3 DEF Join, Open, Committed, SelectReady, Wait, Resume, Poll, shape, childVars, choiceVars
<1>4. CASE AcceptRequest
  BY <1>0, <1>4, Outcomes DEF Join, Progress, Open, Committed, AcceptRequest, Decide, shape, choiceVars
<1>5. CASE Consumption
  <2>1. PICK st : Ready /\ Consume(st)
    BY <1>5 DEF Consumption, JoinSuccess, JoinFailure, JoinCancelled, FirstSuccess, RaceFirst, Remember
  <2>2. /\ winner \in active /\ winner \in Candidates /\ winner \in Inputs
        /\ active' = active \ {winner}
        /\ consumed'[winner] = st
        /\ \A i \in Inputs : i # winner => consumed'[i] = consumed[i]
    BY <2>1, Consuming
  <2>3. Candidates \subseteq Inputs /\ active \subseteq Candidates /\ output \in {Undecided, Cancelled}
        /\ Open
    BY <2>1, CandidatesAreInputs DEF Progress, Consume, Open
  <2>4. CASE JoinSuccess
    <3>1. consumed'[winner] = "Success"
      BY <2>4, Consuming DEF JoinSuccess
    <3>2. \A i \in Candidates \ active' : i = winner \/ (i \in Candidates \ active /\ consumed'[i] = consumed[i])
      BY <2>2, <2>3
    <3>3. output' = output /\ Open' /\ ~Committed'
      BY <2>4 DEF JoinSuccess, Open, Committed
    <3>4. output = Cancelled => \E i \in Candidates : consumed'[i] = "Cancelled"
      <4>1. \A i \in Candidates \ active : consumed'[i] = consumed[i]
        BY <2>2, <2>3
      <4>2. SUFFICES ASSUME output = Cancelled PROVE \E i \in Candidates : consumed'[i] = "Cancelled"
        OBVIOUS
      <4>3. PICK i \in Candidates : consumed[i] = "Cancelled"
        BY <1>0, <2>3, <4>2 DEF Join
      <4>4. i # winner
        <5>1. ended[i] = "Cancelled"
          BY <2>3, <4>3 DEF Progress
        <5>2. ended[winner] = "Success"
          BY <2>4, Consuming DEF JoinSuccess
        <5> QED
          BY <5>1, <5>2
      <4> QED
        BY <2>2, <2>3, <4>3, <4>4
    <3> QED
      BY <1>0, <2>3, <3>1, <3>2, <3>3, <3>4 DEF Join
  <2>5. CASE JoinFailure
    BY <2>5, Outcomes DEF Join, JoinFailure, Decide, Open, Committed
  <2>6. CASE JoinCancelled
    <3>1. consumed'[winner] = "Cancelled"
      BY <2>6, Consuming DEF JoinCancelled
    <3>2. output' = Cancelled /\ Open' /\ ~Committed'
      BY <2>3, <2>6, Outcomes DEF JoinCancelled, Open, Committed
    <3>3. \A i \in Candidates \ active' : i = winner \/ (i \in Candidates \ active /\ consumed'[i] = consumed[i])
      BY <2>2, <2>3
    <3> QED
      BY <1>0, <2>2, <2>3, <3>1, <3>2, <3>3, Outcomes DEF Join
  <2> QED
    BY <1>0, <1>5, <2>4, <2>5, <2>6 DEF Consumption, FirstSuccess, RaceFirst, Remember
<1>6. CASE Conclude
  <2>1. /\ output' = Exhausted /\ Open /\ active = {} /\ ~Open' /\ Committed'
        /\ consumed' = consumed /\ request' = request
    BY <1>6 DEF Conclude, Decide, Open, Committed, choiceVars
  <2>2. output \in {Undecided, Cancelled}
    BY <2>1 DEF Progress
  <2> QED
    BY <1>0, <2>1, <2>2, Outcomes DEF Join, Exhausted
<1>7. CASE Deliver
  BY <1>0, <1>7, Outcomes DEF Join, Open, Committed, Deliver, shape, childVars, choiceVars
<1>8. ASSUME NEW i \in Inputs, NEW res \in Terminal, Publish(i, res) PROVE Join'
  <2>1. /\ UNCHANGED <<active, consumed, output>>
        /\ request' = "None" => request = "None"
        /\ (Open' <=> Open) /\ (Committed' <=> Committed)
    BY <1>8 DEF Publish, choiceVars, Open, Committed
  <2> QED
    BY <1>0, <2>1 DEF Join
<1>9. ASSUME NEW r \in {"Cancelled", "Stopped"}, Request(r) PROVE Join'
  BY <1>0, <1>9 DEF Join, Open, Committed, Request, shape, childVars, choiceVars
<1>10. CASE UNCHANGED vars
  BY <1>0, <1>10 DEF Join, Open, Committed, vars, shape, childVars, choiceVars
<1> QED
  BY <1>1, <1>2, <1>3, <1>4, <1>5, <1>6, <1>7, <1>8, <1>9, <1>10
     DEF Next, Step, Consumption

\* The first publication decides a race.
LEMMA FirstStep == TypeOK /\ Progress /\ First /\ [Next]_vars => First'
<1> SUFFICES ASSUME TypeOK, Progress, First, [Next]_vars, Race' PROVE First'
  BY DEF First
<1>0. Race /\ policy' = policy /\ Candidates' = Candidates
  BY DEF Race, Candidates, Next, Step, StartRefused, StartEmpty, Start, SelectReady, Wait, Resume, AcceptRequest,
         JoinSuccess, JoinFailure, JoinCancelled, RaceFirst, Remember, FirstSuccess, Conclude,
         Deliver, Poll, Publish, Request, vars, shape
<1>1. CASE StartRefused \/ StartEmpty
  <2>1. /\ fallback' = fallback /\ phase' = "delivered" /\ output'.from = None
    BY <1>1, Outcomes DEF StartRefused, StartEmpty, choiceVars
  <2> QED
    BY <1>0, <2>1 DEF First, Open, Committed
<1>2. CASE Start
  <2>1. /\ UNCHANGED <<fallback, published, ended, output>> /\ phase' = "looping" /\ phase = "cold"
        /\ active' = Candidates
    BY <1>2 DEF Start, childVars
  <2> QED
    BY <1>0, <2>1 DEF First, Open, Committed, Progress
<1>3. ASSUME NEW i \in Inputs, SelectReady(i) PROVE First'
  BY <1>0, <1>3 DEF First, SelectReady, Unfinished, Progress
<1>4. CASE Wait \/ Resume
  <2>1. /\ UNCHANGED <<fallback, published, ended, output, winner, active>>
        /\ \/ phase = "looping" /\ phase' = "waiting"
           \/ phase = "woken" /\ phase' = "selected"
    BY <1>4 DEF Wait, Resume, shape, childVars, choiceVars
  <2> QED
    BY <1>0, <2>1 DEF First, Open, Committed
<1>5. CASE AcceptRequest
  <2>1. fallback' = fallback /\ phase' = "closing" /\ output'.from = None
    BY <1>5, Outcomes DEF AcceptRequest, Decide, choiceVars
  <2> QED
    BY <1>0, <2>1 DEF First, Open, Committed
<1>6. CASE Consumption
  <2>1. PICK st \in {"Success", "Failure", "Cancelled"} : RaceFirst(st)
    BY <1>0, <1>6 DEF Consumption, Race, JoinSuccess, JoinFailure, JoinCancelled, FirstSuccess, Remember
  <2>2. /\ UNCHANGED <<fallback, published, ended>> /\ phase' = "closing" /\ phase = "selected"
        /\ output' = Outcome(st, IF st = "Cancelled" THEN None ELSE winner)
        /\ winner # None /\ ended[winner] = st
    BY <2>1, Consuming DEF RaceFirst, Consume, Decide
  <2>3. ended[winner] # "no"
    BY <2>2
  <2>4. output'.from # None => output'.from = winner /\ output'.kind = st
    BY <2>2, Outcomes
  <2> QED
    BY <1>0, <2>2, <2>3, <2>4 DEF First, Open, Committed
<1>7. CASE Conclude
  <2>1. fallback' = fallback /\ phase' = "closing" /\ output' = Exhausted /\ output = Undecided
    BY <1>0, <1>7 DEF Conclude, Decide, choiceVars, First, Open
  <2>2. output'.from = None
    BY <1>0, <2>1, Outcomes DEF Exhausted, First, Race
  <2> QED
    BY <1>0, <2>1, <2>2 DEF First, Open, Committed
<1>8. CASE Deliver
  <2>1. /\ UNCHANGED <<fallback, published, ended>> /\ phase = "closing" /\ phase' = "delivered"
        /\ output' = output \/ output'.from = None
    BY <1>8, Outcomes DEF Deliver, childVars, choiceVars
  <2> QED
    BY <1>0, <2>1 DEF First, Open, Committed
<1>9. CASE Poll
  <2>1. /\ UNCHANGED <<fallback, published, ended, output, active>>
        /\ \/ phase = "waiting" /\ phase' = "woken" /\ winner' = None
           \/ UNCHANGED <<phase, winner>>
    BY <1>9 DEF Poll, childVars, choiceVars
  <2> QED
    BY <1>0, <2>1 DEF First, Open, Committed
<1>10. ASSUME NEW i \in Inputs, NEW res \in Terminal, Publish(i, res) PROVE First'
  <2>1. /\ UNCHANGED <<fallback, output>> /\ Suspended
        /\ ended[i] = "no" /\ ended' = [ended EXCEPT ![i] = res]
        /\ published' = Append(published, i) /\ published \in Seq(Inputs)
        /\ i \in Candidates
    BY <1>10 DEF Publish, Unfinished, choiceVars, TypeOK
  <2>2. CASE phase = "waiting"
    <3>1. published = <<>>
      BY <1>0, <2>2 DEF First
    <3>2. published' # <<>> /\ published'[1] = i
      BY <2>1, <3>1
    <3>3. /\ \/ phase' = "woken" /\ winner' = i
             \/ i \notin active /\ UNCHANGED <<winner, phase>>
      BY <1>10, <2>2 DEF Publish
    <3>4. i \in active
      BY <1>0, <2>1, <2>2 DEF First
    <3> QED
      BY <1>0, <2>1, <2>2, <3>2, <3>3, <3>4 DEF First, Open, Committed
  <2>3. CASE phase # "waiting"
    <3>1. UNCHANGED <<winner, phase>> /\ phase \in {"woken", "closing"}
      BY <1>10, <2>1, <2>3 DEF Publish, Suspended
    <3>2. published # <<>> => published' # <<>> /\ published'[1] = published[1]
      BY <2>1
    <3>3. \A j \in Inputs : ended[j] # "no" => ended'[j] = ended[j]
      BY <2>1 DEF TypeOK
    <3>4. output.from # None => output.from \in Inputs
      BY DEF TypeOK
    <3> QED
      BY <1>0, <2>1, <3>1, <3>2, <3>3, <3>4 DEF First, Open, Committed
  <2> QED
    BY <2>2, <2>3
<1>11. CASE (\E r \in {"Cancelled", "Stopped"} : Request(r)) \/ UNCHANGED vars
  <2>1. UNCHANGED <<fallback, published, ended, output, winner, phase, active>>
    BY <1>11 DEF Request, vars, childVars, choiceVars
  <2> QED
    BY <1>0, <2>1 DEF First, Open, Committed
<1> QED
  BY <1>1, <1>2, <1>3, <1>4, <1>5, <1>6, <1>7, <1>8, <1>9, <1>10, <1>11
     DEF Next, Step, Consumption

\* Consuming one more child leaves what was consumed before as it is.
LEMMA FirstFailedKept ==
    ASSUME TypeOK, Progress, Ready, NEW state, Consume(state), NEW f, FirstFailed(f)
    PROVE  \E k \in DOMAIN selected' :
             /\ selected'[k] = f
             /\ \A j \in 1..(k - 1) : consumed'[selected'[j]] = "Cancelled"
<1>1. PICK k \in DOMAIN selected :
         selected[k] = f /\ \A j \in 1..(k - 1) : consumed[selected[j]] = "Cancelled"
  BY DEF FirstFailed
<1>2. /\ \A j \in DOMAIN selected : selected'[j] = selected[j] /\ consumed'[selected[j]] = consumed[selected[j]]
      /\ DOMAIN selected = 1..Len(selected) /\ Len(selected) \in Nat
      /\ DOMAIN selected' = 1..(Len(selected) + 1)
  BY Consuming
<1>3. k \in DOMAIN selected' /\ selected'[k] = f
  BY <1>1, <1>2
<1>4. \A j \in 1..(k - 1) : j \in DOMAIN selected
  BY <1>1, <1>2
<1>5. \A j \in 1..(k - 1) : consumed'[selected'[j]] = "Cancelled"
  BY <1>1, <1>2, <1>4
<1> QED
  BY <1>3, <1>5

\* first_successful goes on while nothing succeeded.
LEMMA FallbackStep == TypeOK /\ Progress /\ Fallback /\ [Next]_vars => Fallback'
<1> SUFFICES ASSUME TypeOK, Progress, Fallback, [Next]_vars, policy' = "FirstSuccessful" PROVE Fallback'
  BY DEF Fallback
<1>0. policy = "FirstSuccessful" /\ Candidates' = Candidates
  BY DEF Candidates, Next, Step, StartRefused, StartEmpty, Start, SelectReady, Wait, Resume, AcceptRequest,
         JoinSuccess, JoinFailure, JoinCancelled, RaceFirst, Remember, FirstSuccess, Conclude,
         Deliver, Poll, Publish, Request, vars, shape
<1>k. ASSUME UNCHANGED <<active, consumed, selected, fallback>>,
             Open' => Open, output' = output,
             Committed' => Committed
      PROVE  Fallback'
  <2>1. \A f : FirstFailed(f)' <=> FirstFailed(f)
    BY <1>k DEF FirstFailed
  <2> QED
    BY <1>0, <1>k, <2>1 DEF Fallback
<1>d. ASSUME ~Open', output'.kind # "Failure" PROVE Fallback'
  BY <1>d DEF Fallback
<1>1. CASE StartRefused \/ StartEmpty \/ AcceptRequest
  <2>1. ~Open' /\ output'.kind # "Failure"
    BY <1>1, Outcomes DEF StartRefused, StartEmpty, AcceptRequest, Decide, Open
  <2> QED
    BY <1>d, <2>1
<1>2. CASE Start
  <2>1. /\ UNCHANGED <<consumed, selected, fallback, output>> /\ phase' = "looping" /\ phase = "cold"
        /\ active' = Candidates
    BY <1>2 DEF Start
  <2>2. fallback' = None /\ selected' = <<>> /\ output' = Undecided /\ ~Committed'
    BY <2>1 DEF Progress, Committed
  <2> QED
    BY <1>0, <2>1, <2>2 DEF Fallback
<1>3. CASE (\E i \in Inputs : SelectReady(i)) \/ Wait \/ Resume \/ Poll
           \/ (\E r \in {"Cancelled", "Stopped"} : Request(r)) \/ UNCHANGED vars
  BY <1>3, <1>k DEF SelectReady, Wait, Resume, Poll, Request, vars, choiceVars, Open, Committed
<1>4. ASSUME NEW i \in Inputs, NEW res \in Terminal, Publish(i, res) PROVE Fallback'
  <2>1. UNCHANGED <<active, consumed, selected, fallback, output>>
    BY <1>4 DEF Publish, choiceVars
  <2>2. (Open' => Open) /\ (Committed' => Committed)
    BY <1>4 DEF Publish, Open, Committed
  <2> QED
    BY <1>k, <2>1, <2>2
<1>5. CASE FirstSuccess
  <2>1. ~Open' /\ output'.kind = "Success"
    BY <1>5, Outcomes DEF FirstSuccess, Decide, Open
  <2> QED
    BY <1>d, <2>1
<1>6. ASSUME NEW st \in {"Success", "Failure", "Cancelled"}, Remember(st) PROVE Fallback'
  <2>1. /\ Ready /\ Consume(st) /\ st \in {"Failure", "Cancelled"} /\ output' = output
        /\ fallback' = IF st = "Failure" /\ fallback = None THEN winner ELSE fallback
        /\ phase = "selected" /\ phase' = "looping"
    BY <1>6 DEF Remember, Consume
  <2>2. Open /\ ~Committed'
    BY <2>1 DEF Open, Committed
  <2>3. /\ winner \in Candidates /\ active' = active \ {winner} /\ consumed'[winner] = st
        /\ \A i \in Inputs : i # winner => consumed'[i] = consumed[i]
        /\ selected'[Len(selected) + 1] = winner
        /\ \A k \in DOMAIN selected : selected'[k] = selected[k] /\ consumed'[selected[k]] = consumed[selected[k]]
        /\ DOMAIN selected = 1..Len(selected) /\ Len(selected) \in Nat
        /\ DOMAIN selected' = 1..(Len(selected) + 1)
        /\ winner # None
    BY <2>1, Consuming DEF Consume
  <2>4. \A i \in Candidates \ active' : consumed'[i] \in {"Failure", "Cancelled"}
    BY <1>0, <2>1, <2>2, <2>3, CandidatesAreInputs DEF Fallback
  <2>5. \A k \in DOMAIN selected' : k \in DOMAIN selected \/ k = Len(selected) + 1
    BY <2>3
  <2>6. fallback' = None => \A k \in DOMAIN selected' : consumed'[selected'[k]] = "Cancelled"
    BY <1>0, <2>1, <2>2, <2>3, <2>5 DEF Fallback
  <2>7. fallback' # None =>
          \E k \in DOMAIN selected' :
            /\ selected'[k] = fallback'
            /\ \A j \in 1..(k - 1) : consumed'[selected'[j]] = "Cancelled"
    <3>1. CASE fallback # None
      <4>1. fallback' = fallback /\ FirstFailed(fallback)
        BY <1>0, <2>1, <2>2, <3>1 DEF Fallback
      <4> QED
        BY <2>1, <4>1, FirstFailedKept
    <3>2. CASE fallback = None /\ fallback' # None
      <4>1. fallback' = winner
        BY <2>1, <3>2
      <4>2. \A j \in 1..((Len(selected) + 1) - 1) : j \in DOMAIN selected
        BY <2>3
      <4>3. \A j \in 1..((Len(selected) + 1) - 1) : consumed'[selected'[j]] = "Cancelled"
        BY <1>0, <2>2, <2>3, <3>2, <4>2 DEF Fallback
      <4>4. Len(selected) + 1 \in DOMAIN selected'
        BY <2>3
      <4> QED
        BY <2>3, <4>1, <4>3, <4>4
    <3> QED
      BY <3>1, <3>2
  <2>8. output' = Undecided
    BY <1>0, <2>1, <2>2 DEF Fallback
  <2> QED
    BY <1>0, <2>2, <2>4, <2>6, <2>7, <2>8 DEF Fallback, FirstFailed
<1>7. CASE Conclude
  <2>1. /\ UNCHANGED <<active, consumed, selected, fallback>> /\ Open /\ ~Open' /\ active = {}
        /\ output' = Exhausted
    BY <1>7 DEF Conclude, Decide, choiceVars, Open
  <2>2. \/ output' = Outcome("Failure", fallback) /\ fallback # None
        \/ output' = Cancelled
    BY <1>0, <2>1 DEF Fallback, Exhausted
  <2>3. CASE output' = Cancelled
    BY <1>d, <2>1, <2>3, Outcomes
  <2>4. CASE output' = Outcome("Failure", fallback) /\ fallback # None
    <3>1. FirstFailed(fallback) /\ \A i \in Candidates : consumed[i] \in {"Failure", "Cancelled"}
      BY <1>0, <2>1, <2>4 DEF Fallback
    <3>2. FirstFailed(fallback)'
      BY <2>1, <3>1 DEF FirstFailed
    <3>3. output'.from = fallback /\ fallback' = fallback
      BY <2>1, <2>4, Outcomes
    <3> QED
      BY <1>0, <2>1, <3>1, <3>2, <3>3 DEF Fallback
  <2> QED
    BY <2>2, <2>3, <2>4
<1>8. CASE Deliver
  <2>1. /\ UNCHANGED <<active, consumed, selected, fallback>> /\ ~Open' /\ Committed
        /\ output' = output \/ output' = Stopped
    BY <1>8 DEF Deliver, choiceVars, Open, Committed
  <2>2. CASE output' = Stopped
    BY <1>d, <2>1, <2>2, Outcomes
  <2> QED
    BY <1>k, <2>1, <2>2
<1> QED
  BY <1>0, <1>1, <1>2, <1>3, <1>4, <1>5, <1>6, <1>7, <1>8
     DEF Next, Step, JoinSuccess, JoinFailure, JoinCancelled, RaceFirst

\* The invariant holds in every behaviour.
LEMMA Invariance == Spec => []IInv
<1>1. Init => IInv
  BY InitIInv
<1>2. IInv /\ [Next]_vars => IInv'
  BY TypeStep, ProgressStep, JoinStep, FirstStep, FallbackStep DEF IInv
<1> QED
  BY <1>1, <1>2, PTL DEF Spec

-----------------------------------------------------------------------------
(* Results.                                                                *)

\* Every variable keeps its type.
THEOREM TypeCorrect == Spec => []TypeOK
<1>1. IInv => TypeOK
  BY DEF IInv
<1> QED
  BY <1>1, Invariance, PTL

\* forward_nominal's assertion cannot fail: a stopped child is never consumed,
\* because its stop reaches the root before its completion is published.
THEOREM StoppedUnconsumed == Spec => []StoppedNeverConsumed
<1>1. IInv => StoppedNeverConsumed
  BY DEF IInv, Progress, StoppedNeverConsumed
<1> QED
  BY <1>1, Invariance, PTL

\* when_all succeeds only with the value of every input, and when one of its
\* inputs cancels it, no other failed.
THEOREM Joined == Spec => []JoinTruthful
<1>1. ASSUME IInv, policy = "WhenAll", Delivered("Success"), NEW i \in Candidates
      PROVE  consumed[i] = "Success" /\ ended[i] = "Success"
  <2>1. consumed[i] = "Success" /\ i \in Inputs
    BY <1>1, CandidatesAreInputs DEF IInv, Join, Delivered, Committed
  <2> QED
    BY <1>1, <2>1 DEF IInv, Progress
<1>2. ASSUME IInv, policy = "WhenAll", Delivered("Cancelled"), request = "None"
      PROVE  /\ \E i \in Inputs : ended[i] = "Cancelled"
             /\ \A i \in Candidates : consumed[i] \in {"Success", "Cancelled"}
  <2>1. /\ \A i \in Candidates : consumed[i] \in {"Success", "Cancelled"}
        /\ \E i \in Candidates : consumed[i] = "Cancelled"
    BY <1>2 DEF IInv, Join, Delivered, Committed
  <2>2. PICK i \in Candidates : consumed[i] = "Cancelled"
    BY <2>1
  <2>3. i \in Inputs
    BY <1>2, CandidatesAreInputs DEF IInv
  <2>4. ended[i] = "Cancelled"
    BY <1>2, <2>2, <2>3 DEF IInv, Progress
  <2> QED
    BY <2>1, <2>3, <2>4
<1>3. IInv => JoinTruthful
  BY <1>1, <1>2 DEF JoinTruthful
<1> QED
  BY <1>3, Invariance, PTL

\* when_any and timeout forward the completion that was published first.
THEOREM FirstWins == Spec => []RaceDeliversFirst
<1>1. IInv => RaceDeliversFirst
  BY DEF IInv, First, Race, Committed, RaceDeliversFirst
<1> QED
  BY <1>1, Invariance, PTL

\* What a join and a race deliver is true of their inputs.
THEOREM DeliversTruth == Spec => []DeliveryTruthful
<1>1. JoinTruthful /\ RaceDeliversFirst => DeliveryTruthful
  BY DEF DeliveryTruthful
<1> QED
  BY <1>1, Joined, FirstWins, PTL

\* first_successful fails only when nothing succeeded, with its first failure.
THEOREM FirstFailure == Spec => []FirstFailureForwarded
<1>1. IInv => FirstFailureForwarded
  <2> SUFFICES ASSUME IInv, policy = "FirstSuccessful", Delivered("Failure")
               PROVE  /\ \A i \in Inputs : ended[i] # "Success"
                      /\ FirstFailed(output.from)
    BY DEF FirstFailureForwarded, FirstFailed
  <2>1. /\ \A i \in Candidates : consumed[i] \in {"Failure", "Cancelled"}
        /\ FirstFailed(output.from)
    BY DEF IInv, Fallback, Delivered, Committed
  <2>2. \A i \in Inputs : ended[i] # "Success"
    BY <2>1 DEF IInv, Progress
  <2> QED
    BY <2>1, <2>2
<1> QED
  BY <1>1, Invariance, PTL

\* No success and no failure is committed over a pending parent request.
THEOREM RequestFirst == Spec => CommitsUnrequested
<1>1. IInv /\ [Next]_vars =>
        (~Committed /\ Committed' /\ output'.kind \in {"Success", "Failure"} => request = "None")
  <2> SUFFICES ASSUME IInv, [Next]_vars, ~Committed, Committed',
                      output'.kind \in {"Success", "Failure"}
               PROVE  request = "None"
    OBVIOUS
  <2>1. CASE StartRefused \/ StartEmpty \/ AcceptRequest
    BY <2>1, Outcomes DEF StartRefused, StartEmpty, AcceptRequest, Decide
  <2>2. CASE Consumption
    BY <2>2 DEF Consumption, Ready, JoinSuccess, JoinFailure, JoinCancelled, FirstSuccess,
                RaceFirst, Remember
  <2>3. CASE Conclude
    <3>1. output' = Exhausted /\ output \in {Undecided, Cancelled}
      BY <2>3 DEF Conclude, Decide, IInv, Progress, Open
    <3> QED
      BY <3>1, Outcomes DEF Exhausted
  <2>4. ASSUME NEW i \in Inputs, NEW res \in Terminal, Publish(i, res) PROVE FALSE
    BY <2>4 DEF Publish, Committed
  <2> QED
    BY <2>1, <2>2, <2>3, <2>4 DEF Next, Step, Consumption, Start, SelectReady, Wait, Resume,
       Deliver, Poll, Request, Committed, vars, choiceVars
<1> QED
  BY <1>1, Invariance, PTL DEF Spec, CommitsUnrequested

\* A committed outcome is final; only a stop of the root replaces it.
THEOREM OutcomeFinal == Spec => CommitmentStable
<1>1. [Next]_vars => (Committed => output' = output \/ (output' = Stopped /\ request = "Stopped"))
  <2> SUFFICES ASSUME [Next]_vars, Committed
               PROVE  output' = output \/ (output' = Stopped /\ request = "Stopped")
    OBVIOUS
  <2>1. CASE Deliver
    BY <2>1 DEF Deliver
  <2>2. ~(Step /\ ~Deliver)
    BY DEF Committed, Step, StartRefused, StartEmpty, Start, SelectReady, Wait, Resume,
           AcceptRequest, JoinSuccess, JoinFailure, JoinCancelled, RaceFirst, Remember,
           FirstSuccess, Conclude, Consume
  <2> QED
    BY <2>1, <2>2 DEF Next, Poll, Publish, Request, vars, choiceVars
<1> QED
  BY <1>1, PTL DEF Spec, CommitmentStable

\* For any number of inputs: an activation delivers only when every child that it
\* started has ended, whether or not it selected one (composition.hpp:328).  Before
\* startup no candidate is active, so a refusal has started nothing.
THEOREM Closes == Spec => []ClosedBeforeDelivery
<1> DEFINE ColdEmpty == phase = "cold" => active = {}
           Inv == ColdEmpty /\ ClosedBeforeDelivery
<1>1. Init => Inv
    BY DEF Init, ClosedBeforeDelivery
<1>2. IInv /\ Inv /\ [Next]_vars => Inv'
    <2> SUFFICES ASSUME IInv, Inv, [Next]_vars PROVE Inv' OBVIOUS
    <2>1. ASSUME phase' \notin {"cold", "delivered"} PROVE Inv'
        BY <2>1 DEF ClosedBeforeDelivery
    <2>2. ASSUME UNCHANGED <<phase, active, selected, ended, count>> PROVE Inv'
        BY <2>2 DEF ClosedBeforeDelivery, Started, Unfinished, Candidates
    <2>3. CASE UNCHANGED vars
        BY <2>2, <2>3 DEF vars, shape, childVars, choiceVars
    <2>4. CASE StartRefused \/ StartEmpty
        <3>1. selected' = <<>> /\ active' = {} /\ phase' = "delivered"
            BY <2>4 DEF StartRefused, StartEmpty, choiceVars, IInv, Progress
        <3> QED BY <3>1 DEF ClosedBeforeDelivery, Started
    <2>5. CASE Deliver
        <3>1. Unfinished' = {} /\ phase' = "delivered"
            BY <2>5 DEF Deliver, Unfinished, Candidates, shape, childVars
        <3> QED BY <3>1 DEF ClosedBeforeDelivery
    <2>6. CASE Start \/ (\E i \in Inputs : SelectReady(i)) \/ Wait \/ Resume \/ AcceptRequest \/ Conclude
        BY <2>1, <2>6 DEF Start, SelectReady, Wait, Resume, AcceptRequest, Conclude, Decide
    <2>7. CASE \/ JoinSuccess \/ JoinFailure \/ JoinCancelled \/ FirstSuccess
               \/ \E state \in {"Success", "Failure", "Cancelled"} : RaceFirst(state) \/ Remember(state)
        BY <2>1, <2>7 DEF JoinSuccess, JoinFailure, JoinCancelled, FirstSuccess, RaceFirst, Remember, Decide
    <2>8. CASE Poll
        BY <2>1, <2>2, <2>8 DEF Poll, shape, childVars, choiceVars
    <2>9. CASE \E i \in Inputs, result \in Terminal : Publish(i, result)
        BY <2>1, <2>9 DEF Publish, Suspended
    <2>10. CASE \E r \in {"Cancelled", "Stopped"} : Request(r)
        BY <2>2, <2>10 DEF Request, shape, childVars, choiceVars
    <2> QED BY <2>3, <2>4, <2>5, <2>6, <2>7, <2>8, <2>9, <2>10 DEF Next, Step
<1>3. Inv => ClosedBeforeDelivery OBVIOUS
<1> QED BY <1>1, <1>2, <1>3, Invariance, PTL DEF Spec

-----------------------------------------------------------------------------
(* Timeout: its composite keeps the invariant above.                      *)

\* What the timer child of a started timeout has come to.  It never ends with a
\* timeout before the deadline, which is the sum that was checked.
TimerRight ==
    /\ policy = "ForwardFirst" /\ count = 2
    /\ now \in 0..MaxInstant /\ duration \in Durations
    /\ started \in Int /\ deadline \in Int
    /\ phase = "cold" => timer = "none"
    /\ timer # "none" => deadline = started + duration
    /\ timer = "expired" => deadline <= now
    /\ ended[TimerChild] # "no" => timer # "none"
    /\ ended[TimerChild] = "Failure" => deadline <= now

\* A refused timeout has ended, at the instant it was called.
Refused ==
    /\ refusal # "none" => phase = "delivered"
    /\ refusal = "RangeError" => now + duration > MaxInstant

TimeoutInv == IInv /\ TimerRight /\ Refused

\* Both children are inputs of the pack.
LEMMA ChildrenAreInputs ==
    IInv /\ TimerRight => TimerChild \in Inputs /\ Protected \in Inputs /\ TimerChild # Protected
  BY CountAssumption DEF IInv, TypeOK, TimerRight, Inputs, TimerChild, Protected

\* A refusal keeps what is known of a composite.
LEMMA RefusalKeeps ==
    ASSUME IInv, policy = "ForwardFirst", NEW f, Refuse(f)
    PROVE  IInv'
<1>1. /\ UNCHANGED <<policy, count, request, dirty, ended, asked, published, winner,
                     active, consumed, fallback, selected>>
      /\ output' = Outcome("Failure", None) /\ phase' = "delivered"
  BY DEF Refuse, shape, childVars, choiceVars
<1>2. TypeOK'
  <2>1. output' \in Outputs
    BY <1>1, OutcomeType DEF Terminal
  <2> QED
    BY <1>1, <2>1 DEF IInv, TypeOK, Outputs
<1>3. ~Open'
  BY <1>1 DEF Open
<1>4. Progress'
  BY <1>1, <1>3, ProgressKept DEF IInv, Progress
<1>5. Join' /\ Fallback'
  BY <1>1 DEF Join, Fallback
<1>6. First'
  BY <1>1, <1>3, Outcomes DEF IInv, First, Race, Committed
<1> QED
  BY <1>2, <1>4, <1>5, <1>6 DEF IInv

\* The timer child's return is a publication of the second candidate.
LEMMA TimerPublishes ==
    ASSUME IInv, TimerRight, NEW woken \in {"Failure", "Cancelled"}, TimerEnds(woken)
    PROVE  /\ Next
           /\ timer' = "ended" /\ UNCHANGED <<now, clockVars, policy, count>>
           /\ phase # "cold" /\ phase' # "cold"
           /\ ended'[TimerChild] = "Failure" => woken = "Failure"
<1> DEFINE res == IF request = "Stopped" THEN "Stopped" ELSE woken
<1>1. TimerChild \in Inputs /\ res \in Terminal /\ (res = "Failure" => woken = "Failure")
  BY ChildrenAreInputs DEF Terminal
<1>2. Publish(TimerChild, res) /\ timer' = "ended" /\ UNCHANGED <<now, clockVars>>
  BY DEF TimerEnds
<1> HIDE DEF res
<1>3. ended'[TimerChild] = res
  BY <1>1, <1>2 DEF Publish, IInv, TypeOK
<1>4. phase # "cold" /\ phase' # "cold" /\ UNCHANGED <<policy, count>>
  BY <1>2 DEF Publish, Suspended, shape
<1> QED
  BY <1>1, <1>2, <1>3, <1>4 DEF Next

\* Every other step of a timeout is a step of its composite or leaves it alone.
LEMMA TimeoutIsComposite ==
    ASSUME IInv, TimerRight, TimeoutNext
    PROVE  [Next]_vars \/ \E f : Refuse(f)
<1>1. CASE Steps
  BY <1>1 DEF Steps, RefuseCancelled, RefuseElapsed, RefuseRange, Begin, Compose, Next, Step
<1>2. CASE TimerSteps
  BY <1>2, TimerPublishes DEF TimerSteps, TimerStarts, PollTimer, TimerReturns
<1>3. CASE ProtectedEnds
  BY <1>3, ChildrenAreInputs DEF ProtectedEnds, Next
<1>4. CASE Tick \/ (Poll /\ UNCHANGED timeVars)
           \/ \E r \in {"Cancelled", "Stopped"} : Request(r) /\ UNCHANGED timeVars
  BY <1>4 DEF Tick, Next
<1> QED
  BY <1>1, <1>2, <1>3, <1>4 DEF TimeoutNext

\* The composite's invariant is one of the timeout.
LEMMA CompositeKept == IInv /\ TimerRight /\ [TimeoutNext]_<<vars, timeVars>> => IInv'
<1> SUFFICES ASSUME IInv, TimerRight, [TimeoutNext]_<<vars, timeVars>> PROVE IInv'
  OBVIOUS
<1>1. [Next]_vars \/ \E f : Refuse(f)
  BY TimeoutIsComposite
<1>2. [Next]_vars => IInv'
  BY TypeStep, ProgressStep, JoinStep, FirstStep, FallbackStep DEF IInv
<1>3. ASSUME NEW f, Refuse(f) PROVE IInv'
  BY <1>3, RefusalKeeps DEF TimerRight
<1> QED
  BY <1>1, <1>2, <1>3

\* A step that leaves clock, timer and the timer child's completion alone.
LEMMA TimerUntouched ==
    ASSUME TimerRight, UNCHANGED <<policy, count, now, duration, started, deadline, timer>>,
           phase' = "cold" => phase = "cold", ended'[TimerChild] = ended[TimerChild]
    PROVE  TimerRight'
  BY DEF TimerRight

\* Every step keeps what the timer has come to.
LEMMA TimerKept == IInv /\ TimerRight /\ [TimeoutNext]_<<vars, timeVars>> => TimerRight'
<1> SUFFICES ASSUME IInv, TimerRight, [TimeoutNext]_<<vars, timeVars>> PROVE TimerRight'
  OBVIOUS
<1>0. /\ MaxInstant \in Nat /\ now \in Int /\ duration \in Int
      /\ TimerChild \in Inputs /\ Protected \in Inputs /\ TimerChild # Protected
  BY InstantAssumption, ChildrenAreInputs DEF TimerRight
<1>1. CASE RefuseElapsed \/ RefuseRange
  BY <1>1, TimerUntouched DEF RefuseElapsed, RefuseRange, Refuse, shape, childVars
<1>2. CASE RefuseCancelled
  BY <1>2, TimerUntouched DEF RefuseCancelled, StartRefused, shape, childVars, timeVars, clockVars
<1>3. CASE Begin
  <2>1. /\ started' = now /\ deadline' = now + duration /\ timer' = "queued"
        /\ UNCHANGED <<now, duration, policy, count, ended>>
        /\ phase = "cold" /\ phase' # "cold"
    BY <1>3 DEF Begin, Start, shape, childVars
  <2>2. ended[TimerChild] = "no"
    BY <1>0, <2>1 DEF IInv, First, Race, TimerRight
  <2> QED
    BY <1>0, <2>1, <2>2 DEF TimerRight
<1>4. CASE Compose
  <2>1. UNCHANGED <<policy, count, ended, now, duration, started, deadline, timer>> /\ phase' # "cold"
    BY <1>4 DEF Compose, SelectReady, Wait, Resume, AcceptRequest, RaceFirst, Decide, Deliver,
                shape, childVars, timeVars, clockVars
  <2> QED
    BY <2>1, TimerUntouched
<1>5. ASSUME NEW woken \in {"Failure", "Cancelled"}, TimerEnds(woken),
             timer # "none", woken = "Failure" => deadline <= now
      PROVE  TimerRight'
  BY <1>5, TimerPublishes DEF TimerRight, clockVars
<1>6. CASE TimerStarts
  <2>1. CASE timer' = "parked" /\ UNCHANGED <<vars, now, clockVars>>
    BY <1>6, <2>1 DEF TimerStarts, TimerRight, vars, shape, childVars, clockVars
  <2> QED
    BY <1>5, <1>6, <2>1 DEF TimerStarts
<1>7. CASE PollTimer
  <2>1. /\ UNCHANGED <<policy, count, ended, phase, now, duration, started, deadline>>
        /\ timer = "parked"
        /\ timer' = "cancelled" \/ (timer' = "expired" /\ deadline <= now)
    BY <1>7 DEF PollTimer, vars, shape, childVars, clockVars
  <2> QED
    BY <2>1 DEF TimerRight
<1>8. CASE TimerReturns
  <2>1. timer = "expired" => deadline <= now
    BY DEF TimerRight
  <2> QED
    BY <1>5, <1>8, <2>1 DEF TimerReturns
<1>9. CASE ProtectedEnds
  <2>1. PICK result \in Terminal : Publish(Protected, result)
    BY <1>9 DEF ProtectedEnds
  <2>2. UNCHANGED <<policy, count, now, duration, started, deadline, timer>> /\ phase' # "cold"
    BY <1>9, <2>1 DEF ProtectedEnds, Publish, Suspended, shape, timeVars, clockVars
  <2>3. ended'[TimerChild] = ended[TimerChild]
    BY <1>0, <2>1 DEF Publish, IInv, TypeOK
  <2> QED
    BY <2>2, <2>3, TimerUntouched
<1>10. CASE Tick
  <2>1. /\ UNCHANGED <<policy, count, ended, phase, duration, started, deadline, timer>>
        /\ now' = now + 1 /\ now' \in 0..MaxInstant
    BY <1>0, <1>10 DEF Tick, TimerRight, vars, shape, childVars, clockVars
  <2>2. deadline <= now => deadline <= now'
    BY <1>0, <2>1 DEF TimerRight
  <2> QED
    BY <2>1, <2>2 DEF TimerRight
<1>11. CASE \/ Poll /\ UNCHANGED timeVars
            \/ \E r \in {"Cancelled", "Stopped"} : Request(r) /\ UNCHANGED timeVars
            \/ UNCHANGED <<vars, timeVars>>
  <2>1. /\ UNCHANGED <<policy, count, ended, now, duration, started, deadline, timer>>
        /\ phase' = "cold" => phase = "cold"
    BY <1>11 DEF Poll, Request, vars, shape, childVars, timeVars, clockVars
  <2> QED
    BY <2>1, TimerUntouched
<1> QED
  BY <1>1, <1>2, <1>3, <1>4, <1>6, <1>7, <1>8, <1>9, <1>10, <1>11
     DEF TimeoutNext, Steps, TimerSteps

\* A delivered timeout stays as it is, and its clock is looked at no more.
LEMMA RefusedKept == TimerRight /\ Refused /\ [TimeoutNext]_<<vars, timeVars>> => Refused'
<1> SUFFICES ASSUME TimerRight, Refused, [TimeoutNext]_<<vars, timeVars>> PROVE Refused'
  OBVIOUS
<1>1. ASSUME UNCHANGED <<now, duration, refusal>>, phase = "delivered" => phase' = "delivered"
      PROVE  Refused'
  BY <1>1 DEF Refused
<1>2. CASE RefuseElapsed
  BY <1>2 DEF RefuseElapsed, Refuse, Refused
<1>3. CASE RefuseRange
  <2>1. now \in Int /\ duration \in Int /\ MaxInstant \in Int
    BY InstantAssumption DEF TimerRight
  <2>2. now' + duration' > MaxInstant /\ phase' = "delivered"
    BY <1>3, <2>1 DEF RefuseRange, Refuse
  <2> QED
    BY <2>2 DEF Refused
<1>4. CASE RefuseCancelled \/ Begin
  BY <1>1, <1>4 DEF RefuseCancelled, StartRefused, Begin, Start, timeVars, clockVars
<1>5. CASE Compose
  <2>1. UNCHANGED <<now, duration, refusal>>
    BY <1>5 DEF Compose, timeVars, clockVars
  <2>2. phase # "delivered"
    BY <1>5 DEF Compose, SelectReady, Wait, Resume, AcceptRequest, RaceFirst, Consume, Deliver
  <2> QED
    BY <1>1, <2>1, <2>2
<1>6. CASE TimerSteps
  BY <1>1, <1>6 DEF TimerSteps, TimerStarts, PollTimer, TimerReturns, TimerEnds, Publish, Suspended,
                    vars, shape, clockVars
<1>7. CASE ProtectedEnds
  BY <1>1, <1>7 DEF ProtectedEnds, Publish, Suspended, timeVars, clockVars
<1>8. CASE Tick
  BY <1>8 DEF Tick, Refused, clockVars
<1>9. CASE \/ Poll /\ UNCHANGED timeVars
           \/ \E r \in {"Cancelled", "Stopped"} : Request(r) /\ UNCHANGED timeVars
           \/ UNCHANGED <<vars, timeVars>>
  BY <1>1, <1>9 DEF Poll, Request, vars, shape, timeVars, clockVars
<1> QED
  BY <1>2, <1>3, <1>4, <1>5, <1>6, <1>7, <1>8, <1>9 DEF TimeoutNext, Steps

\* The invariant holds in every behaviour of a timeout.
LEMMA TimeoutInvariance == TimeoutSpec => []TimeoutInv
<1>1. TimeoutInit => TimeoutInv
  <2> SUFFICES ASSUME TimeoutInit PROVE TimeoutInv
    OBVIOUS
  <2>1. IInv
    BY InitIInv DEF TimeoutInit
  <2>2. TimerChild \in Inputs
    BY <2>1, CountAssumption DEF TimeoutInit, IInv, TypeOK, Inputs, TimerChild
  <2>3. ended[TimerChild] = "no"
    BY <2>2 DEF TimeoutInit, Init
  <2> QED
    BY <2>1, <2>3 DEF TimeoutInit, TimeoutInv, TimerRight, Refused
<1>2. TimeoutInv /\ [TimeoutNext]_<<vars, timeVars>> => TimeoutInv'
  BY CompositeKept, TimerKept, RefusedKept DEF TimeoutInv
<1> QED
  BY <1>1, <1>2, PTL DEF TimeoutSpec

\* No timeout is reported before its duration has passed since it was started,
\* and no deadline that can be represented is refused.
THEOREM NeverEarly == TimeoutSpec => []DeadlineExact
<1>1. ASSUME TimeoutInv, phase = "delivered", output.kind = "Failure", output.from = TimerChild
      PROVE  now >= started + duration
  <2>1. ended[TimerChild] = "Failure"
    BY <1>1 DEF TimeoutInv, IInv, First, Race, Committed, TimerRight, TimerChild, None
  <2>2. deadline <= now /\ deadline = started + duration
    BY <1>1, <2>1 DEF TimeoutInv, TimerRight
  <2>3. now \in Int /\ deadline \in Int
    BY <1>1, InstantAssumption DEF TimeoutInv, TimerRight
  <2> QED
    BY <2>2, <2>3
<1>2. TimeoutInv => (refusal = "RangeError" => now + duration > MaxInstant)
  BY DEF TimeoutInv, Refused
<1>3. TimeoutInv => DeadlineExact
  BY <1>1, <1>2 DEF DeadlineExact
<1> QED
  BY <1>3, TimeoutInvariance, PTL
=============================================================================
