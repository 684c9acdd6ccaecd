---------------------------- MODULE Composition ----------------------------
(***************************************************************************)
(* One activation of compose(), the coroutine behind when_all, when_any,   *)
(* first_successful and, as ForwardFirst, timeout                          *)
(* (crafts/carven/runtime/execution/composition.hpp).                      *)
(*                                                                         *)
(* The composite starts every input as a child of its own scope, waits for *)
(* one terminal child at a time with an accepting WaitReadyAwaiter,        *)
(* decides an output by its policy, closes the scope and delivers.  The    *)
(* driver, modelled by Execution, appears here through what it guarantees: *)
(* while the composite runs nothing else does, and a poll delivers a       *)
(* recorded request before any other frame is dispatched.                  *)
(***************************************************************************)
EXTENDS Naturals, Sequences, FiniteSets, SequencesExt

CONSTANTS
    Count,     \* how many inputs a composite may have
    Policies   \* the policies a behaviour may instantiate

AllPolicies == {"WhenAll", "WhenAny", "FirstSuccessful", "ForwardFirst"}

ASSUME CountAssumption == Count \in Nat
ASSUME PoliciesAssumption == Policies \subseteq AllPolicies

Inputs == 1..Count
None == 0

VARIABLES
    policy,     \* the template argument Policy
    count,      \* the size of the pack Inputs
    phase,      \* how far the coroutine has come
    request,    \* the request the composite's task reads on its parent chain
    dirty,      \* Driver::cancellation_dirty
    ended,      \* the completion each child has published
    asked,      \* the children that were asked to cancel
    active,     \* the candidates that were not consumed
    winner,     \* the committed selection, None for a cancellation
    consumed,   \* CandidateState of the consumed slots
    fallback,   \* the first failure first_successful has consumed
    output,     \* the decided outcome
    published,  \* history: children in the order they became terminal
    selected    \* history: candidates in the order they were consumed

childVars == <<ended, asked, published>>
choiceVars == <<active, consumed, fallback, selected>>
shape == <<policy, count>>
vars == <<shape, phase, request, dirty, childVars, winner, choiceVars, output>>

Terminal == {"Success", "Failure", "Cancelled", "Stopped"}

Outcome(kind, i) == [kind |-> kind, from |-> i]
Undecided == Outcome("none", None)
Cancelled == Outcome("Cancelled", None)
Stopped   == Outcome("Stopped", None)

Candidates == 1..count
Unfinished == {i \in Candidates : ended[i] = "no"}

\* The thread is executing compose(): no child, poll or owner runs.
Executing == phase \in {"looping", "selected"}
Suspended == phase \in {"waiting", "woken", "closing"}

-----------------------------------------------------------------------------
Init ==
    /\ policy \in Policies /\ count \in 0..Count
    /\ count = 0 => policy = "WhenAll"
    /\ phase = "cold"
    /\ request = "None"
    /\ dirty = FALSE
    /\ ended = [i \in Inputs |-> "no"]
    /\ asked = {}
    /\ active = {}
    /\ winner = None
    /\ consumed = [i \in Inputs |-> "no"]
    /\ fallback = None
    /\ output = Undecided
    /\ published = <<>>
    /\ selected = <<>>

-----------------------------------------------------------------------------
(* Leaving the loop: the output is decided and the scope closes, asking its *)
(* children to cancel when some were not consumed.                          *)

\* Mutant: the losers are left running.
DecideAskingNone(o, remaining) ==
    /\ output' = o /\ phase' = "closing"
    /\ UNCHANGED asked

Decide(o, remaining) ==
    /\ output' = o /\ phase' = "closing"
    /\ asked' = IF remaining # {} THEN Candidates ELSE asked

\* Before startup: a pending request completes the composite at once.
StartRefused ==
    /\ phase = "cold" /\ ~dirty /\ request # "None"
    /\ output' = IF request = "Stopped" THEN Stopped ELSE Cancelled
    /\ phase' = "delivered"
    /\ UNCHANGED <<shape, request, dirty, childVars, winner, choiceVars>>

StartEmpty ==
    /\ phase = "cold" /\ ~dirty /\ request = "None" /\ count = 0
    /\ output' = Outcome("Success", None)
    /\ phase' = "delivered"
    /\ UNCHANGED <<shape, request, dirty, childVars, winner, choiceVars>>

Start ==
    /\ phase = "cold" /\ ~dirty /\ request = "None" /\ count # 0
    /\ active' = Candidates
    /\ phase' = "looping"
    /\ UNCHANGED <<shape, request, dirty, childVars, winner, consumed, fallback,
                   selected, output>>

-----------------------------------------------------------------------------
(* The selection loop.                                                     *)

\* WaitReadyAwaiter finds terminal candidates: the lowest position is chosen.
SelectReady(i) ==
    /\ phase = "looping" /\ request = "None"
    /\ i \in active \ Unfinished
    /\ \A j \in active \ Unfinished : i <= j
    /\ winner' = i /\ phase' = "selected"
    /\ UNCHANGED <<shape, request, dirty, childVars, choiceVars, output>>

Wait ==
    /\ phase = "looping" /\ request = "None"
    /\ active # {} /\ active \subseteq Unfinished
    /\ phase' = "waiting"
    /\ UNCHANGED <<shape, request, dirty, childVars, winner, choiceVars, output>>

Resume ==
    /\ phase = "woken" /\ ~dirty
    /\ phase' = "selected"
    /\ UNCHANGED <<shape, request, dirty, childVars, winner, choiceVars, output>>

\* Stop and cancellation are read at the head of the loop and after the wait.
AcceptRequest ==
    /\ \/ phase = "looping" /\ active # {} /\ request # "None"
       \/ phase = "selected" /\ (request # "None" \/ winner = None)
    /\ Decide(IF request = "Stopped" THEN Stopped ELSE Cancelled, active)
    /\ UNCHANGED <<shape, request, dirty, ended, published, winner, choiceVars>>

\* The candidate's completion moves into its slot.  Every completion that is
\* neither a success nor a cancellation counts as a nominal failure.
Consume(state) ==
    /\ phase = "selected" /\ winner # None
    /\ state = IF ended[winner] \in {"Success", "Cancelled"} THEN ended[winner] ELSE "Failure"
    /\ consumed' = [consumed EXCEPT ![winner] = state]
    /\ active' = active \ {winner}
    /\ selected' = Append(selected, winner)

Ready == request = "None"

\* when_all goes on after a success; a failure is its outcome.
JoinSuccess ==
    /\ policy = "WhenAll" /\ Ready /\ Consume("Success")
    /\ phase' = "looping"
    /\ UNCHANGED <<shape, request, dirty, childVars, winner, fallback, output>>

JoinFailure ==
    /\ policy = "WhenAll" /\ Ready /\ Consume("Failure")
    /\ Decide(Outcome("Failure", winner), active \ {winner})
    /\ UNCHANGED <<shape, request, dirty, ended, published, winner, fallback>>

\* Mutant: a cancelled child ends the join at once.
JoinCancelledFinal ==
    /\ policy = "WhenAll" /\ Ready /\ Consume("Cancelled")
    /\ Decide(Cancelled, active \ {winner})
    /\ UNCHANGED <<shape, request, dirty, ended, published, winner, fallback>>

\* A cancelled child cancels its siblings once but keeps the join open, so a
\* later failure can replace the outcome.
JoinCancelled ==
    /\ policy = "WhenAll" /\ Ready /\ Consume("Cancelled")
    /\ IF output = Undecided
       THEN output' = Cancelled /\ asked' = asked \cup (active \ {winner})
       ELSE UNCHANGED <<output, asked>>
    /\ phase' = "looping"
    /\ UNCHANGED <<shape, request, dirty, ended, published, winner, fallback>>

\* when_any and ForwardFirst take the first terminal completion.
RaceFirst(state) ==
    /\ policy \in {"WhenAny", "ForwardFirst"} /\ Ready /\ Consume(state)
    /\ Decide(Outcome(state, IF state = "Cancelled" THEN None ELSE winner), active \ {winner})
    /\ UNCHANGED <<shape, request, dirty, ended, published, winner, fallback>>

FirstSuccess ==
    /\ policy = "FirstSuccessful" /\ Ready /\ Consume("Success")
    /\ Decide(Outcome("Success", winner), active \ {winner})
    /\ UNCHANGED <<shape, request, dirty, ended, published, winner, fallback>>

\* first_successful goes on after a failure or a cancellation and remembers
\* the first failure.
Remember(state) ==
    /\ policy = "FirstSuccessful" /\ Ready /\ Consume(state) /\ state # "Success"
    /\ fallback' = IF state = "Failure" /\ fallback = None THEN winner ELSE fallback
    /\ phase' = "looping"
    /\ UNCHANGED <<shape, request, dirty, childVars, winner, output>>

\* Every candidate was consumed and none broke the loop.
Exhausted ==
    IF output # Undecided THEN output
    ELSE IF request # "None" THEN Cancelled
    ELSE IF policy = "WhenAll" THEN Outcome("Success", None)
    ELSE IF fallback # None THEN Outcome("Failure", fallback)
    ELSE Cancelled

Conclude ==
    /\ phase = "looping" /\ active = {}
    /\ Decide(Exhausted, {})
    /\ UNCHANGED <<shape, request, dirty, ended, published, winner, choiceVars>>

-----------------------------------------------------------------------------
\* Mutants: a composite that selected nothing, because it was cancelled while it
\* waited, returns without draining its scope; a late cancellation replaces the
\* outcome.
DeliverEarly ==
    /\ phase = "closing" /\ ~dirty
    /\ selected # <<>> => Unfinished = {}
    /\ output' = IF request = "Stopped" THEN Stopped ELSE output
    /\ phase' = "delivered"
    /\ UNCHANGED <<shape, request, dirty, childVars, winner, choiceVars>>

DeliverRechecking ==
    /\ phase = "closing" /\ ~dirty /\ Unfinished = {}
    /\ output' = IF request = "Stopped" THEN Stopped
                 ELSE IF request = "Cancelled" THEN Cancelled ELSE output
    /\ phase' = "delivered"
    /\ UNCHANGED <<shape, request, dirty, childVars, winner, choiceVars>>

\* The scope has drained and the composite returns.
Deliver ==
    /\ phase = "closing" /\ ~dirty /\ Unfinished = {}
    /\ output' = IF request = "Stopped" THEN Stopped ELSE output
    /\ phase' = "delivered"
    /\ UNCHANGED <<shape, request, dirty, childVars, winner, choiceVars>>

-----------------------------------------------------------------------------
(* The other frames of the root.                                           *)

\* A child returns.  A stopped child has recorded the stop on the root.  While
\* the composite waits, the first publication commits the selection.
Publish(i, result) ==
    /\ Suspended /\ ~dirty /\ i \in Unfinished
    /\ ended' = [ended EXCEPT ![i] = result]
    /\ published' = Append(published, i)
    /\ request' = IF result = "Stopped" THEN "Stopped" ELSE request
    /\ dirty' = (result = "Stopped" /\ request # "Stopped")
    /\ IF phase = "waiting" /\ i \in active
       THEN winner' = i /\ phase' = "woken"
       ELSE UNCHANGED <<winner, phase>>
    /\ UNCHANGED <<shape, asked, choiceVars, output>>

\* The owner of the composite, the host or an unrelated branch of the tree.
Request(r) ==
    /\ ~Executing /\ phase # "delivered" /\ ~dirty
    /\ request = "None" \/ (request = "Cancelled" /\ r = "Stopped")
    /\ request' = r /\ dirty' = TRUE
    /\ UNCHANGED <<shape, phase, childVars, winner, choiceVars, output>>

\* Driver::poll delivers the request to a registered selection.
Poll ==
    /\ dirty /\ dirty' = FALSE
    /\ IF phase = "waiting"
       THEN winner' = None /\ phase' = "woken"
       ELSE UNCHANGED <<winner, phase>>
    /\ UNCHANGED <<shape, request, childVars, choiceVars, output>>

-----------------------------------------------------------------------------
Step ==
    \/ StartRefused \/ StartEmpty \/ Start
    \/ \E i \in Inputs : SelectReady(i)
    \/ Wait \/ Resume \/ AcceptRequest
    \/ JoinSuccess \/ JoinFailure \/ JoinCancelled
    \/ \E state \in {"Success", "Failure", "Cancelled"} : RaceFirst(state) \/ Remember(state)
    \/ FirstSuccess
    \/ Conclude \/ Deliver

Next ==
    \/ Step \/ Poll
    \/ \E i \in Inputs, result \in Terminal : Publish(i, result)
    \/ \E r \in {"Cancelled", "Stopped"} : Request(r)

Spec == Init /\ [][Next]_vars

\* The driver polls and dispatches, and a child that was asked to cancel, or
\* whose task inherits a request, reaches an accepting point.
CooperativeSpec ==
    /\ Spec
    /\ WF_vars(Step) /\ WF_vars(Poll)
    /\ \A i \in Inputs :
         WF_vars((i \in asked \/ request # "None") /\ \E result \in Terminal : Publish(i, result))

-----------------------------------------------------------------------------
(* Properties.                                                             *)

\* Every variable has its type.
TypeOK ==
    /\ policy \in Policies /\ count \in 0..Count
    /\ phase \in {"cold", "looping", "waiting", "woken", "selected", "closing", "delivered"}
    /\ request \in {"None", "Cancelled", "Stopped"}
    /\ dirty \in BOOLEAN
    /\ ended \in [Inputs -> Terminal \cup {"no"}]
    /\ asked \subseteq Inputs
    /\ active \subseteq Inputs
    /\ winner \in Inputs \cup {None}
    /\ consumed \in [Inputs -> {"no", "Success", "Failure", "Cancelled"}]
    /\ fallback \in Inputs \cup {None}
    /\ output \in [kind : Terminal \cup {"none"}, from : Inputs \cup {None}]
    /\ published \in Seq(Inputs)
    /\ selected \in Seq(Inputs)

Delivered(kind) == phase = "delivered" /\ output.kind = kind

\* No outcome reaches the owner while a child that was started is running, be
\* it one that a policy decided or one that a request made of a composite still
\* waiting for its first child: "Every composite closes its children before
\* delivering".  A composite refused before startup has started none.
Started == active # {} \/ selected # <<>>
ClosedBeforeDelivery ==
    phase = "delivered" /\ Started => Unfinished = {}

\* A join that nobody cancelled from outside succeeds only with the value of
\* every input, and completes as cancelled only after every input was consumed,
\* one of them cancelled and none failed: the cancellation of one child never
\* hides the failure of another.
JoinTruthful ==
    policy = "WhenAll" =>
        /\ Delivered("Success")
             => \A i \in Candidates : consumed[i] = "Success" /\ ended[i] = "Success"
        /\ Delivered("Cancelled") /\ request = "None"
             => /\ \E i \in Inputs : ended[i] = "Cancelled"
                /\ \A i \in Candidates : consumed[i] \in {"Success", "Cancelled"}

\* A race delivers the completion that was published first, although others
\* may be published before the parent resumes.
RaceDeliversFirst ==
    policy \in {"WhenAny", "ForwardFirst"} /\ phase = "delivered" /\ output.from # None
      => output.from = published[1] /\ output.kind = ended[published[1]]

\* What join and race promise of the completion they deliver.
DeliveryTruthful == JoinTruthful /\ RaceDeliversFirst

\* first_successful delivers a failure only if no input succeeded, and then the
\* first one it selected.
FirstFailureForwarded ==
    policy = "FirstSuccessful" /\ Delivered("Failure")
      => /\ \A i \in Inputs : ended[i] # "Success"
         /\ \E k \in DOMAIN selected :
              /\ selected[k] = output.from
              /\ \A j \in 1..(k - 1) : consumed[selected[j]] = "Cancelled"

\* forward_nominal's assertion holds: a completion that is treated as a nominal
\* failure carries one.  A stopped child is never consumed, because its stop is
\* on the root before its completion is published.
StoppedNeverConsumed ==
    \A i \in Inputs : consumed[i] # "no" => consumed[i] = ended[i]

\* A parent request that is pending when the composite decides is accepted: no
\* success and no failure is committed over it.
Committed == phase \in {"closing", "delivered"}
CommitsUnrequested ==
    [][~Committed /\ Committed' /\ output'.kind \in {"Success", "Failure"}
         => request = "None"]_vars

\* Once committed the outcome stays, whatever requests and loser failures
\* follow; only a stop of the root replaces it.
CommitmentStable ==
    [][Committed => output' = output \/ (output' = Stopped /\ request = "Stopped")]_vars

\* Once a completion settles the matter - any in a race, a success of
\* first_successful, a failure or cancellation in a join - the composite
\* delivers, if the losers cooperate: closing always asks them to cancel.
Deciding(i) ==
    \/ policy \in {"WhenAny", "ForwardFirst"} /\ ended[i] # "no"
    \/ policy = "FirstSuccessful" /\ ended[i] = "Success"
    \/ policy = "WhenAll" /\ ended[i] \in {"Failure", "Cancelled"}

LosersClosed == (\E i \in Inputs : Deciding(i)) ~> (phase = "delivered")
=============================================================================
