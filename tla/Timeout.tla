------------------------------ MODULE Timeout ------------------------------
(***************************************************************************)
(* timeout(input, duration): a ForwardFirst composite of the protected     *)
(* operation (candidate 1) and of a timer child (candidate 2)              *)
(* (crafts/carven/runtime/execution/{timeout,time}.hpp), on top of         *)
(* Composition.  Instants are signed 64-bit nanoseconds in the code; here  *)
(* MaxInstant stands for their largest value.                              *)
(***************************************************************************)
EXTENDS Composition, Integers

CONSTANTS
    Durations,   \* the durations timeout is called with
    MaxInstant   \* the largest representable instant, also the clock's bound

ASSUME InstantAssumption ==
    MaxInstant \in Nat /\ Durations \subseteq (-(MaxInstant + 1))..MaxInstant

VARIABLES
    now,        \* the steady clock
    duration,   \* the argument
    started,    \* the instant read before the children start
    deadline,   \* the deadline given to the timer
    timer,      \* the timer child: none, queued, parked, expired, cancelled, ended
    refusal     \* the failure of a timeout that starts nothing

clockVars == <<duration, started, deadline, refusal>>
timeVars == <<now, clockVars, timer>>

Protected == 1
TimerChild == 2

TimeoutInit ==
    /\ Init /\ policy = "ForwardFirst" /\ count = 2
    /\ now \in 0..MaxInstant /\ duration \in Durations
    /\ started = 0 /\ deadline = 0
    /\ timer = "none" /\ refusal = "none"

-----------------------------------------------------------------------------
(* timeout(), up to the composite it awaits.                               *)

Called == phase = "cold" /\ ~dirty /\ request = "None"

Refuse(failure) ==
    /\ refusal' = failure
    /\ output' = Outcome("Failure", None) /\ phase' = "delivered"
    /\ UNCHANGED <<shape, request, dirty, childVars, winner, choiceVars,
                   now, duration, started, deadline, timer>>

RefuseCancelled == StartRefused /\ UNCHANGED timeVars

RefuseElapsed == Called /\ duration <= 0 /\ Refuse("Timeout")

RefuseRange == Called /\ duration > 0 /\ now > MaxInstant - duration /\ Refuse("RangeError")

\* Mutant: the sum is not checked and wraps.
Wrapped(instant) == IF instant > MaxInstant THEN instant - 2 * (MaxInstant + 1) ELSE instant
BeginUnchecked ==
    /\ Called /\ duration > 0
    /\ Start
    /\ started' = now /\ deadline' = Wrapped(now + duration)
    /\ timer' = "queued"
    /\ UNCHANGED <<now, duration, refusal>>

Begin ==
    /\ Called /\ duration > 0 /\ now <= MaxInstant - duration
    /\ Start
    /\ started' = now /\ deadline' = now + duration
    /\ timer' = "queued"
    /\ UNCHANGED <<now, duration, refusal>>

-----------------------------------------------------------------------------
(* The timer child.                                                        *)

TimerAsked == TimerChild \in asked \/ request # "None"

\* What timeout_timer returns for a sleep that completed with woken; a stop of
\* the root replaces every completion that is taken after it.
TimerEnds(woken) ==
    /\ Publish(TimerChild, IF request = "Stopped" THEN "Stopped" ELSE woken)
    /\ timer' = "ended"
    /\ UNCHANGED <<now, clockVars>>

TimerStarts ==
    /\ timer = "queued" /\ Suspended /\ ~dirty
    /\ \/ TimerAsked /\ TimerEnds("Cancelled")
       \/ ~TimerAsked /\ deadline <= now /\ TimerEnds("Failure")
       \/ /\ ~TimerAsked /\ deadline > now
          /\ timer' = "parked"
          /\ UNCHANGED <<vars, now, clockVars>>

\* poll() completes a cancelled sleep first, and one that is due otherwise.
PollTimer ==
    /\ timer = "parked" /\ Suspended /\ ~dirty
    /\ TimerAsked \/ deadline <= now
    /\ timer' = IF TimerAsked THEN "cancelled" ELSE "expired"
    /\ UNCHANGED <<vars, now, clockVars>>

TimerReturns ==
    \/ timer = "expired" /\ TimerEnds("Failure")
    \/ timer = "cancelled" /\ TimerEnds("Cancelled")

-----------------------------------------------------------------------------
Compose ==
    /\ \/ \E i \in Inputs : SelectReady(i)
       \/ Wait \/ Resume \/ AcceptRequest
       \/ \E state \in {"Success", "Failure", "Cancelled"} : RaceFirst(state)
       \/ Deliver
    /\ UNCHANGED timeVars

Tick ==
    /\ ~Executing /\ phase # "delivered" /\ now < MaxInstant
    /\ now' = now + 1
    /\ UNCHANGED <<vars, clockVars, timer>>

Steps == RefuseCancelled \/ RefuseElapsed \/ RefuseRange \/ Begin \/ Compose
TimerSteps == TimerStarts \/ PollTimer \/ TimerReturns
ProtectedEnds == (\E result \in Terminal : Publish(Protected, result)) /\ UNCHANGED timeVars

TimeoutNext ==
    \/ Steps \/ TimerSteps \/ ProtectedEnds \/ Tick
    \/ Poll /\ UNCHANGED timeVars
    \/ \E r \in {"Cancelled", "Stopped"} : Request(r) /\ UNCHANGED timeVars

TimeoutSpec == TimeoutInit /\ [][TimeoutNext]_<<vars, timeVars>>

\* The driver runs, the clock advances, and the protected operation ends once
\* it is asked to cancel; until then it may run for ever.
TimeoutFairSpec ==
    /\ TimeoutSpec
    /\ WF_<<vars, timeVars>>(Steps) /\ WF_<<vars, timeVars>>(TimerSteps)
    /\ WF_<<vars, timeVars>>(Poll /\ UNCHANGED timeVars)
    /\ WF_<<vars, timeVars>>(Tick)
    /\ WF_<<vars, timeVars>>((Protected \in asked \/ request # "None") /\ ProtectedEnds)

-----------------------------------------------------------------------------
(* Properties.                                                             *)

\* A timeout is never reported before the whole duration has passed, also when
\* the deadline lies at the end of the range of instants, and a range error only
\* for a deadline past that end: the largest instant can be waited for.
DeadlineExact ==
    /\ phase = "delivered" /\ output.kind = "Failure" /\ output.from = TimerChild
         => now >= started + duration
    /\ refusal = "RangeError" => now + duration > MaxInstant

\* A timeout that has started ends although the protected operation would run
\* for ever: the timer wins, the operation is asked to cancel and both close.
TimeoutDelivers == (timer # "none") ~> (phase = "delivered")
=============================================================================
