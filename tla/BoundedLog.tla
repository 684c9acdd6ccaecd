----------------------------- MODULE BoundedLog -----------------------------
(***************************************************************************)
(* What a byte channel promises (docs/language/channel.md): messages form  *)
(* one log; a message is delivered after every earlier one and once; at    *)
(* most Capacity are waiting; close seals the log and lets receivers drain *)
(* it; each operation has its effect at one instant between its start and  *)
(* its end, or, if it was asked to cancel, none at all.                    *)
(***************************************************************************)
EXTENDS Naturals, Sequences

CONSTANTS
    Requests,   \* the send and receive operations of a behaviour
    Senders,    \* those that send; a sender's message carries its name
    Tries,      \* the messages try_send is called with
    Capacity    \* how many messages may wait

VARIABLES
    log,        \* the accepted messages, in order
    taken,      \* how many of them were delivered
    closed,     \* no message is accepted any more
    pending,    \* operations that have started and not taken effect
    asked,      \* operations whose task was asked to cancel
    outcome     \* what each operation completes with

vars == <<log, taken, closed, pending, asked, outcome>>

Messages == Senders \cup Tries

NoOutcome == [kind |-> "none",      of |-> {}]
Sent      == [kind |-> "sent",      of |-> {}]
Refused   == [kind |-> "refused",   of |-> {}]
Data(m)   == [kind |-> "data",      of |-> {m}]
End       == [kind |-> "end",       of |-> {}]
Cancelled == [kind |-> "cancelled", of |-> {}]

Waiting == Len(log) - taken

Init ==
    /\ log = <<>> /\ taken = 0 /\ closed = FALSE
    /\ pending = {} /\ asked = {}
    /\ outcome = [r \in Requests |-> NoOutcome]

Begin(r) ==
    /\ r \notin pending /\ outcome[r] = NoOutcome
    /\ pending' = pending \cup {r}
    /\ UNCHANGED <<log, taken, closed, asked, outcome>>

Complete(r, o) ==
    /\ r \in pending
    /\ pending' = pending \ {r}
    /\ outcome' = [outcome EXCEPT ![r] = o]
    /\ UNCHANGED asked

Send(r) ==
    /\ r \in Senders /\ ~closed /\ Waiting < Capacity
    /\ Complete(r, Sent)
    /\ log' = Append(log, r)
    /\ UNCHANGED <<taken, closed>>

Refuse(r) ==
    /\ r \in Senders /\ closed
    /\ Complete(r, Refused)
    /\ UNCHANGED <<log, taken, closed>>

Receive(r) ==
    /\ r \notin Senders /\ Waiting > 0
    /\ Complete(r, Data(log[taken + 1]))
    /\ taken' = taken + 1
    /\ UNCHANGED <<log, closed>>

Finish(r) ==
    /\ r \notin Senders /\ closed /\ Waiting = 0
    /\ Complete(r, End)
    /\ UNCHANGED <<log, taken, closed>>

Cancel(r) ==
    /\ r \in asked
    /\ Complete(r, Cancelled)
    /\ UNCHANGED <<log, taken, closed>>

Ask(r) ==
    /\ asked' = asked \cup {r}
    /\ UNCHANGED <<log, taken, closed, pending, outcome>>

TrySend(m) ==
    /\ m \in Tries /\ ~closed /\ Waiting < Capacity
    /\ log' = Append(log, m)
    /\ UNCHANGED <<taken, closed, pending, asked, outcome>>

TryReceive ==
    /\ Waiting > 0
    /\ taken' = taken + 1
    /\ UNCHANGED <<log, closed, pending, asked, outcome>>

Close ==
    /\ closed' = TRUE
    /\ UNCHANGED <<log, taken, pending, asked, outcome>>

Next ==
    \/ \E r \in Requests :
         Begin(r) \/ Send(r) \/ Refuse(r) \/ Receive(r) \/ Finish(r) \/ Cancel(r) \/ Ask(r)
    \/ \E m \in Tries : TrySend(m)
    \/ TryReceive \/ Close

Spec == Init /\ [][Next]_vars
=============================================================================
