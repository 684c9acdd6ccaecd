----------------------------- MODULE StandardIO -----------------------------
(***************************************************************************)
(* The standard input and output of one process on one driver: the queue   *)
(* of reads and the write that owns the output are two event sources of    *)
(* very different speed, and Driver::wait of execution.hpp has one thread  *)
(* to block in.                                                            *)
(*                                                                         *)
(* The host is drive_root: advance polls every source and resumes at most  *)
(* one task; when nothing was resumed it waits in the first source that    *)
(* has something to wait for.  Reads and writes are started and cancelled  *)
(* by the code of the tasks.                                               *)
(***************************************************************************)
EXTENDS InputQueue, OutputWrite

CONSTANT Programs   \* which reads and writes the tasks of a program contain

ASSUME ProgramsAssumption == Programs \subseteq SUBSET (Readers \cup Writers)

VARIABLES
    events,     \* Driver::events, newest first; a write is called "output"
    stage,      \* how far the loop of drive_root has come
    blocked     \* the source whose wait() the thread is in

hostVars == <<events, stage, blocked>>
vars == <<inputVars, outputVars, hostVars>>

\* The root runs for the first time.
Init ==
    /\ \E tasks \in Programs : InputInit(tasks) /\ OutputInit(tasks)
    /\ events = <<>> /\ stage = "run" /\ blocked = "none"

Without(name) == SelectSeq(events, LAMBDA e : e # name)

-----------------------------------------------------------------------------
(* The environment, at any time.                                            *)

Outside ==
    \/ (Supply \/ HangUp) /\ UNCHANGED <<outputVars, hostVars>>
    \/ (Drain \/ Break) /\ UNCHANGED <<inputVars, hostVars>>

-----------------------------------------------------------------------------
(* The code of the tasks.                                                   *)

\* Queue::insert attaches the queue with its first request.
Read(r) ==
    /\ stage = "run"
    /\ \/ StartReadCancelled(r) /\ UNCHANGED events
       \/ (\E k \in Kinds : StartRead(r, k)) /\ events' = IF queue = <<>> THEN <<"input">> \o events ELSE events
    /\ UNCHANGED <<outputVars, stage, blocked>>

Write(w) ==
    /\ stage = "run"
    /\ \/ /\ \/ StartWriteCancelled(w) \/ StartWriteBusy(w) \/ StartWriteFails(w)
             \/ \E n \in 0..Length[w], answer \in Codes : StartWriteDone(w, n, answer)
          /\ UNCHANGED events
       \/ \E n \in 0..Length[w] : StartWrite(w, n) /\ events' = <<"output">> \o events
    /\ UNCHANGED <<inputVars, stage, blocked>>

Cancel ==
    /\ stage = "run"
    /\ \/ \E r \in Readers : CancelRead(r) /\ UNCHANGED outputVars
       \/ \E w \in Writers : CancelWrite(w) /\ UNCHANGED inputVars
    /\ UNCHANGED hostVars

\* The resumed task parks or returns.
EndTurn ==
    /\ stage = "run" /\ stage' = "poll"
    /\ UNCHANGED <<inputVars, outputVars, events, blocked>>

-----------------------------------------------------------------------------
(* Root::advance and Root::wait.                                            *)

\* Driver::poll.  The sources share no state, so their order is not observed.
Poll ==
    /\ stage = "poll" /\ stage' = "dispatch"
    /\ IF queue # <<>> THEN PollInput ELSE UNCHANGED inputVars
    /\ \/ \E w \in Writers, answer \in Codes : \E n \in 0..Length[w] : PollOutput(w, n, answer)
       \/ (\A w \in Writers : write[w] # "parked") /\ UNCHANGED outputVars
    /\ events' = IF queue' = <<>> THEN Without("input") ELSE events
    /\ UNCHANGED blocked

\* Driver::dispatch_one.
Dispatch ==
    /\ stage = "dispatch" /\ stage' = "run"
    /\ \/ \E r \in Readers : ReturnRead(r) /\ UNCHANGED <<outputVars, events>>
       \/ \E w \in Writers :
            ReturnWrite(w) /\ events' = Without("output") /\ UNCHANGED inputVars
    /\ UNCHANGED blocked

\* Queue::wait and Output::wait: whether a source has something to wait for.
Waits(e) == IF e = "input" THEN queue # <<>> ELSE \E w \in Writers : write[w] = "parked"

\* Mutant: the bound of a wait does not depend on the other sources.
UnboundedWait == FALSE

\* Driver::wait: with several sources no wait is longer than ten milliseconds.
BoundedWait == Len(events) > 1

\* Nothing was resumed and nothing is ready: Root::wait.
Block ==
    /\ stage = "dispatch"
    /\ \A r \in Readers : read[r] # "queued"
    /\ \A w \in Writers : write[w] # "queued"
    /\ \E i \in DOMAIN events :
         /\ Waits(events[i]) /\ \A j \in 1..i - 1 : ~Waits(events[j])
         /\ blocked' = events[i]
    /\ stage' = "wait"
    /\ UNCHANGED <<inputVars, outputVars, events>>

Unblock == stage' = "poll" /\ blocked' = "none" /\ UNCHANGED events

Woken ==
    /\ stage = "wait"
    /\ \/ BoundedWait
       \/ blocked = "input" /\ Readable
       \/ blocked = "output" /\ Writable
    /\ Unblock /\ UNCHANGED <<inputVars, outputVars>>

\* A signal, or a failure of poll(2).
Interrupted ==
    /\ stage = "wait"
    /\ \/ UNCHANGED <<inputVars, outputVars>>
       \/ blocked = "input" /\ WaitInputFails /\ UNCHANGED outputVars
       \/ /\ blocked = "output" /\ UNCHANGED inputVars
          /\ \E w \in Writers : WaitOutputFails(w)
    /\ Unblock

TasksStep == Cancel \/ (\E r \in Readers : Read(r)) \/ (\E w \in Writers : Write(w))
Host == EndTurn \/ Poll \/ Dispatch \/ Block \/ Woken

Next == Outside \/ TasksStep \/ Host \/ Interrupted

\* drive_root goes on until its root is done.  Nothing is assumed of the other
\* ends, and no task is obliged to read, write or cancel.
Spec == Init /\ [][Next]_vars
FairSpec == Spec /\ WF_vars(Host)

-----------------------------------------------------------------------------
(* Properties.                                                              *)

\* The reads and the write of one thread do not starve each other: a write
\* that the other end can take goes on though no input ever comes, and a read
\* ends when the input has, or when its task is asked to cancel, though nobody
\* ever takes the output.
SourcesServed ==
    /\ \A w \in Writers :
         (write[w] = "parked" /\ Writable) ~> (write[w] = "returned" \/ ~Writable)
    /\ \A r \in Readers :
         (read[r] = "parked" /\ (hangup \/ failed \/ r \in readAsked)) ~> (read[r] = "returned")
=============================================================================
