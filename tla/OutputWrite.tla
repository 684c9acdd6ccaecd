---------------------------- MODULE OutputWrite ----------------------------
(***************************************************************************)
(* write_stdout_async of std::io on a POSIX system (std/io/native.cpp).    *)
(*                                                                         *)
(* One write at a time may own the standard output of the process; while   *)
(* it does, the descriptor does not block.  A write that the other end     *)
(* takes only in part parks as an event source of the driver and goes on   *)
(* in later polls.  Each Output is awaited by a task of its own.           *)
(***************************************************************************)
EXTENDS Naturals, Sequences, FiniteSets

CONSTANTS
    Writers,    \* Output objects
    Length,     \* how many bytes each of them writes
    Room,       \* how many bytes the other end buffers
    NoWriter

ASSUME WritersAssumption == Length \in [Writers -> Nat] /\ NoWriter \notin Writers
ASSUME RoomAssumption == Room \in Nat

VARIABLES
    busy,       \* output_busy
    nonblock,   \* O_NONBLOCK of the descriptor
    inherited,  \* what it was when the program started
    room,       \* what the other end can take now
    broken,     \* it has closed: writes answer EPIPE
    sink,       \* history: who wrote each byte
    write,      \* how far each write has come
    active,     \* the writes that own the output
    flags,      \* Output::flags: {} is -1
    offset,     \* Output::offset
    code,       \* Output::result
    writeAsked  \* the writes whose task was asked to cancel

descriptor == <<nonblock, inherited>>
peer == <<room, broken, sink>>
outputs == <<write, active, flags, offset, code, writeAsked>>
outputVars == <<busy, descriptor, peer, outputs>>

Codes == {"None", "Written", "Busy", "Error", "Cancelled"}

\* The tasks of the writes W take part.
OutputInit(W) ==
    /\ busy = FALSE
    /\ nonblock \in BOOLEAN /\ inherited = nonblock
    /\ room = Room /\ broken = FALSE /\ sink = <<>>
    /\ write = [w \in Writers |-> IF w \in W THEN "cold" ELSE "returned"]
    /\ active = {}
    /\ flags = [w \in Writers |-> {}]
    /\ offset = [w \in Writers |-> 0]
    /\ code = [w \in Writers |-> "None"]
    /\ writeAsked = {}

-----------------------------------------------------------------------------
(* The other end.                                                           *)

Drain ==
    /\ room < Room /\ ~broken
    /\ room' \in room + 1..Room
    /\ UNCHANGED <<busy, descriptor, broken, sink, outputs>>

Break ==
    /\ ~broken
    /\ broken' = TRUE
    /\ UNCHANGED <<busy, descriptor, room, sink, outputs>>

Writable == room > 0 \/ broken

-----------------------------------------------------------------------------
(* Output.                                                                  *)

\* Mutant: every attempt begins with the first byte.
AttemptFromStart(w, n, answer) ==
    \/ w \in writeAsked /\ n = 0 /\ answer = "Cancelled"
    \/ /\ w \notin writeAsked
       /\ n = IF Length[w] <= room THEN Length[w] ELSE room
       /\ answer = IF n = Length[w] THEN "Written" ELSE "None"

\* Output::attempt transfers n bytes and leaves this answer.  The loop over
\* write() ends when everything was taken, the other end is full (EAGAIN) or
\* has closed (EPIPE), or the call fails after any of its bytes.
Attempt(w, n, answer) ==
    \/ w \in writeAsked /\ n = 0 /\ answer = "Cancelled"
    \/ /\ w \notin writeAsked /\ n \in 0..Length[w] - offset[w] /\ n <= room
       /\ \/ n = Length[w] - offset[w] /\ answer = "Written" /\ (n > 0 => ~broken)
          \/ n < Length[w] - offset[w] /\ n = room /\ ~broken /\ answer = "None"
          \/ n < Length[w] - offset[w] /\ (broken => n = 0) /\ answer = "Error"

Transfer(w, n) ==
    /\ offset' = [offset EXCEPT ![w] = @ + n]
    /\ sink' = sink \o [i \in 1..n |-> w]
    /\ room' = room - n

\* Mutant: the flags are not restored.
DestroyedKeeping(w) ==
    /\ UNCHANGED nonblock
    /\ busy' = (busy /\ w \notin active)

\* Output::~Output: the flags the write found are restored, then the next
\* write may begin.
Destroyed(w) ==
    /\ IF flags[w] # {} THEN nonblock' \in flags[w] ELSE UNCHANGED nonblock
    /\ busy' = (busy /\ w \notin active)

\* Output::suspend of a task that was asked to cancel.
StartWriteCancelled(w) ==
    /\ write[w] = "cold" /\ w \in writeAsked
    /\ write' = [write EXCEPT ![w] = "returned"]
    /\ code' = [code EXCEPT ![w] = "Cancelled"]
    /\ UNCHANGED <<busy, descriptor, peer, active, flags, offset, writeAsked>>

StartWriteBusy(w) ==
    /\ write[w] = "cold" /\ w \notin writeAsked /\ busy
    /\ write' = [write EXCEPT ![w] = "returned"]
    /\ code' = [code EXCEPT ![w] = "Busy"]
    /\ UNCHANGED <<busy, descriptor, peer, active, flags, offset, writeAsked>>

\* fcntl fails to read the flags, or to set O_NONBLOCK; the awaiter is
\* destroyed at once and restores what it had read.
StartWriteFails(w) ==
    /\ write[w] = "cold" /\ w \notin writeAsked /\ ~busy
    /\ write' = [write EXCEPT ![w] = "returned"]
    /\ code' = [code EXCEPT ![w] = "Error"]
    /\ UNCHANGED <<busy, descriptor, peer, active, flags, offset, writeAsked>>

\* The first attempt completes: the awaiter is destroyed as well.
StartWriteDone(w, n, answer) ==
    /\ write[w] = "cold" /\ w \notin writeAsked /\ ~busy
    /\ answer # "None" /\ Attempt(w, n, answer)
    /\ Transfer(w, n)
    /\ write' = [write EXCEPT ![w] = "returned"]
    /\ code' = [code EXCEPT ![w] = answer]
    /\ UNCHANGED <<busy, descriptor, broken, active, flags, writeAsked>>

\* Otherwise it parks on the driver.
StartWrite(w, n) ==
    /\ write[w] = "cold" /\ w \notin writeAsked /\ ~busy
    /\ Attempt(w, n, "None")
    /\ Transfer(w, n)
    /\ write' = [write EXCEPT ![w] = "parked"]
    /\ busy' = TRUE /\ active' = active \cup {w}
    /\ flags' = [flags EXCEPT ![w] = {nonblock}]
    /\ nonblock' = TRUE
    /\ UNCHANGED <<inherited, broken, code, writeAsked>>

CancelWrite(w) ==
    /\ write[w] # "returned" /\ w \notin writeAsked
    /\ writeAsked' = writeAsked \cup {w}
    /\ UNCHANGED <<busy, descriptor, peer, write, active, flags, offset, code>>

\* Output::poll; a write that has its result is left alone.
PollOutput(w, n, answer) ==
    /\ write[w] = "parked"
    /\ Attempt(w, n, answer)
    /\ Transfer(w, n)
    /\ code' = [code EXCEPT ![w] = answer]
    /\ write' = [write EXCEPT ![w] = IF answer = "None" THEN "parked" ELSE "queued"]
    /\ UNCHANGED <<busy, descriptor, broken, active, flags, writeAsked>>

\* Output::wait: poll(2) fails.
WaitOutputFails(w) ==
    /\ write[w] = "parked"
    /\ code' = [code EXCEPT ![w] = "Error"]
    /\ write' = [write EXCEPT ![w] = "queued"]
    /\ UNCHANGED <<busy, descriptor, peer, active, flags, offset, writeAsked>>

\* The driver resumes the task, and the awaiter is destroyed.
ReturnWrite(w) ==
    /\ write[w] = "queued"
    /\ write' = [write EXCEPT ![w] = "returned"]
    /\ Destroyed(w)
    /\ active' = active \ {w}
    /\ UNCHANGED <<inherited, peer, flags, offset, code, writeAsked>>

-----------------------------------------------------------------------------
(* Properties.                                                              *)

OutputTypeOK ==
    /\ busy \in BOOLEAN /\ nonblock \in BOOLEAN /\ inherited \in BOOLEAN
    /\ room \in 0..Room /\ broken \in BOOLEAN /\ sink \in Seq(Writers)
    /\ write \in [Writers -> {"cold", "parked", "queued", "returned"}]
    /\ active \subseteq Writers /\ flags \in [Writers -> SUBSET BOOLEAN]
    /\ offset \in [Writers -> Nat] /\ code \in [Writers -> Codes]
    /\ writeAsked \subseteq Writers

\* A write that reports success has put all of its bytes on the stream, each
\* one once; a cancelled or failed one has put a prefix; a refused one nothing.
\* The bytes of two writes never mix, however often each was interrupted.
OutputWhole ==
    /\ \A w \in Writers :
         /\ Cardinality({i \in DOMAIN sink : sink[i] = w}) = offset[w]
         /\ offset[w] <= Length[w]
         /\ code[w] = "Written" => offset[w] = Length[w]
         /\ code[w] = "Busy" => offset[w] = 0
    /\ \A i, j \in DOMAIN sink : sink[i] = sink[j] => \A k \in i..j : sink[k] = sink[i]

\* The descriptor the program shares with its parent and with print blocks
\* again, if it did, as soon as no write owns it, whether the write succeeded,
\* failed or was cancelled, and the busy bit goes with its owner.
OutputReleased ==
    /\ Cardinality(active) <= 1
    /\ busy = (active # {})
    /\ active = {} => nonblock = inherited
    /\ active = {w \in Writers : write[w] \in {"parked", "queued"}}
============================================================================
