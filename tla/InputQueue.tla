----------------------------- MODULE InputQueue -----------------------------
(***************************************************************************)
(* Incremental standard input: the process-wide cursor with its prefetched *)
(* bytes (runtime/io/stream.hpp), the queue of parked reads that is one    *)
(* event source of the driver (runtime/io/queue.hpp), and the records the  *)
(* reads of std::io return (std/io.cv).                                    *)
(*                                                                         *)
(* The text is what the other end is going to write before it hangs up; it *)
(* arrives in pieces.  A read asks for a chunk, a line or everything, and  *)
(* is tried again by every poll, with only a prefix of the text at hand.   *)
(* Each Awaiter is awaited by a task of its own.                           *)
(***************************************************************************)
EXTENDS Naturals, Sequences, FiniteSets, SequencesExt

CONSTANTS
    Readers,    \* Queue::Awaiter objects
    Bytes,
    Texts,      \* what the other end may write
    Kinds,      \* the requests of a behaviour: records of mode and limit
    LF, CR,     \* the bytes that end a line
    NoByte

Modes == {"Chunk", "Line", "All"}

ASSUME BytesAssumption == {LF, CR} \subseteq Bytes /\ LF # CR /\ NoByte \notin Bytes
ASSUME TextsAssumption == Texts \subseteq Seq(Bytes)
ASSUME KindsAssumption == Kinds \subseteq [mode : Modes, limit : Nat]

VARIABLES
    text,       \* what the other end writes
    given,      \* how much of it can be read or was read
    hangup,     \* the other end has closed
    pending,    \* InputCursor::pending
    consumed,   \* how many bytes InputCursor::consume has erased
    ended,      \* InputCursor::ended
    failed,     \* InputCursor::error is set
    queue,      \* Queue::first .. last
    read,       \* how far each read has come
    kind,       \* Request::mode and limit
    scanned,    \* Request::scanned
    reply,      \* Awaiter::completion, with the position it was taken at
    readAsked,  \* the reads whose task was asked to cancel
    arrivals    \* history: the reads in the order they were registered

source == <<text, given, hangup>>
cursor == <<pending, consumed, ended, failed>>
requests == <<queue, read, kind, scanned, reply, readAsked, arrivals>>
inputVars == <<source, cursor, requests>>

NoKind == [mode |-> "None", limit |-> 0]
NoReply == [outcome |-> "None", data |-> <<>>, at |-> 0]
Reply(outcome, data) == [outcome |-> outcome, data |-> data, at |-> consumed]

\* The tasks of the reads R take part.
InputInit(R) ==
    /\ text \in (IF R = {} THEN {<<>>} ELSE Texts) /\ given = 0 /\ hangup = FALSE
    /\ pending = <<>> /\ consumed = 0 /\ ended = FALSE /\ failed = FALSE
    /\ queue = <<>>
    /\ read = [r \in Readers |-> IF r \in R THEN "cold" ELSE "returned"]
    /\ kind = [r \in Readers |-> NoKind]
    /\ scanned = [r \in Readers |-> 0]
    /\ reply = [r \in Readers |-> NoReply]
    /\ readAsked = {} /\ arrivals = <<>>

-----------------------------------------------------------------------------
(* The other end and the operating system.                                  *)

Supply ==
    /\ given < Len(text)
    /\ given' \in given + 1..Len(text)
    /\ UNCHANGED <<text, hangup, cursor, requests>>

HangUp ==
    /\ given = Len(text) /\ ~hangup
    /\ hangup' = TRUE
    /\ UNCHANGED <<text, given, cursor, requests>>

\* What poll(POLLIN) reports.
Unread == given - consumed - Len(pending)
Readable == Unread > 0 \/ hangup

\* InputCursor::fill leaves these bytes, this end and this failure.  A block of
\* 4096 bytes holds every text.  EINTR and EAGAIN read nothing, as if the bytes
\* had not arrived before this poll.
Filled(bytes, end, failure) ==
    \/ /\ ended \/ failed \/ ~Readable
       /\ bytes = pending /\ end = ended /\ failure = failed
    \/ /\ ~ended /\ ~failed /\ bytes = pending /\ end = ended /\ failure
    \/ /\ ~ended /\ ~failed /\ Unread > 0
       /\ bytes = SubSeq(text, consumed + 1, given) /\ end = ended /\ ~failure
    \/ /\ ~ended /\ ~failed /\ Unread = 0 /\ hangup
       /\ bytes = pending /\ end /\ ~failure

-----------------------------------------------------------------------------
(* InputCursor::ready.                                                      *)

\* The index before the first line feed at or after a scanned prefix, or the
\* length of the bytes.
Content(bytes, from) ==
    LET feeds == {i \in from + 1..Len(bytes) : bytes[i] = LF}
    IN  IF feeds = {} THEN Len(bytes)
        ELSE (CHOOSE i \in feeds : \A j \in feeds : i <= j) - 1

Byte(bytes, i) == IF i \in DOMAIN bytes THEN bytes[i] ELSE NoByte

\* Mutant: a carriage return that may start a delimiter counts at once.
ContentWithReturn(bytes, content, end) == content

\* A trailing CR may still become the first half of CRLF; at the end it is
\* ordinary content.
ContentLength(bytes, content, end) ==
    IF Byte(bytes, content) = CR /\ (content < Len(bytes) \/ ~end)
    THEN content - 1 ELSE content

LineReply(bytes, limit, from, end) ==
    LET content == Content(bytes, from)
    IN  IF ContentLength(bytes, content, end) > limit THEN Reply("TooLarge", <<>>)
        ELSE IF content < Len(bytes) THEN Reply("Data", SubSeq(bytes, 1, content + 1))
        ELSE IF ~end THEN NoReply
        ELSE Reply(IF bytes = <<>> THEN "End" ELSE "Data", bytes)

ChunkReply(bytes, limit, end) ==
    IF bytes # <<>> THEN Reply("Data", SubSeq(bytes, 1, IF limit < Len(bytes) THEN limit ELSE Len(bytes)))
    ELSE IF end THEN Reply("End", <<>>)
    ELSE NoReply

AllReply(bytes, limit, end) ==
    IF Len(bytes) > limit THEN Reply("TooLarge", <<>>)
    ELSE IF end THEN Reply("Data", bytes)
    ELSE NoReply

\* The reply to request r, NoReply when it has to wait for more.
Ready(r, bytes, from, end, failure) ==
    LET mode == kind[r].mode
        limit == kind[r].limit
    IN  IF mode = "Chunk" /\ limit = 0 THEN Reply("Data", <<>>)
        ELSE IF failure THEN Reply("System", <<>>)
        ELSE CASE mode = "Chunk" -> ChunkReply(bytes, limit, end)
               [] mode = "Line" -> LineReply(bytes, limit, from, end)
               [] mode = "All" -> AllReply(bytes, limit, end)

-----------------------------------------------------------------------------
(* The queue.                                                               *)

\* Awaiter::await_suspend of a task that was asked to cancel.
StartReadCancelled(r) ==
    /\ read[r] = "cold" /\ r \in readAsked
    /\ read' = [read EXCEPT ![r] = "returned"]
    /\ reply' = [reply EXCEPT ![r] = Reply("Cancelled", <<>>)]
    /\ UNCHANGED <<source, cursor, queue, kind, scanned, readAsked, arrivals>>

\* Queue::insert.
StartRead(r, k) ==
    /\ read[r] = "cold" /\ r \notin readAsked
    /\ kind' = [kind EXCEPT ![r] = k]
    /\ read' = [read EXCEPT ![r] = "parked"]
    /\ queue' = Append(queue, r)
    /\ arrivals' = Append(arrivals, r)
    /\ UNCHANGED <<source, cursor, scanned, reply, readAsked>>

CancelRead(r) ==
    /\ read[r] # "returned" /\ r \notin readAsked
    /\ readAsked' = readAsked \cup {r}
    /\ UNCHANGED <<source, cursor, queue, read, kind, scanned, reply, arrivals>>

\* Queue::finish for the cancelled reads S and for the head h that replied.
Finish(S, h, answer) ==
    /\ read' = [r \in Readers |-> IF r \in S \cup h THEN "queued" ELSE read[r]]
    /\ reply' = [r \in Readers |-> IF r \in h THEN answer
                                   ELSE IF r \in S THEN Reply("Cancelled", <<>>)
                                   ELSE reply[r]]

\* What is left when Queue::poll has unlinked the cancelled reads S.
Kept(S) ==
    LET I == {i \in DOMAIN queue : queue[i] \notin S}
    IN  [n \in 1..Cardinality(I) |-> queue[CHOOSE i \in I : Cardinality({j \in I : j <= i}) = n]]

\* How far the line feed of read r has been looked for in these bytes.
Scanned(r, bytes) == IF kind[r].mode = "Line" THEN Len(bytes) ELSE scanned[r]

\* Queue::poll: the cancelled reads leave; then the head is tried on what is
\* pending, and once more after a fill.  Nothing is parked behind an answer.
PollCancelled ==
    /\ queue # <<>> /\ ToSet(queue) \subseteq readAsked
    /\ queue' = <<>>
    /\ Finish(ToSet(queue), {}, NoReply)
    /\ UNCHANGED <<source, cursor, kind, scanned, readAsked, arrivals>>

PollHead(bytes, end, failure) ==
    LET S == ToSet(queue) \cap readAsked
        kept == Kept(S)
        head == Head(kept)
        atOnce == Ready(head, pending, scanned[head], ended, failed)
        answer == IF atOnce # NoReply THEN atOnce
                  ELSE Ready(head, bytes, Scanned(head, pending), end, failure)
        done == answer # NoReply
    IN  /\ kept # <<>>
        /\ IF atOnce # NoReply THEN <<bytes, end, failure>> = <<pending, ended, failed>>
           ELSE Filled(bytes, end, failure)
        /\ queue' = IF done THEN Tail(kept) ELSE kept
        /\ Finish(S, IF done THEN {head} ELSE {}, answer)
        /\ pending' = SubSeq(bytes, Len(answer.data) + 1, Len(bytes))
        /\ consumed' = consumed + Len(answer.data)
        /\ ended' = end /\ failed' = failure
        /\ scanned' = [scanned EXCEPT ![head] = Scanned(head, bytes)]
        /\ UNCHANGED <<source, kind, readAsked, arrivals>>

PollInput ==
    \/ PollCancelled
    \/ \E bytes \in {pending, SubSeq(text, consumed + 1, given)}, end, failure \in BOOLEAN :
          PollHead(bytes, end, failure)

\* The driver resumes the task: await_resume.
ReturnRead(r) ==
    /\ read[r] = "queued"
    /\ read' = [read EXCEPT ![r] = "returned"]
    /\ UNCHANGED <<source, cursor, queue, kind, scanned, reply, readAsked, arrivals>>

\* InputCursor::wait fails.
WaitInputFails ==
    /\ failed' = TRUE
    /\ UNCHANGED <<source, pending, consumed, ended, requests>>

-----------------------------------------------------------------------------
(* Properties.                                                              *)

InputTypeOK ==
    /\ text \in Texts \cup {<<>>} /\ given \in 0..Len(text) /\ hangup \in BOOLEAN
    /\ consumed \in 0..given
    /\ pending = SubSeq(text, consumed + 1, consumed + Len(pending))
    /\ ended \in BOOLEAN /\ failed \in BOOLEAN
    /\ queue \in Seq(Readers)
    /\ read \in [Readers -> {"cold", "parked", "queued", "returned"}]
    /\ kind \in [Readers -> Kinds \cup {NoKind}] /\ scanned \in [Readers -> Nat]
    /\ readAsked \subseteq Readers /\ arrivals \in Seq(Readers)

\* std::io: line() strips the delimiter from what a line read returns.
Stripped(data) ==
    LET n == Len(data)
    IN  IF Byte(data, n) # LF THEN data
        ELSE SubSeq(data, 1, IF Byte(data, n - 1) = CR THEN n - 2 ELSE n - 1)

\* The first line of the complete rest of the text, as docs/language/io.md
\* describes it: up to LF or CRLF, or all of a last line without one.
FirstLine(rest) ==
    LET n == Content(rest, 0)
    IN  IF n = Len(rest) \/ Byte(rest, n) # CR THEN SubSeq(rest, 1, n)
        ELSE SubSeq(rest, 1, n - 1)

\* What a read decides from the bytes that happened to be there is right for
\* the whole text, whenever and in whatever pieces the rest of it arrives: a
\* line read returns the next line, and fails exactly when that line exceeds
\* its limit; reading everything returns all of it or fails exactly when it is
\* larger; a chunk is a non-empty prefix; End means that nothing is left.
Exact(k, answer) ==
    LET rest == SubSeq(text, answer.at + 1, Len(text))
        limit == k.limit
        outcome == answer.outcome
        data == answer.data
    IN  /\ k.mode = "Line" =>
             /\ outcome = "Data" => Stripped(data) = FirstLine(rest) /\ rest # <<>>
             /\ outcome \in {"Data", "TooLarge"} =>
                  (outcome = "TooLarge") = (Len(FirstLine(rest)) > limit)
        /\ k.mode = "All" =>
             /\ outcome = "Data" => data = rest
             /\ outcome \in {"Data", "TooLarge"} => (outcome = "TooLarge") = (Len(rest) > limit)
        /\ k.mode = "Chunk" /\ outcome = "Data" =>
             /\ Len(data) <= limit /\ (data = <<>>) = (limit = 0)
             /\ data = SubSeq(rest, 1, Len(data))
        /\ outcome = "End" => rest = <<>>

InputExact == \A r \in Readers : Exact(kind[r], reply[r])

\* The places in the text that the reply to a read gives.
Taken(r) == {i \in 1..Len(text) : reply[r].at < i /\ i <= reply[r].at + Len(reply[r].data)}

\* No byte is lost, given twice or given out of the order in which the reads
\* were registered, whichever reads were cancelled or refused in between: the
\* replies give the text that was consumed, each place once and each its byte,
\* in that order, and what follows is pending.
InputOnce ==
    /\ \A r \in Readers :
         reply[r].data = SubSeq(text, reply[r].at + 1, reply[r].at + Len(reply[r].data))
    /\ pending = SubSeq(text, consumed + 1, consumed + Len(pending))
    /\ UNION {Taken(r) : r \in Readers} = 1..consumed
    /\ \A q, r \in Readers : q # r => Taken(q) \cap Taken(r) = {}
    /\ \A i, j \in DOMAIN arrivals : i < j =>
         /\ \A m \in Taken(arrivals[i]), n \in Taken(arrivals[j]) : m < n
         /\ reply[arrivals[j]].outcome \notin {"None", "Cancelled"}
              => reply[arrivals[i]].outcome # "None"

\* Both together: the replies are the input, cut where their kinds ask for it.
InputWhole == InputExact /\ InputOnce
=============================================================================
