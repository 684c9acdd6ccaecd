---------------------------- MODULE MCStandardIO ----------------------------
(* The instance of StandardIO that TLC checks.                             *)
EXTENDS StandardIO

a == "a"

TheBytes == {a, LF, CR}

\* Reads that contend for the input, writes for the output, and one of each
\* for the thread.
ThePrograms == {Readers, Writers} \cup {{"r1", "w1"}}

\* Lines that end in LF, in CRLF, in a CR that is content, or not at all.
TheTexts == {<<a, CR, LF, a>>, <<a, CR>>, <<LF, a, a>>}

\* Limits just below, at and above the lengths of the lines.
TheKinds == {[mode |-> "Line", limit |-> 1], [mode |-> "Chunk", limit |-> 1],
             [mode |-> "All", limit |-> 2]}

\* A write that the other end cannot take at once, and an empty one.
TheLengths == [w \in Writers |-> IF w = "w1" THEN 2 ELSE 1]
=============================================================================
