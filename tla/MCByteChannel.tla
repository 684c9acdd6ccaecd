--------------------------- MODULE MCByteChannel ---------------------------
(***************************************************************************)
(* Two roots share the driver, each with a sender and a receiver of one    *)
(* channel; try_send brings a third message.                               *)
(***************************************************************************)
EXTENDS ByteChannel

CONSTANTS
    s1, s2, r1, r2, t1, A, B,
    MaxCancels  \* bound: how many of the operations are asked to cancel

SpreadInit == Init /\ root = [r \in Requests |-> IF r \in {s1, r1} THEN A ELSE B]
SpreadSpec ==
    /\ SpreadInit
    /\ [][Next /\ Cardinality(asked') <= MaxCancels]_vars
    /\ Fairness
=============================================================================
