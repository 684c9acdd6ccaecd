----------------------------- MODULE MCNetwork -----------------------------
(***************************************************************************)
(* Two roots share a Network with one connection: a read of each of them   *)
(* contends for its input, a write_all and a write for its output, two or   *)
(* three of them in one program.                                           *)
(***************************************************************************)
EXTENDS Network

CONSTANTS c1, r1, r2, w1, w2, a1, a2

MCOn == [r \in Requests |-> c1]
MCKind == [r \in Requests |->
    IF r = w1 THEN "write_all" ELSE IF r = w2 THEN "write" ELSE "read"]
MCSize == [r \in Requests |-> IF r \in {r2, w1} THEN 2 ELSE 1]
MCRoot == [r \in Requests |-> IF r \in {r1, w2} THEN a1 ELSE a2]
MCArriving == [c \in Connections |-> 2]
MCPrograms == {{r1, r2}, {w1, w2}, {r1, w1}}
============================================================================
