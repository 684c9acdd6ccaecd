---------------------------- MODULE MCProcesses ----------------------------
(***************************************************************************)
(* Programs with one child with pipes, and with a group of three, in a     *)
(* system of few process numbers.                                          *)
(***************************************************************************)
EXTENDS Processes

CONSTANTS p1, g1, g2, g3, rd, wr, x1, x2

MCOn == [r \in Requests |-> p1]
MCKind == [r \in Requests |-> IF r = rd THEN "Read" ELSE IF r = wr THEN "Write" ELSE "Wait"]
MCPrograms == {{p1, rd, x1}, {p1, x1, x2}, {p1, wr, x1}, {g1, g2, g3}}
============================================================================
