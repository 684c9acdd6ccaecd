--------------------------- MODULE MCBuildRecords ---------------------------
(***************************************************************************)
(* A target of one source that includes a header in one of its versions,   *)
(* the header asking for a second source, or a target of both.             *)
(***************************************************************************)
EXTENDS BuildRecords

CONSTANTS a, b, h

MCIncludes == [o \in Objects |-> [v \in Versions |-> IF o = a /\ v = 1 THEN {h} ELSE {}]]
MCSelects == [g \in Headers |-> {b}]
MCRoots == {{a}, {a, b}}
=============================================================================
