---------------------------- MODULE MCExecution ----------------------------
(* Small instances of Execution for TLC.                                   *)
EXTENDS Execution, TLC

\* Frames that are not roots are interchangeable, and so are the roots of a
\* shared driver.
ChildSymmetry == Permutations(Frames \ Roots)
HostSymmetry == ChildSymmetry \cup Permutations(Roots)
=============================================================================
