-------------------------- MODULE MCLanguageServer --------------------------
(***************************************************************************)
(* An editor that has one document open sends four more messages about it  *)
(* and a second one: edits, a query, its cancellation, workspace changes,  *)
(* shutdown and exit in any order, over channels that hold two events.     *)
(***************************************************************************)
EXTENDS LanguageServer

CONSTANTS a, b, q1
=============================================================================
