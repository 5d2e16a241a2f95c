---------------------------- MODULE MCRunControl ----------------------------
(***************************************************************************)
(* RunControl has no constants and finitely many states: TLC explores every *)
(* sequence of commands against every timing of the game thread.            *)
(***************************************************************************)
EXTENDS RunControl
=============================================================================
