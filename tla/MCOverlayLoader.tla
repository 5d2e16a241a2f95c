-------------------------- MODULE MCOverlayLoader --------------------------
(***************************************************************************)
(* A small instance of OverlayLoader for TLC: two ROM functions and one RAM *)
(* function compete for the worker, one more lies in no region, and a       *)
(* function's bytes are old or new.  A function that guest code cannot      *)
(* rewrite starts, without loss of generality, with the old bytes.          *)
(***************************************************************************)
EXTENDS OverlayLoader

CONSTANTS rom1, rom2, ram, void, old, new


MCInit == Init /\ \A k \in Keys \ RamKeys : image[k] = old
MCSpec == MCInit /\ [][Next]_vars /\ Fairness
=============================================================================
