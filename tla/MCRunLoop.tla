---------------------------- MODULE MCRunLoop ----------------------------
(***************************************************************************)
(* A small instance of RunLoop: an autosave interval of two frames, so that *)
(* checks fall inside it, and a blank chip and one other contents, which    *)
(* the game writes over one another any number of times.                    *)
(***************************************************************************)
EXTENDS RunLoop

CONSTANTS blank, one
=============================================================================
