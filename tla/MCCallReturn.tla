---------------------------- MODULE MCCallReturn ----------------------------
(***************************************************************************)
(* Small instances of CallReturn.  Wide: two calls of any kind in progress, *)
(* two IRQs, savestates.  Deep: five calls of any kind over all contexts,    *)
(* through two BL sites, and one IRQ.                                       *)
(***************************************************************************)
EXTENDS CallReturn

CONSTANTS a, b, j, s, other

VARIABLE instance

Depth == Len(FlattenSeq(guest'))
Within == \/ instance = "wide" /\ Depth <= 2
          \/ instance = "deep" /\ nest' <= 1 /\ slot' = None

MCInit == Init /\ instance \in {"wide", "deep"}
MCNext == Next /\ Within /\ UNCHANGED instance
MCSpec == MCInit /\ [][MCNext]_<<vars, instance>>
=============================================================================
