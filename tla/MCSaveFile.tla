---------------------------- MODULE MCSaveFile ----------------------------
(***************************************************************************)
(* A small instance of SaveFile: a blank chip and two later contents are    *)
(* enough for a previous save, the save being written and the one a         *)
(* savestate brings back.                                                   *)
(***************************************************************************)
EXTENDS SaveFile

CONSTANTS blank, one, two
=============================================================================
