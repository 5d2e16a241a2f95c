---------------------------- MODULE MCLazyClock ----------------------------
(***************************************************************************)
(* A clock scaled down: a picture event every five cycles, and events of    *)
(* the timer and the serial port between, at and across instruction ends.   *)
(***************************************************************************)
EXTENDS LazyClock
=============================================================================
