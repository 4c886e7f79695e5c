---------------------------- MODULE MCSeatHelper ----------------------------
(***************************************************************************)
(* A small instance of SeatHelper for TLC.                                 *)
(***************************************************************************)
EXTENDS SeatHelper, TLC
=============================================================================
