------------------------------ MODULE MCGather ------------------------------
(***************************************************************************)
(* A small instance of Gather for TLC.                                     *)
(***************************************************************************)
EXTENDS Gather, TLC
=============================================================================
