------------------------------ MODULE MCReview ------------------------------
(***************************************************************************)
(* A small instance of Review for TLC.                                     *)
(***************************************************************************)
EXTENDS Review, TLC
=============================================================================
