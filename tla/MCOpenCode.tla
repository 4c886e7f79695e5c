----------------------------- MODULE MCOpenCode -----------------------------
(***************************************************************************)
(* A small instance of OpenCode for TLC.                                   *)
(***************************************************************************)
EXTENDS OpenCode, TLC
=============================================================================
