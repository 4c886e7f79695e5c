--------------------------- MODULE MCCodexUpdate ---------------------------
(***************************************************************************)
(* A small instance of CodexUpdate for TLC.                                *)
(***************************************************************************)
EXTENDS CodexUpdate, TLC
=============================================================================
