---------------------------- MODULE MCGeminiCli ----------------------------
(***************************************************************************)
(* A small instance of GeminiCli for TLC: the numbers of the code, in      *)
(* seconds, and waits on both sides of every limit that is compared.       *)
(***************************************************************************)
EXTENDS GeminiCli, TLC
=============================================================================
