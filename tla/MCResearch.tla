----------------------------- MODULE MCResearch -----------------------------
(***************************************************************************)
(* A small instance of Research for TLC: arXiv with two lanes, GitHub and  *)
(* Hugging Face, and room for two retries in the queue of polite slots, so *)
(* that a third one, or another call's, is turned away.                    *)
(***************************************************************************)
EXTENDS Research, TLC
=============================================================================
