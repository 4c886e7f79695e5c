----------------------------- MODULE MCStopHook -----------------------------
(***************************************************************************)
(* Small instances of StopHook for TLC.                                    *)
(***************************************************************************)
EXTENDS StopHook, TLC
=============================================================================
