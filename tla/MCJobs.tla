------------------------------- MODULE MCJobs -------------------------------
(***************************************************************************)
(* Small instances of Jobs for TLC.  Two jobs and two callers are needed   *)
(* for two requests that claim the same job while another one keeps the    *)
(* reaper busy.  No symmetry: the run also checks liveness.                *)
(***************************************************************************)
EXTENDS Jobs, TLC
=============================================================================
