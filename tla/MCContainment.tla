---------------------------- MODULE MCContainment ----------------------------
(***************************************************************************)
(* Small instances of Containment for TLC.  Two pids: one that a look has  *)
(* recorded and one that is found too late, either of them reused.  Three  *)
(* cancellations: one for the run, one for the read loop's own teardown    *)
(* and one for the teardown that follows it.                               *)
(***************************************************************************)
EXTENDS Containment, TLC
=============================================================================
