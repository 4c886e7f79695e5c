------------------------------ MODULE MCCouncil ------------------------------
(***************************************************************************)
(* Small instances of Council for TLC.                                     *)
(***************************************************************************)
EXTENDS Council, TLC

CONSTANTS s1, s2, s3

ThreeSeats == {s1, s2, s3}
InOrder == s1 :> 0 @@ s2 :> 1 @@ s3 :> 2
=============================================================================
