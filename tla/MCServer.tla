------------------------------ MODULE MCServer ------------------------------
(***************************************************************************)
(* An instance of Server for TLC.  With MaxInt 127 and a second of ten     *)
(* units, 12 is the largest valid TTL and 13 the first that overflows.     *)
(***************************************************************************)
EXTENDS Server

BoundaryTTLs == {-1, 0, 12, 13, 26}
=============================================================================
