---------------------------- MODULE MCTrustSync ----------------------------
(* Instances of TrustSync for TLC; the configurations choose the bounds.   *)
EXTENDS TrustSync
=============================================================================
