--------------------------- MODULE MCTrustCluster ---------------------------
(* Instances of TrustCluster for TLC; the configurations choose the bounds. *)
EXTENDS TrustCluster
=============================================================================
