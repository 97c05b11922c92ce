------------------------------ MODULE MCHybrid ------------------------------
(* Instances of the hybrid index for TLC. *)
EXTENDS HybridPGMLipp
=============================================================================
