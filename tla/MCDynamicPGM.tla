---------------------------- MODULE MCDynamicPGM ----------------------------
(* Instances of the dynamic PGM index for TLC. *)
EXTENDS DynamicPGM

MCSlots == [i \in 0..(MaxLevel + 1) |-> 2^i]
=============================================================================
