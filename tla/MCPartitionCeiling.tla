-------------------------- MODULE MCPartitionCeiling ------------------------
(***************************************************************************)
(* PartitionCeiling with more threads than partitions.                     *)
(***************************************************************************)
EXTENDS PartitionCeiling, TLC

Symmetry == Permutations(Consumers) \cup Permutations(Partitions)
=============================================================================
