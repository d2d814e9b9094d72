-------------------------- MODULE MCRetentionRounds -------------------------
(***************************************************************************)
(* RetentionRounds with enough messages for two closed segments in each    *)
(* partition, and a cap that does not fall on a segment's edge.             *)
(***************************************************************************)
EXTENDS RetentionRounds
=============================================================================
