-------------------------- MODULE MCBackwardCompat --------------------------
(***************************************************************************)
(* BackwardCompat with two partitions, of which one may hold two messages  *)
(* and the other one, and one session that expires.                         *)
(***************************************************************************)
EXTENDS BackwardCompat

CONSTANTS p0, p1

MCCapacity == [p \in {p0, p1} |-> IF p = p0 THEN 2 ELSE 1]
=============================================================================
