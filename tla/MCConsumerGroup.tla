--------------------------- MODULE MCConsumerGroup --------------------------
(***************************************************************************)
(* ConsumerGroup on a small instance.                                      *)
(***************************************************************************)
EXTENDS ConsumerGroup

CONSTANTS p1, p2

\* Two messages in one partition, so that it can change hands half way and a
\* commit could move back; one in the other.
MCLogEnd == [p \in {p1, p2} |-> IF p = p1 THEN 2 ELSE 1]
=============================================================================
