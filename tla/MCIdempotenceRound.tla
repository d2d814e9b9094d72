-------------------------- MODULE MCIdempotenceRound ------------------------
(***************************************************************************)
(* IdempotenceRound with two messages and one retry.                       *)
(***************************************************************************)
EXTENDS IdempotenceRound
=============================================================================
