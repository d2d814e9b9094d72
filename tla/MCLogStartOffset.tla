--------------------------- MODULE MCLogStartOffset -------------------------
(***************************************************************************)
(* LogStartOffset on a log short enough for TLC, whose segments hold the   *)
(* committed messages of a group and a little more.                         *)
(***************************************************************************)
EXTENDS LogStartOffset
=============================================================================
