---------------------------- MODULE MCAutoCreate ----------------------------
(***************************************************************************)
(* AutoCreate with three payments per round.                                *)
(***************************************************************************)
EXTENDS AutoCreate
=============================================================================
