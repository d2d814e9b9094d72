----------------------------- MODULE MCAcksRound ----------------------------
(***************************************************************************)
(* AcksRound with the three brokers of docker-compose.yml.                 *)
(***************************************************************************)
EXTENDS AcksRound
=============================================================================
