-------------------------- MODULE MCOrderProducer ---------------------------
(***************************************************************************)
(* OrderProducer on small instances: a batch of Count messages against a   *)
(* queue that is too small for it, polled every few messages.              *)
(***************************************************************************)
EXTENDS OrderProducer
=============================================================================
