---------------------------- MODULE MCRunConsumers --------------------------
(***************************************************************************)
(* RunConsumers with the default of three consumers, and the statement of  *)
(* the script that it does not keep.                                        *)
(***************************************************************************)
EXTENDS RunConsumers

\* run_consumers.sh:25 says "Press Ctrl+C to stop all.", and cleanup reports
\* "All consumers stopped" at its end: after a signal the script ends.
CtrlCStopsAll == signals > 0 ~> pc = "exited"
=============================================================================
