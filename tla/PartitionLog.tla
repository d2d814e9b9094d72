---------------------------- MODULE PartitionLog ----------------------------
(***************************************************************************)
(* The log of one partition of the broker, as the storage simulations      *)
(* configure it (segment.bytes, retention.ms, retention.bytes) and observe *)
(* it (log start offset, high watermark).  External code.                  *)
(*                                                                         *)
(* A log is the first offsets of its segments and its end.  A batch goes   *)
(* to the newest segment as a whole; when that one is full already, a new  *)
(* one is opened first.  Retention deletes segments from the oldest on,    *)
(* never the newest.                                                        *)
(***************************************************************************)
EXTENDS Integers

EmptyLog == [segments |-> {0}, end |-> 0]

IsLog(log) == log \in [segments : (SUBSET Nat) \ {{}}, end : Nat]

\* The log start offset, and where the active segment starts.
LogStart(log) == CHOOSE b \in log.segments : \A c \in log.segments : b <= c
Active(log) == CHOOSE b \in log.segments : \A c \in log.segments : c <= b

\* The messages that are on disk.
Kept(log) == log.end - LogStart(log)

HasClosed(log) == LogStart(log) # Active(log)

\* The log with a batch of n messages, when size of them fill a segment.
Appended(log, n, size) ==
    [segments |-> IF log.end - Active(log) >= size
                  THEN log.segments \cup {log.end} ELSE log.segments,
     end |-> log.end + n]

\* The log without its oldest segment.
Trimmed(log) == [log EXCEPT !.segments = @ \ {LogStart(log)}]
=============================================================================
