--------------------------- MODULE IdempotenceRound -------------------------
(***************************************************************************)
(* simulations/sim_idempotence.py (S13): one round.  The main thread       *)
(* produces Count messages and flushes with a timeout; a second thread     *)
(* pauses the leader for a while, so that requests time out and are        *)
(* retried; then the high watermark is compared with Count.  The rounds of *)
(* main() start from a fresh topic and differ in `idempotent' only.        *)
(***************************************************************************)
EXTENDS LibrdkafkaProducer

VARIABLES pc,          \* where the main thread is
          i,           \* the loop variable
          idempotent,  \* enable.idempotence
          confirmed,   \* callbacks without an error
          errors,      \* callbacks with an error
          verdict,     \* the line run_round() prints
          pauser,      \* where pause_and_resume() is
          copies,      \* appends of each message to the log
          logEnd       \* the high watermark

mainVars == <<pc, i, idempotent, confirmed, errors, verdict>>
vars == <<clientVars, mainVars, pauser, copies, logEnd>>

TypeOK ==
    /\ ClientTypeOK
    /\ pc \in {"produce", "poll", "flush", "join", "measure", "ended"}
    /\ i \in 0 .. Count
    /\ idempotent \in BOOLEAN
    /\ confirmed \in 0 .. Count
    /\ errors \in 0 .. Count
    /\ verdict \in {"none", "duplicates", "deduplicated", "lost"}
    /\ pauser \in {"sleeping", "paused", "done"}
    /\ copies \in [Msgs -> Nat]
    /\ logEnd \in Nat

\* The pauser is started before the first message is produced.
Init ==
    /\ ClientInit
    /\ pc = "produce"
    /\ i = 0
    /\ idempotent \in BOOLEAN
    /\ confirmed = 0
    /\ errors = 0
    /\ verdict = "none"
    /\ pauser = "sleeping"
    /\ copies = [m \in Msgs |-> 0]
    /\ logEnd = 0

-----------------------------------------------------------------------------
(* produce_with_retries()                                                   *)

OnDelivery(S) ==
    /\ confirmed' = confirmed + Cardinality(WithResult(S, "ok"))
    /\ errors' = errors + Cardinality(WithResult(S, "err"))

Produce ==
    /\ pc = "produce"
    /\ i < Count
    /\ Enqueue(i)
    /\ pc' = "poll"
    /\ UNCHANGED <<i, idempotent, confirmed, errors, verdict, pauser, copies, logEnd>>

Poll ==
    /\ pc = "poll"
    /\ Serve(Settled)
    /\ OnDelivery(Settled)
    /\ i' = i + 1
    /\ pc' = "produce"
    /\ UNCHANGED <<idempotent, verdict, pauser, copies, logEnd>>

EndLoop ==
    /\ pc = "produce"
    /\ i = Count
    /\ pc' = "flush"
    /\ UNCHANGED <<clientVars, i, idempotent, confirmed, errors, verdict, pauser, copies,
                   logEnd>>

FlushServe ==
    /\ pc = "flush"
    /\ Settled # {}
    /\ Serve(Settled)
    /\ OnDelivery(Settled)
    /\ UNCHANGED <<pc, i, idempotent, verdict, pauser, copies, logEnd>>

\* flush(timeout=15) may return with messages unanswered.
FlushReturn ==
    /\ pc = "flush"
    /\ pc' = "join"
    /\ UNCHANGED <<clientVars, i, idempotent, confirmed, errors, verdict, pauser, copies,
                   logEnd>>

\* join(timeout=5) outlasts the two sleeps of the pauser.
JoinPauser ==
    /\ pc = "join"
    /\ pauser = "done"
    /\ pc' = "measure"
    /\ UNCHANGED <<clientVars, i, idempotent, confirmed, errors, verdict, pauser, copies,
                   logEnd>>

\* run_round(): the watermark against Count; None prints no verdict.
Measure ==
    /\ pc = "measure"
    /\ pc' = "ended"
    /\ verdict' \in {"none",
                     IF logEnd > Count THEN "duplicates"
                     ELSE IF logEnd = Count THEN "deduplicated" ELSE "lost"}
    /\ UNCHANGED <<clientVars, i, idempotent, confirmed, errors, pauser, copies, logEnd>>

Main == Produce \/ Poll \/ EndLoop \/ FlushServe \/ FlushReturn \/ JoinPauser \/ Measure

\* pause_and_resume()
Pause ==
    /\ pauser = "sleeping"
    /\ pauser' = "paused"
    /\ UNCHANGED <<clientVars, mainVars, copies, logEnd>>

Resume ==
    /\ pauser = "paused"
    /\ pauser' = "done"
    /\ UNCHANGED <<clientVars, mainVars, copies, logEnd>>

-----------------------------------------------------------------------------
(* The client, the network and the leader.                                  *)

\* The client lives as long as produce_with_retries().
Background(m) ==
    /\ pc \in {"produce", "poll", "flush", "join"}
    /\ \/ Transmit(m) \/ RequestTimeout(m) \/ MessageTimeout(m)
       \/ \E k \in Tries : AckArrives(m, k)
    /\ UNCHANGED <<mainVars, pauser, copies, logEnd>>

NetworkLoss(m, k) ==
    /\ LoseRequest(m, k) \/ LoseAck(m, k)
    /\ UNCHANGED <<mainVars, pauser, copies, logEnd>>

\* Mutation of Known: sequence numbers are compared with the last attempt only.
KnownRetry(m, k) == idempotent /\ copies[m] > 0 /\ k < tries[m]

\* With idempotence the broker knows the sequence numbers it has written.
Known(m, k) == idempotent /\ copies[m] > 0

\* Requests that arrived while the leader was paused are served afterwards; a
\* known message is answered without being written again.
LeaderAppend(m, k) ==
    /\ pauser # "paused"
    /\ Answer(m, k)
    /\ IF Known(m, k)
       THEN UNCHANGED <<copies, logEnd>>
       ELSE /\ copies' = [copies EXCEPT ![m] = @ + 1]
            /\ logEnd' = logEnd + 1
    /\ UNCHANGED <<mainVars, pauser>>

Next ==
    \/ Main \/ Pause \/ Resume
    \/ \E m \in Msgs :
          \/ Background(m)
          \/ \E k \in Tries : NetworkLoss(m, k) \/ LeaderAppend(m, k)

Spec == Init /\ [][Next]_vars

-----------------------------------------------------------------------------
(* Properties                                                               *)

\* When "Duplicates" is printed a message really is in the log twice, and it
\* never is in the round with idempotence, however requests are delayed by the
\* pause, answered late and retried.
DuplicatesAreReal ==
    verdict = "duplicates" => ~idempotent /\ \E m \in Msgs : copies[m] > 1

\* With idempotence, if the producer saw all Count messages confirmed then the
\* log holds each exactly once and the round says so.
ConfirmedExactlyOnce ==
    idempotent /\ confirmed = Count =>
        /\ \A m \in Msgs : copies[m] = 1
        /\ verdict \in {"none", "deduplicated"}

-----------------------------------------------------------------------------
(* The parts of the inductive invariant.                                    *)

Served(r) == {m \in Msgs : stage[m] = "served" /\ result[m] = r}

\* The counters are what the callbacks that ran have said.
TallyInv ==
    /\ confirmed = Cardinality(Served("ok"))
    /\ errors = Cardinality(Served("err"))
    /\ pc = "poll" => i < Count

Written == {m \in Msgs : copies[m] > 0}

\* Nothing is answered that was not written.
AnsweredInv ==
    \A m \in Msgs :
        /\ \A k \in Tries : <<m, k>> \in acks => m \in Written
        /\ result[m] = "ok" => m \in Written

\* The watermark exceeds the messages written only where one was written
\* again, and with idempotence none is.
LogInv ==
    /\ (\A m \in Msgs : copies[m] <= 1) => logEnd = Cardinality(Written)
    /\ idempotent => \A m \in Msgs : copies[m] <= 1

VerdictInv ==
    /\ verdict # "none" => pc = "ended"
    /\ idempotent /\ verdict = "lost" => confirmed < Count

IInv == TypeOK /\ TallyInv /\ AnsweredInv /\ LogInv /\ VerdictInv /\ DuplicatesAreReal
=============================================================================
