--------------------------- MODULE OrderProducer ----------------------------
(***************************************************************************)
(* services/producer.py and simulations/payment_producer.py: one loop that *)
(* produces Count messages, polls every PollEvery messages, flushes and    *)
(* reports.  The two programs differ only in PollEvery, in what they count *)
(* in the callback and in what they print at the end.  `copies' is the     *)
(* broker's log: how often each message was appended to it (both programs  *)
(* leave enable.idempotence at its default, off).                          *)
(***************************************************************************)
EXTENDS LibrdkafkaProducer

CONSTANT PollEvery

ASSUME LoopAssumption == PollEvery \in Nat \ {0}

VARIABLES pc,          \* where main() is, or how it ended
          i,           \* the loop variable
          delivered,   \* callbacks that reported success
          failed,      \* callbacks that reported an error
          copies       \* appends of each message to the broker's log

appVars == <<pc, i, delivered, failed>>
vars == <<clientVars, appVars, copies>>

Running == {"produce", "poll", "flush"}
Died == {"registry_error", "buffer_error", "interrupted"}

TypeOK ==
    /\ ClientTypeOK
    /\ pc \in Running \cup Died \cup {"exited"}
    /\ i \in 0 .. Count
    /\ delivered \in Nat
    /\ failed \in Nat
    /\ copies \in [Msgs -> Nat]

Init ==
    /\ ClientInit
    /\ pc = "produce"
    /\ i = 0
    /\ delivered = 0
    /\ failed = 0
    /\ copies = [m \in Msgs |-> 0]

-----------------------------------------------------------------------------
(* main()                                                                   *)

\* The first serialisation registers the schema; an unreachable registry
\* raises before anything was produced.
RegistryError ==
    /\ pc = "produce"
    /\ i = 0
    /\ i < Count
    /\ pc' = "registry_error"
    /\ UNCHANGED <<clientVars, i, delivered, failed, copies>>

\* produce(), and the test that decides whether to poll.
Produce ==
    /\ pc = "produce"
    /\ i < Count
    /\ HasRoom
    /\ Enqueue(i)
    /\ IF i % PollEvery = 0
       THEN pc' = "poll" /\ UNCHANGED i
       ELSE i' = i + 1 /\ UNCHANGED pc
    /\ UNCHANGED <<delivered, failed, copies>>

\* A full queue raises BufferError, which nothing catches.
BufferError ==
    /\ pc = "produce"
    /\ i < Count
    /\ ~HasRoom
    /\ pc' = "buffer_error"
    /\ UNCHANGED <<clientVars, i, delivered, failed, copies>>

\* Mutation of Callbacks: `if err' is not tested.
CallbacksIgnoringErr(S) ==
    /\ delivered' = delivered + Cardinality(S)
    /\ UNCHANGED failed

\* Mutation of Callbacks: without `nonlocal' the count starts afresh.
CallbacksLocal(S) ==
    /\ delivered' = Cardinality(WithResult(S, "ok"))
    /\ failed' = failed + Cardinality(WithResult(S, "err"))

\* delivery_report / on_delivery, once for every message of S.
Callbacks(S) ==
    /\ delivered' = delivered + Cardinality(WithResult(S, "ok"))
    /\ failed' = failed + Cardinality(WithResult(S, "err"))

\* Mutation of Poll: the loop variable advances twice.
PollSkips ==
    /\ pc = "poll"
    /\ Serve(Settled)
    /\ Callbacks(Settled)
    /\ i' = i + 2
    /\ pc' = "produce"
    /\ UNCHANGED copies

\* poll(0) runs the callbacks that are ready and does not wait for others.
Poll ==
    /\ pc = "poll"
    /\ Serve(Settled)
    /\ Callbacks(Settled)
    /\ i' = i + 1
    /\ pc' = "produce"
    /\ UNCHANGED copies

EndLoop ==
    /\ pc = "produce"
    /\ i = Count
    /\ pc' = "flush"
    /\ UNCHANGED <<clientVars, i, delivered, failed, copies>>

\* flush() without a timeout runs callbacks until the queue is empty ...
FlushServe ==
    /\ pc = "flush"
    /\ Settled # {}
    /\ Serve(Settled)
    /\ Callbacks(Settled)
    /\ UNCHANGED <<pc, i, copies>>

\* Mutation of FlushReturn: a flush with a timeout returns early.
FlushReturnEarly ==
    /\ pc = "flush"
    /\ pc' = "exited"
    /\ UNCHANGED <<clientVars, i, delivered, failed, copies>>

\* ... and only then returns; the program prints its result and ends.
FlushReturn ==
    /\ pc = "flush"
    /\ Outstanding = {}
    /\ pc' = "exited"
    /\ UNCHANGED <<clientVars, i, delivered, failed, copies>>

\* Ctrl+C: what the queue still holds is dropped with the process.
Interrupt ==
    /\ pc \in Running
    /\ pc' = "interrupted"
    /\ UNCHANGED <<clientVars, i, delivered, failed, copies>>

App == RegistryError \/ Produce \/ BufferError \/ Poll \/ EndLoop
       \/ FlushServe \/ FlushReturn

-----------------------------------------------------------------------------
(* The client's threads live as long as the process; the network and the   *)
(* broker do not depend on it.                                              *)

Background(m) ==
    /\ pc \in Running
    /\ \/ Transmit(m)
       \/ RequestTimeout(m)
       \/ MessageTimeout(m)
       \/ \E k \in Tries : AckArrives(m, k)
    /\ UNCHANGED <<appVars, copies>>

BrokerAppend(m, k) ==
    /\ Answer(m, k)
    /\ copies' = [copies EXCEPT ![m] = @ + 1]
    /\ UNCHANGED appVars

NetworkLoss(m, k) ==
    /\ LoseRequest(m, k) \/ LoseAck(m, k)
    /\ UNCHANGED <<appVars, copies>>

Next ==
    \/ App
    \/ Interrupt
    \/ \E m \in Msgs :
          \/ Background(m)
          \/ \E k \in Tries : BrokerAppend(m, k) \/ NetworkLoss(m, k)

\* main() runs, and the client's threads send and time out without the
\* application's help.  Nothing is assumed of the network or the broker.
Fairness ==
    /\ WF_vars(App)
    /\ WF_vars(\E m \in Msgs : Background(m))

Spec == Init /\ [][Next]_vars
FairSpec == Spec /\ Fairness

-----------------------------------------------------------------------------
(* Properties                                                               *)

Accepted == {m \in Msgs : stage[m] # "new"}

Durable == {m \in Msgs : copies[m] > 0}

\* The count the payment producer prints never exceeds the messages that
\* really are in the log, although retries, late answers and failures
\* separate the moment of the append from the moment of the callback.
DeliveredIsDurable == delivered <= Cardinality(Durable)

\* Every message handed to produce() is either still in the client's queue
\* or was reported exactly once: no callback is lost between poll(0) and
\* flush(), none runs twice, also when the program dies half way.
ReportedOnce ==
    delivered + failed + Cardinality(Outstanding) = Cardinality(Accepted)

\* When main() prints its last line, each of the Count messages has been
\* reported and nothing is left in the client: the flush is what makes
\* "delivered/count" final.
ExitSettled ==
    pc = "exited" => /\ Outstanding = {}
                     /\ delivered + failed = Count

\* A BufferError leaves a full queue behind, no more and no less: of the i
\* messages handed over, QueueCap are never reported although the log may have
\* them, whatever answers, retries and polls came in between; and no later
\* message is in the log.
AbandonsFullQueue ==
    pc = "buffer_error" => /\ delivered + failed + QueueCap = i
                           /\ \A m \in Durable : m < i

\* The program ends whatever the network and the broker do: a flush without
\* a timeout is bounded by the timeouts of the client's requests.
Terminates == <>(pc \notin Running)

-----------------------------------------------------------------------------
(* Why the tallies are right: the parts of the inductive invariant.         *)

Served(r) == {m \in Msgs : stage[m] = "served" /\ result[m] = r}

\* Only accepted messages are on the wire, and only appended ones acknowledged.
WireInv ==
    /\ \A m \in Msgs, k \in Tries : <<m, k>> \in requests => stage[m] # "new"
    /\ \A m \in Msgs, k \in Tries :
          <<m, k>> \in acks => stage[m] # "new" /\ copies[m] > 0

\* A result is set when the message is settled, and success means appended.
ResultInv ==
    \A m \in Msgs :
        /\ stage[m] \in {"new", "queued", "inflight"} <=> result[m] = "none"
        /\ stage[m] = "new" => copies[m] = 0
        /\ result[m] = "ok" => copies[m] > 0

\* The counters are the numbers of served messages with each result.
TallyInv ==
    /\ delivered = Cardinality(Served("ok"))
    /\ failed = Cardinality(Served("err"))

\* The loop has handed over exactly the messages below its index.
LoopInv ==
    /\ pc = "produce" => \A m \in Msgs : stage[m] = "new" <=> m >= i
    /\ pc = "poll" => i < Count /\ \A m \in Msgs : stage[m] = "new" <=> m > i
    /\ pc \in {"flush", "exited"} => \A m \in Msgs : stage[m] # "new"
    /\ pc = "exited" => Outstanding = {}

IInv == TypeOK /\ WireInv /\ ResultInv /\ TallyInv /\ LoopInv

\* Inductive together with IInv: the queue never holds more than its limit, and
\* a BufferError leaves it full, with the messages below the loop's index
\* handed over.
FullInv ==
    /\ Cardinality(Outstanding) <= QueueCap
    /\ pc = "buffer_error" => /\ Cardinality(Outstanding) = QueueCap
                              /\ \A m \in Msgs : stage[m] = "new" <=> m >= i

-----------------------------------------------------------------------------
(* The detailed program implements PublishContract.                        *)

Status(m) ==
    CASE stage[m] = "new" -> "idle"
      [] stage[m] = "served" /\ result[m] = "ok" -> "delivered"
      [] stage[m] = "served" /\ result[m] # "ok" -> "failed"
      [] OTHER -> "pending"

Outcome ==
    CASE pc \in Running -> "running"
      [] pc \in Died -> "died"
      [] OTHER -> "returned"

Contract == INSTANCE PublishContract
                WITH status <- [m \in Msgs |-> Status(m)],
                     durable <- Durable,
                     outcome <- Outcome

\* Every step of the program, its client, the network and the broker is a
\* step of the contract or leaves the contract's state alone.
ImplementsContract == Contract!Spec
=============================================================================
