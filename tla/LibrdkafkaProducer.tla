------------------------ MODULE LibrdkafkaProducer -------------------------
(***************************************************************************)
(* The producer client of confluent_kafka (librdkafka) as the programs of  *)
(* this repository use it.  External code: it is modelled from the calls   *)
(* produce(), poll(), flush() and the delivery callback, and from the      *)
(* settings retries, request.timeout.ms and message.timeout.ms.            *)
(*                                                                         *)
(* The library owns two structures that the application never sees:        *)
(* messages waiting for an answer of the broker, and answers waiting for   *)
(* the application to call poll() or flush(), which run the callbacks.     *)
(***************************************************************************)
EXTENDS Integers, FiniteSets

CONSTANTS Count,      \* messages the program wants to publish
          MaxTries,   \* 1 + retries: how often one message may be sent
          QueueCap    \* queue.buffering.max.messages

ASSUME ClientAssumption ==
    /\ Count \in Nat
    /\ MaxTries \in Nat \ {0}
    /\ QueueCap \in Nat \ {0}

Msgs == 0 .. Count - 1
Tries == 1 .. MaxTries

VARIABLES stage,      \* where the client holds each message
          result,     \* the outcome its callback reports
          tries,      \* how often it was sent
          requests,   \* produce requests on the way to the broker
          acks        \* answers on the way back

clientVars == <<stage, result, tries, requests, acks>>

Stages == {"new", "queued", "inflight", "settled", "served"}
Results == {"none", "ok", "err"}

ClientTypeOK ==
    /\ stage \in [Msgs -> Stages]
    /\ result \in [Msgs -> Results]
    /\ tries \in [Msgs -> 0 .. MaxTries]
    /\ requests \subseteq Msgs \X Tries
    /\ acks \subseteq Msgs \X Tries

ClientInit ==
    /\ stage = [m \in Msgs |-> "new"]
    /\ result = [m \in Msgs |-> "none"]
    /\ tries = [m \in Msgs |-> 0]
    /\ requests = {}
    /\ acks = {}

\* What len(producer) counts: a message stays in the queue until its
\* callback has run, not only until the broker has answered.
Outstanding == {m \in Msgs : stage[m] \in {"queued", "inflight", "settled"}}

Settled == {m \in Msgs : stage[m] = "settled"}

WithResult(S, r) == {m \in S : result[m] = r}

\* Mutation of HasRoom: the last place of the queue is not used.
HasRoomSpare == Cardinality(Outstanding) < QueueCap - 1

HasRoom == Cardinality(Outstanding) < QueueCap

-----------------------------------------------------------------------------
(* The calls of the application.                                            *)

\* produce(): copies the message into the queue and returns at once.
Enqueue(m) ==
    /\ stage[m] = "new"
    /\ stage' = [stage EXCEPT ![m] = "queued"]
    /\ UNCHANGED <<result, tries, requests, acks>>

\* poll() and flush() run the callbacks of S in the application's thread.
Serve(S) ==
    /\ stage' = [m \in Msgs |-> IF m \in S THEN "served" ELSE stage[m]]
    /\ UNCHANGED <<result, tries, requests, acks>>

-----------------------------------------------------------------------------
(* The client's background threads.                                         *)

Settle(m, r) ==
    /\ stage' = [stage EXCEPT ![m] = "settled"]
    /\ result' = [result EXCEPT ![m] = r]

Transmit(m) ==
    /\ stage[m] = "queued"
    /\ tries[m] < MaxTries
    /\ stage' = [stage EXCEPT ![m] = "inflight"]
    /\ tries' = [tries EXCEPT ![m] = @ + 1]
    /\ requests' = requests \cup {<<m, tries[m] + 1>>}
    /\ UNCHANGED <<result, acks>>

\* Mutation of AckArrives: a late answer is taken for the current one.
AckArrivesLate(m, k) ==
    /\ <<m, k>> \in acks
    /\ acks' = acks \ {<<m, k>>}
    /\ Settle(m, "ok")
    /\ UNCHANGED <<tries, requests>>

\* An answer counts only for the request the client is still waiting for.
AckArrives(m, k) ==
    /\ <<m, k>> \in acks
    /\ acks' = acks \ {<<m, k>>}
    /\ IF stage[m] = "inflight" /\ tries[m] = k
       THEN Settle(m, "ok")
       ELSE UNCHANGED <<stage, result>>
    /\ UNCHANGED <<tries, requests>>

\* Mutation of RequestTimeout: only a first attempt is ever timed out.
RequestTimeoutOnce(m) ==
    /\ stage[m] = "inflight"
    /\ tries[m] < MaxTries
    /\ stage' = [stage EXCEPT ![m] = "queued"]
    /\ UNCHANGED <<result, tries, requests, acks>>

\* request.timeout.ms: retried while retries are left, then failed.
RequestTimeout(m) ==
    /\ stage[m] = "inflight"
    /\ IF tries[m] < MaxTries
       THEN stage' = [stage EXCEPT ![m] = "queued"] /\ UNCHANGED result
       ELSE Settle(m, "err")
    /\ UNCHANGED <<tries, requests, acks>>

\* message.timeout.ms: a message that waits to be sent is given up.
MessageTimeout(m) ==
    /\ stage[m] = "queued"
    /\ Settle(m, "err")
    /\ UNCHANGED <<tries, requests, acks>>

-----------------------------------------------------------------------------
(* The network may lose a request or an answer; it keeps working when the  *)
(* program has ended.                                                       *)

LoseRequest(m, k) ==
    /\ <<m, k>> \in requests
    /\ requests' = requests \ {<<m, k>>}
    /\ UNCHANGED <<stage, result, tries, acks>>

LoseAck(m, k) ==
    /\ <<m, k>> \in acks
    /\ acks' = acks \ {<<m, k>>}
    /\ UNCHANGED <<stage, result, tries, requests>>

\* The broker takes a request off the wire and answers it.  What it writes
\* is said by the module that models the log.
Answer(m, k) ==
    /\ <<m, k>> \in requests
    /\ requests' = requests \ {<<m, k>>}
    /\ acks' = acks \cup {<<m, k>>}
    /\ UNCHANGED <<stage, result, tries>>
=============================================================================
