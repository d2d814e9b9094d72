----------------------------- MODULE AutoCreate -----------------------------
(***************************************************************************)
(* S2: simulations/sim_auto_create_footgun.py.  Two rounds produce to a    *)
(* mistyped topic, the first with auto-creation on, the second with it off *)
(* and with what the first one left behind.  The cluster is configured     *)
(* through rpk, whose failures the script does not see.                     *)
(***************************************************************************)
EXTENDS Integers

CONSTANT Count   \* payments of a round

ASSUME CountAssumption == Count \in Nat \ {0}

Rounds == 1 .. 2

VARIABLES autoCreate,  \* auto_create_topics_enabled
          exists,      \* the mistyped topic
          stored       \* the messages in it

brokerVars == <<autoCreate, exists, stored>>

VARIABLES pc,          \* the step main() or produce_to() is at
          round,
          unsent,      \* payments the loop has not come to
          queued,      \* payments the client holds
          delivered,   \* per round, counted by on_delivery
          errors       \* per round, entries of the list

produceVars == <<unsent, queued, delivered, errors>>

VARIABLE existed       \* history: the topic was there when the round began

vars == <<brokerVars, pc, round, produceVars, existed>>

\* An earlier run may have died half way and left the setting or the topic.
Init ==
    /\ autoCreate \in BOOLEAN
    /\ exists \in BOOLEAN
    /\ stored = 0
    /\ pc = "config" /\ round = 1
    /\ unsent = Count /\ queued = 0
    /\ delivered = [r \in Rounds |-> 0]
    /\ errors = [r \in Rounds |-> 0]
    /\ existed = FALSE

-----------------------------------------------------------------------------
(* rpk: a command takes effect, or fails unnoticed.                         *)

SetAutoCreate ==
    /\ pc = "config"
    /\ autoCreate' \in {round = 1, autoCreate}
    /\ pc' = "produce"
    /\ existed' = exists
    /\ UNCHANGED <<exists, stored, round, produceVars>>

DeleteTopic ==
    /\ pc = "cleanup"
    /\ \/ exists' = FALSE /\ stored' = 0
       \/ UNCHANGED <<exists, stored>>
    /\ pc' = "restore"
    /\ UNCHANGED <<autoCreate, round, produceVars, existed>>

Restore ==
    /\ pc = "restore"
    /\ autoCreate' \in {TRUE, autoCreate}
    /\ pc' = "ended"
    /\ UNCHANGED <<exists, stored, round, produceVars, existed>>

-----------------------------------------------------------------------------
(* produce_to() and the client.                                             *)

\* Mutation of Produce: a payment that is refused is tried again, too.
ProduceRetried ==
    /\ pc = "produce"
    /\ unsent > 0
    /\ \/ queued' = queued + 1 /\ unsent' = unsent - 1 /\ UNCHANGED errors
       \/ /\ ~exists
          /\ errors' = [errors EXCEPT ![round] = @ + 1]
          /\ queued' = queued + 1 /\ unsent' = unsent - 1
    /\ UNCHANGED <<brokerVars, pc, round, delivered, existed>>

\* produce() takes the payment, or raises KafkaException: the client has
\* learned that there is no such topic.
Produce ==
    /\ pc = "produce"
    /\ unsent > 0
    /\ unsent' = unsent - 1
    /\ \/ queued' = queued + 1 /\ UNCHANGED errors
       \/ /\ ~exists
          /\ errors' = [errors EXCEPT ![round] = @ + 1]
          /\ UNCHANGED queued
    /\ UNCHANGED <<brokerVars, pc, round, delivered, existed>>

\* Only KafkaException is caught: an error of the serialiser ends the program,
\* with the cluster as it is.
SerializerRaises ==
    /\ pc = "produce"
    /\ unsent > 0
    /\ pc' = "died"
    /\ UNCHANGED <<brokerVars, round, produceVars, existed>>

\* A client that asks the broker for the topic's metadata creates the topic.
Metadata ==
    /\ queued > 0
    /\ autoCreate /\ ~exists
    /\ exists' = TRUE
    /\ UNCHANGED <<autoCreate, stored, pc, round, produceVars, existed>>

\* Mutation of Settle: on_delivery counts without a look at err.
SettleUnchecked ==
    /\ pc = "produce"
    /\ queued > 0
    /\ queued' = queued - 1
    /\ stored' \in IF exists THEN {stored, stored + 1} ELSE {stored}
    /\ delivered' = [delivered EXCEPT ![round] = @ + 1]
    /\ UNCHANGED <<autoCreate, exists, pc, round, unsent, errors, existed>>

\* A payment is stored and answered, or fails: without a topic after
\* message.timeout.ms, or because its answer was lost.  on_delivery runs in
\* flush() only, and nothing reads its counts before.
Settle ==
    /\ pc = "produce"
    /\ queued > 0
    /\ queued' = queued - 1
    /\ \/ /\ exists
          /\ stored' = stored + 1
          /\ delivered' = [delivered EXCEPT ![round] = @ + 1]
          /\ UNCHANGED errors
       \/ /\ stored' \in IF exists THEN {stored, stored + 1} ELSE {stored}
          /\ errors' = [errors EXCEPT ![round] = @ + 1]
          /\ UNCHANGED delivered
    /\ UNCHANGED <<autoCreate, exists, pc, round, unsent, existed>>

\* flush() returns, and the round's result is printed.
Flushed ==
    /\ pc = "produce"
    /\ unsent = 0 /\ queued = 0
    /\ IF round = 1
       THEN pc' = "config" /\ round' = 2 /\ unsent' = Count
       ELSE pc' = "cleanup" /\ UNCHANGED <<round, unsent>>
    /\ UNCHANGED <<brokerVars, queued, delivered, errors, existed>>

Next ==
    \/ SetAutoCreate \/ DeleteTopic \/ Restore
    \/ Produce \/ SerializerRaises \/ Settle \/ Flushed
    \/ Metadata

Spec == Init /\ [][Next]_vars

-----------------------------------------------------------------------------
(* Properties                                                               *)

Printed == {r \in Rounds : r < round \/ pc \in {"cleanup", "restore", "ended"}}

\* A round's result accounts for every payment exactly once, whether produce()
\* raised, the broker answered or the message timed out.
AllAccounted == \A r \in Printed : delivered[r] + errors[r] = Count

\* A payment that round 2 delivers went to a topic round 1 (or an earlier run)
\* left, or the setting was not changed: with auto-creation off a name that is
\* unknown takes nothing, and the silence of round 2 is explained by round 1.
QuietMeansExisted ==
    pc = "cleanup" /\ errors[2] < Count => autoCreate \/ (existed /\ stored > 0)

-----------------------------------------------------------------------------
(* The parts of the inductive invariant.                                    *)

TypeOK ==
    /\ autoCreate \in BOOLEAN /\ exists \in BOOLEAN /\ existed \in BOOLEAN
    /\ pc \in {"config", "produce", "cleanup", "restore", "ended", "died"}
    /\ round \in Rounds
    /\ stored \in Nat /\ unsent \in Nat /\ queued \in Nat
    /\ delivered \in [Rounds -> Nat] /\ errors \in [Rounds -> Nat]

\* The payments of a round are with the loop, with the client, or counted; a
\* round starts with none counted and ends with all.
CountInv ==
    /\ unsent + queued + delivered[round] + errors[round] = Count
    /\ pc = "config" => unsent = Count
    /\ pc \in {"cleanup", "restore", "ended"} => round = 2 /\ unsent = 0 /\ queued = 0
    /\ IF round = 1 THEN delivered[2] = 0 /\ errors[2] = 0
                    ELSE delivered[1] + errors[1] = Count

\* While a round lasts nothing takes the topic away, and without auto-creation
\* nothing brings it.
TopicInv ==
    pc \in {"produce", "cleanup"} =>
        /\ delivered[round] > 0 => exists /\ stored > 0
        /\ exists => autoCreate \/ existed

IInv == TypeOK /\ CountInv /\ TopicInv
=============================================================================
