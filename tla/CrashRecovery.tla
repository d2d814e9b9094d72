---------------------------- MODULE CrashRecovery ---------------------------
(***************************************************************************)
(* S5: simulations/sim_crash_recovery.sh.  Each scenario creates its       *)
(* topics, seeds them, starts payment_producer.py in the background, kills *)
(* the broker under it, starts it again and waits for both.  The broker    *)
(* and its disk, and the client of the background producer, run on their   *)
(* own.                                                                     *)
(*                                                                         *)
(* A message is the scenario it was produced in and a number; 0 stands for *)
(* all that flood() seeds, and scenario 0 for an earlier run.              *)
(***************************************************************************)
EXTENDS Integers, Sequences, FiniteSets, Functions

CONSTANTS Topics,
          Scenarios,   \* per scenario, its specs in order: topic and partitions
          Leftovers,   \* what earlier runs may have left: the partitions of
                       \* each topic, 0 where it does not exist
          Flood        \* payments of the background producer

ASSUME ScenarioAssumption ==
    /\ IsFiniteSet(Topics)
    /\ Flood \in Nat
    /\ Scenarios \in Seq(Seq([topic : Topics, parts : Nat \ {0}])) /\ Scenarios # <<>>
    /\ \A s \in DOMAIN Scenarios : Scenarios[s] # <<>>
    /\ Leftovers \subseteq [Topics -> Nat]

\* No scenario lists a topic twice, and each lists those of the one before.
ASSUME CoverAssumption ==
    /\ \A n \in DOMAIN Scenarios : \A r, s \in DOMAIN Scenarios[n] :
          Scenarios[n][r].topic = Scenarios[n][s].topic => r = s
    /\ \A n \in 1 .. Len(Scenarios) - 1 : \A r \in DOMAIN Scenarios[n] :
          \E s \in DOMAIN Scenarios[n + 1] : Scenarios[n + 1][s].topic = Scenarios[n][r].topic

VARIABLES pc,           \* the command the script is at
          scenario,
          spec,         \* the spec a loop of run_scenario is at
          total_parts   \* what it prints that the broker must recover

scriptVars == <<pc, scenario, spec, total_parts>>

VARIABLES broker,       \* "up", "down" or "recovering"
          partitions,   \* of each topic; 0 where it does not exist
          cache, disk   \* per topic, the messages in memory and the flushed ones

brokerVars == <<broker, partitions, cache, disk>>

VARIABLES running,      \* the background producer
          target,       \* its topic
          pending       \* its messages that are not settled

floodVars == <<running, target, pending>>

vars == <<scriptVars, brokerVars, floodVars>>

Specs == Scenarios[scenario]
Messages == (0 .. Len(Scenarios)) \X (0 .. Flood)
Nothing == [t \in Topics |-> {}]

\* Nothing deletes the topics at the end of a run, or where it failed.
Init ==
    /\ pc = "create" /\ scenario = 1 /\ spec = 1 /\ total_parts = 0
    /\ broker = "up"
    /\ partitions \in Leftovers
    /\ cache = Nothing
    /\ disk = [t \in Topics |-> IF partitions[t] = 0 THEN {} ELSE {<<0, 0>>}]
    /\ running = FALSE /\ target = Specs[1].topic /\ pending = {}

-----------------------------------------------------------------------------
(* run_scenario                                                             *)

\* The loop over the specs goes on, or the next one begins.
NextSpec(after) ==
    IF spec < Len(Specs) THEN spec' = spec + 1 /\ UNCHANGED pc
                         ELSE spec' = 1 /\ pc' = after

\* Mutation of CreateTopic: the topic is not deleted first, and stays as it is.
CreateKeeps ==
    /\ pc = "create"
    /\ total_parts' = total_parts + Specs[spec].parts
    /\ partitions' = [partitions EXCEPT ![Specs[spec].topic] =
                         IF @ = 0 THEN Specs[spec].parts ELSE @]
    /\ NextSpec("seed")
    /\ UNCHANGED <<scenario, broker, cache, disk, floodVars>>

\* create_topic() deletes the topic, if it is there, and creates it.
CreateTopic ==
    /\ pc = "create"
    /\ LET s == Specs[spec] IN
          /\ total_parts' = total_parts + s.parts
          /\ partitions' = [partitions EXCEPT ![s.topic] = s.parts]
          /\ cache' = [cache EXCEPT ![s.topic] = {}]
          /\ disk' = [disk EXCEPT ![s.topic] = {}]
    /\ NextSpec("seed")
    /\ UNCHANGED <<scenario, broker, floodVars>>

\* flood() runs in the foreground, and exits with 0 also when it delivers
\* nothing.
Seed ==
    /\ pc = "seed"
    /\ \/ cache' = [cache EXCEPT ![Specs[spec].topic] = @ \cup {<<scenario, 0>>}]
       \/ UNCHANGED cache
    /\ NextSpec("launch")
    /\ UNCHANGED <<scenario, total_parts, broker, partitions, disk, floodVars>>

Launch ==
    /\ pc = "launch"
    /\ running' = TRUE
    /\ target' = Specs[1].topic
    /\ pending' = {scenario} \X (1 .. Flood)
    /\ pc' = "kill"
    /\ UNCHANGED <<scenario, spec, total_parts, brokerVars>>

\* docker kill: of what was not flushed, any part may be on disk.
Kill ==
    /\ pc = "kill"
    /\ broker' = "down"
    /\ \E written \in SUBSET {e \in Topics \X Messages : e[2] \in cache[e[1]]} :
          disk' = [t \in Topics |-> disk[t] \cup {m \in cache[t] : <<t, m>> \in written}]
    /\ cache' = Nothing
    /\ pc' = "start"
    /\ UNCHANGED <<scenario, spec, total_parts, partitions, floodVars>>

Start ==
    /\ pc = "start"
    /\ broker' = "recovering"
    /\ pc' = "health"
    /\ UNCHANGED <<scenario, spec, total_parts, partitions, cache, disk, floodVars>>

\* wait_healthy() sees a healthy broker.
Healthy ==
    /\ pc = "health"
    /\ broker = "up"
    /\ pc' = "join"
    /\ UNCHANGED <<scenario, spec, total_parts, brokerVars, floodVars>>

\* Mutation of Fail: wait_healthy() asks for ever.
FailEarlier ==
    /\ pc \in {"create", "seed", "kill", "start"}
    /\ pc' = "failed"
    /\ UNCHANGED <<scenario, spec, total_parts, brokerVars, floodVars>>

\* set -e: a command fails; or wait_healthy() has asked 90 times.  The script
\* exits, and the background producer is left to itself.
Fail ==
    /\ pc \in {"create", "seed", "kill", "start", "health"}
    /\ pc' = "failed"
    /\ UNCHANGED <<scenario, spec, total_parts, brokerVars, floodVars>>

NextScenario ==
    /\ IF scenario < Len(Scenarios)
       THEN pc' = "create" /\ scenario' = scenario + 1 /\ total_parts' = 0
       ELSE pc' = "ended" /\ UNCHANGED <<scenario, total_parts>>
    /\ UNCHANGED <<spec, brokerVars, floodVars>>

\* Mutation of Join: the scenario ends when the broker is back.
JoinAtOnce == pc = "join" /\ NextScenario

\* wait for the background producer, whatever became of it.
Join == pc = "join" /\ ~running /\ NextScenario

-----------------------------------------------------------------------------
(* The broker and the background producer.                                  *)

Recover ==
    /\ broker = "recovering"
    /\ broker' = "up"
    /\ UNCHANGED <<scriptVars, partitions, cache, disk, floodVars>>

\* A payment, or a retry of it, reaches the broker.
Send(m) ==
    /\ running /\ m \in pending
    /\ broker = "up" /\ m \notin cache[target] \cup disk[target]
    /\ cache' = [cache EXCEPT ![target] = @ \cup {m}]
    /\ UNCHANGED <<scriptVars, broker, partitions, disk, floodVars>>

FlushDisk ==
    /\ broker = "up"
    /\ cache # Nothing
    /\ disk' = [t \in Topics |-> disk[t] \cup cache[t]]
    /\ cache' = Nothing
    /\ UNCHANGED <<scriptVars, broker, partitions, floodVars>>

\* The callback runs: the payment was answered, at once or after the flush as
\* the broker's mode has it, or given up after message.timeout.ms, stored or not.
Settle(m) ==
    /\ running /\ m \in pending
    /\ pending' = pending \ {m}
    /\ UNCHANGED <<scriptVars, brokerVars, running, target>>

\* flush() returns; or the registry, which is in the broker, does not answer the
\* first serialisation, and the program dies.
Exit ==
    /\ running
    /\ pending = {} \/ (broker # "up" /\ pending = {scenario} \X (1 .. Flood))
    /\ running' = FALSE
    /\ UNCHANGED <<scriptVars, brokerVars, target, pending>>

Script ==
    \/ CreateTopic \/ Seed \/ Launch \/ Kill \/ Start
    \/ Healthy \/ Fail \/ Join

Client == Exit \/ \E m \in pending : Send(m) \/ Settle(m)

Next == Script \/ Client \/ Recover \/ FlushDisk

\* The shell and the client's threads run; the broker need not come back.
Fairness ==
    /\ WF_vars(Script)
    /\ WF_vars(Exit)
    /\ WF_vars(\E m \in pending : Settle(m))

Spec == Init /\ [][Next]_vars
FairSpec == Spec /\ Fairness

-----------------------------------------------------------------------------
(* Properties                                                               *)

\* No payment of an earlier scenario, or of an earlier run, is in or reaches a topic that was created anew: the
\* background producer has ended by then, although its broker was killed.
NoStrays ==
    pc \notin {"create", "failed"} => \A s \in 1 .. Len(Specs) :
        disk[Specs[s].topic] \cup cache[Specs[s].topic] \subseteq {scenario} \X (0 .. Flood)

\* The topics this run has created: those of the earlier scenarios, and of this
\* one those the first loop has come to.
Listed(n) == {Scenarios[n][s].topic : s \in DOMAIN Scenarios[n]}
Earlier == UNION {Listed(n) : n \in 1 .. scenario - 1}
Counted == {Specs[s].topic : s \in 1 .. IF pc = "create" THEN spec - 1 ELSE Len(Specs)}
Created == Earlier \cup Counted

PartitionsOf(S) == [t \in Topics |-> IF t \in S THEN partitions[t] ELSE 0]

\* The number of partitions printed is that of all topics this run has created,
\* those of the earlier scenarios with them.  The topics it leaves out, which
\* the broker has to recover as well, are as an earlier run left them.
CreatedAreCounted ==
    pc = "start" => /\ total_parts = FoldFunction(+, 0, PartitionsOf(Created))
                    /\ \E l \in Leftovers : \A t \in Topics \ Created : partitions[t] = l[t]

\* The script ends although neither the broker nor the producer needs to come back.
Ends == <>(pc \in {"ended", "failed"})

-----------------------------------------------------------------------------
(* The parts of the inductive invariant.                                    *)

TypeOK ==
    /\ pc \in {"create", "seed", "launch", "kill", "start", "health", "join",
               "ended", "failed"}
    /\ scenario \in 1 .. Len(Scenarios)
    /\ spec \in 1 .. Len(Specs)
    /\ total_parts \in Nat
    /\ broker \in {"up", "down", "recovering"}
    /\ partitions \in [Topics -> Nat]
    /\ cache \in [Topics -> SUBSET Messages]
    /\ disk \in [Topics -> SUBSET Messages]
    /\ running \in BOOLEAN
    /\ target \in Topics
    /\ pending \subseteq Messages

\* Each loop over the specs starts with the first; the background producer runs
\* from the launch to the end of the scenario, and sends nothing of another one.
ScriptInv ==
    /\ pc \in {"create", "seed", "failed"} \/ spec = 1
    /\ running => /\ pc \in {"kill", "start", "health", "join", "failed"}
                  /\ pending \subseteq {scenario} \X (0 .. Flood)

\* A topic that was created anew is empty until the seeding.
CreatedInv ==
    pc = "create" => \A s \in 1 .. spec - 1 :
        disk[Specs[s].topic] = {} /\ cache[Specs[s].topic] = {}

IInv == TypeOK /\ ScriptInv /\ CreatedInv /\ NoStrays

\* Inductive together with IInv: until the broker is started again the script
\* has counted what it created; the earlier topics are among those it lists; and
\* nothing happens to a topic before its turn.
TotalInv ==
    /\ pc \in {"create", "seed", "launch", "kill", "start"} =>
          total_parts = SumFunction(PartitionsOf(Counted))
    /\ Earlier \subseteq Listed(scenario)
    /\ \E l \in Leftovers : \A t \in Topics \ Created : partitions[t] = l[t]
=============================================================================
