# Formal models of shipstream

shipstream is a small event-streaming project: programs that publish orders and
payments to a Redpanda cluster, consumers that read them in a group, a launcher
script, and ten simulations that each show one property of the broker or
its clients. The programs are short. What is hard about them is what happens
between their lines: client threads that send, retry and time out, delivery
callbacks that run inside `poll()` and `flush()`, group rebalances, offsets that
are committed behind the program's back, brokers that are killed or paused, and
signals that arrive between two shell commands. That is what these modules
model.

Contents: 1 the system, 2 the modules, 3 how the models abstract, 4 the runs,
5 fairness, 6 the proofs, 7 what the code does differently from its text,
8 what is not modelled, 9 the plan.

## 1. The system: inventory

| component (source) | state | operations | talks to |
|---|---|---|---|
| order producer (`services/producer.py`) | loop index; the client's queue | produce, poll(0) every 10 messages, flush, delivery_report | registry, broker |
| payment producer (`simulations/payment_producer.py`) | the same and a `delivered` counter | the same, poll(0) every 20 messages | registry, broker; used by S2, S3, S5 |
| order consumer (`services/consumer.py`) | message in hand; the library's assignment, positions and stored offsets | poll, deserialise and print, Ctrl+C, close | group coordinator, registry |
| consumer launcher (`run_consumers.sh`) | PIDS, TAIL_PID, child processes | launch and record, tail, wait, trap | consumers, tail, the terminal |
| S1 backward compatibility (`sim_backward_compat.py`, `consumer_v2.py`) | results, eof_partitions; read counter | drain until every partition is at its end; read ten messages | two groups, one after the other |
| S2 auto-create (`sim_auto_create_footgun.py`) | cluster setting, topics, delivered, errors | set the option, produce to a mistyped topic, clean up | broker |
| S3 partition ceiling (`sim_partition_ceiling.py`) | threads, counters, assignment_log, stop_event | launch, flood, stop, join, summarise | one group |
| S4 log dirs (`sim_log_dirs.sh`) | none | lists directories | broker container |
| S5 crash recovery (`sim_crash_recovery.sh`) | scenario results | flood, docker kill and start, wait for health | broker, payment producer |
| S6 segment roll (`sim_segment_roll.py`) | log start offset, watermark | produce into large and tiny segments, wait, compare | broker |
| S7 retention bytes (`sim_retention_bytes.py`) | watermarks of three partitions | produce, wait, produce again, compare | broker |
| S8 log start offset (`sim_log_start_offset.py`) | the offsets of three groups | consume and commit, wait, resume with three policies | broker, groups |
| S12 acks comparison (`sim_acks_comparison.py`) | results dict shared by two threads | produce until stopped, kill the leader, compare counts | three brokers |
| S13 idempotence (`sim_idempotence.py`) | confirmed, errors; a pauser thread | produce, pause the leader, compare counts | leader |

What makes them correct, in one line each:

* producers: every accepted message is reported exactly once, what is counted as
  delivered is in the log, a full queue that ends the program leaves exactly its
  contents unreported, and the program ends whatever the broker does;
* consumers: one owner per partition, committed offsets never cover a message
  nobody took and never move back, loss and repetition only through faults;
* launcher: no child outlives the script, and every recorded child is stopped;
* S1: a drain that ends is complete, the next run skips at most the message a
  failed one had in hand, and the loops end whenever there is enough to read;
* S2: a round's counts account for every payment, and a quiet second round is
  explained by the topic that was already there;
* S3: no more active consumers than partitions, and exact counts through every
  handover;
* S5: no scenario, and no earlier run, leaves messages to the next; the number of
  partitions printed is that of the topics the run has created; the script ends;
* S6, S7: a partition loses only what it alone brought over its limit, and
  nothing moves the watermarks of partitions nobody wrote to;
* S8: a committed offset stands for messages that were read or deleted, and each
  policy skips no more than it says;
* S12: a confirmation under acks=all survives the leader, and a gap that is
  reported is a real loss;
* S13: a duplicate that is reported is real, and idempotence rules it out.

The hazards behind these statements are listed in `PROJECT.json` with the line
where each one bites.

## 2. The modules

```
LibrdkafkaProducer                   client queue, requests, answers, timeouts
  +- OrderProducer                   the two producer programs
  |    +- PublishContract            INSTANCE: what publishing promises
  |    +- OrderProducerProofs
  +- AcksRound                       S12: two threads, leader, followers, election
  |    +- AcksRoundProofs
  +- IdempotenceRound                S13: main thread, pauser, deduplication
       +- IdempotenceRoundProofs
GroupCoordinator                     members, generations, assignments, offsets
  +- ConsumerGroup                   services/consumer.py, several processes
  |    +- GroupContract              INSTANCE: what a group promises
  |    +- ConsumerGroupProofs
  +- PartitionCeiling                S3: consumer threads, main thread, summary
       +- ReadingContract            INSTANCE: the group reads like one reader
       +- PartitionCeilingProofs     and, as an instance, CrashRecovery
PartitionLog                         one partition cut into segments, retention
  +- LogStartOffset                  S8: three groups against retention
  |    +- LogStartOffsetProofs       and, as an instance, RetentionRounds
  +- RetentionRounds                 S6 and S7: producing, cleaning, checking
BackwardCompat                       S1: drain() and the ten-message loop
  +- SimulationProofs                and, as an instance, AutoCreate
AutoCreate                           S2: two rounds, one mistyped topic
CrashRecovery                        S5: scenarios, broker, background producer
RunConsumers                         run_consumers.sh
  +- RunConsumersProofs
MC<module>                           instances for TLC
```

How state and actions correspond to the code:

* **LibrdkafkaProducer**. `stage[m]` follows a message from `produce()` through
  queue, request and delivery report to the callback. It leaves the queue (what
  `flush()` waits for and `queue.buffering.max.messages` limits) only when its
  callback has run. `Transmit`, `RequestTimeout`, `MessageTimeout` and
  `AckArrives` are the client's threads; requests and answers can be lost, and an
  answer can come after the retry was sent or the message was given up.
* **OrderProducer**. One action per step of `main()`: `Produce`, `Poll`,
  `EndLoop`, `FlushServe`, `FlushReturn`, the exceptions nothing catches
  (`RegistryError`, `BufferError`) and Ctrl+C. `PollEvery` is the only
  difference between the two programs. `copies` is the broker's log: a retry may
  write a message again.
* **GroupCoordinator**. The eager group protocol as the consumers rely on it:
  `JoinGroup` (commit, give up, join), `NextGeneration` (all have joined),
  `SyncGroup` (assignment and committed offsets arrive), `LeaveGroup` (`close()`),
  `Remove`, and `CommitStored`, which the broker accepts only from members of the
  current generation.
* **ConsumerGroup**. Each process polls (`PollMessage` stores the offset before
  the loop body sees the message), handles or rejects (`Handle`), is interrupted,
  killed, or closes; `AutoCommit` may happen at any point. `ExpireStalled` is a
  live process the coordinator gave up, which goes on with its old partitions.
* **RunConsumers**. `pc` is the command the shell is at. Starting a consumer and
  recording its pid are two steps; a signal sends the shell to `cleanup` between
  any two commands or out of `wait`. SIGTERM ends a child; SIGINT does not reach
  it, because a non-interactive shell starts background children with SIGINT
  ignored.
* **AcksRound**. `main` and `thread` are the two threads and `reported` is
  `results['confirmed']`. The cluster is a leader, its followers' logs and an
  election that asks a majority whether the candidate's log is complete.
* **IdempotenceRound**. The main thread, the pauser (`Pause`, `Resume`), the
  leader, which serves requests that waited out the pause, and `Known`, the
  (producer id, sequence) check.
* **PartitionLog**. Operators on one log: the first offsets of its segments and
  its end. A batch goes into one segment as a whole (`Appended`); `Trimmed` is the
  log without its oldest segment, which is never the active one.
* **LogStartOffset**. `Retention` trims at any moment. `consume_and_commit` and
  `try_consume_with_reset` are the phases `consume`/`commit` and `resume`, run by
  the groups one after the other; `fetchEnd` is the fetch buffer, from which
  messages can still be read after their segment was deleted.
* **RetentionRounds**. One behaviour uses one of the three topics of the two
  scripts (`Topics` holds their settings and how they are produced to). `Produce`
  and `Settle` are the loop and the client, `Clean(p)` the broker's cleaner,
  which decides for each partition by itself, `Check` the watermarks that are
  printed after the sleep. S7 goes round twice over the same logs.
* **BackwardCompat**. `turn` is the consumer whose loop runs. `Assign` and `Fetch`
  are what the library does inside `poll()`; a fetch that reaches the end queues
  one EOF behind the messages (`mark`), which `PollEof` adds to `eof_partitions`.
  `Stop` is an exception or Ctrl+C, `Close` the commit and leaving. `from` and
  `goal` remember where a group began and what the topic then held.
* **AutoCreate**. `pc` runs through config, produce, config, produce, cleanup and
  restore. A payment is refused by `produce()`, or queued and settled; `Metadata`
  is the request by which a client creates a topic.
* **CrashRecovery**. `pc` is the command of the script, `spec` its place in a loop
  over the specs of a scenario. The broker keeps a page cache and a disk, of which
  `Kill` takes the cache, or any part of it; it begins with what an earlier run
  may have left (`Leftovers`), because the script deletes a topic only when it is
  about to create it. The background producer has pending messages that are sent
  and settled: answered, before or after the flush, or given up.
* **PartitionCeiling**. `thread` is where each consumer thread is (`check` is the
  loop head that reads `stop_event`), `assignment_log` and `counters` are the
  dictionaries of the program, and `Summarise` counts what `assignment_log` holds
  when the joins have returned, in time or by their timeout.
* **ReadingContract**. One reader with one cursor per partition: `Read` takes the
  next record of a partition, `Commit` moves cursors forward, never past what was
  read. S3 has no failing members, so its group promises this, which is more
  than the `GroupContract` of a group whose members may be killed.

Operators named "Mutation of ..." are plausible mistakes in the definition they
precede. They are not part of any specification; each shows that one property
notices one mistake (`PROJECT.json`, `mutants`).

## 3. How the models abstract

* Messages are numbers or offsets. Payloads, schemas, keys and printed text are
  left out, except for the printed verdicts that a property is about.
* Time is left out. A timeout may fire whenever its guard holds, retention may
  delete whenever a segment is closed. Where the code relies on one duration
  being longer than another, the model states it: in `AcksRound.Join` the
  `join(timeout=10)` outlasts `flush(timeout=5)`; in `AcksRound.Verdict` the
  watermark has settled after `sleep(2)`, or cannot be read; in
  `IdempotenceRound.JoinPauser` the join outlasts the pauser's sleeps; in
  `PartitionCeiling` a round is shorter than the session timeout.
* Printing an order and rejecting an undecodable one are the single action
  `Handle`: the loop treats both alike and both offsets are committed.
* In S3 a message is polled and counted in one step: no other thread uses the
  counter in between.
* In S1 partitions are assigned, and lost positions reset, only inside `poll()`,
  where the client runs the rebalance; the coordinator may have dropped the
  member long before.
* In S2, S6 and S7 a failed `rpk` command shows only in what it did not do. In S6
  and S7 creating the topic succeeds and takes effect at once, and a message is
  not written twice by a retry: the properties are about what is deleted.
* In S5 what `flood` seeds in a topic is one message, which is stored or not.
  Whether an acks=all answer waits for the flush is decided by the mode of the
  broker (`docker-compose.yml:18` has `--mode dev-container`) and by nothing in
  this repository's code: `Settle` may come before or after it, and no property
  speaks of acknowledged payments. A payment is appended only while it is
  unsettled: a request that the broker would serve when its producer has already
  ended is left out, and so is a background producer that an earlier, failed run
  left behind and that still runs. `rpk topic create` of a topic that could not be
  deleted fails, which ends the script (`pipefail`, `set -e`: `Fail`). The model
  takes the container the script names, `redpanda`, to exist (section 7).
* A restarted consumer program is another member of `Consumers`.
* In S12 messages are appended in the order they are produced, so a log is the
  set of its messages; `retries` is 0 as in the code.
* The broker and librdkafka are external. Their actions are modelled from the
  settings the code passes and the calls it makes, and are marked external in
  the map.

## 4. The runs

| run | instance | what it shows |
|---|---|---|
| `producer` | 3 messages, queue of 2, poll every 2, 2 attempts | DeliveredIsDurable, ReportedOnce, ExitSettled, AbandonsFullQueue, Terminates, PublishContract |
| `group` | 2 consumers, 2 partitions with 2 and 1 messages, 2 faults | SingleOwner, LossOnlyByStops, RepeatsNeedFailures, AllSettled, GroupContract |
| `script` | 3 consumers, 2 signals | ExitLeavesNobody, RecordedAreStopped, EndsWithConsumers |
| `acks` | 2 messages, 3 brokers, both settings | ConfirmedSurvive, GapIsLoss |
| `idempotence` | 2 messages, 2 attempts, both settings | DuplicatesAreReal, ConfirmedExactlyOnce |
| `logstart` | 5 messages, segments of 2, groups that read 2 and resume with 2 | CommittedWasRead, OnlyRetentionSkips, NoRereadAfterCommit, ErrorContinues |
| `ceiling` | 3 threads, 2 partitions, 2 records | Ceiling, CountedOnce, CleanHandover, ReadsInOrder (ReadingContract) |
| `drain` | 2 partitions that hold up to MCCapacity messages, 2 to read, 1 expiry | DrainComplete, SkipsOnlyInHand, Ends |
| `retention` | 2 partitions, 6 and 4 messages, segments of 2 or 6, cap of 3 | LossNeedsOverflow, OnlyKeyedMoves, RetentionFires |
| `autocreate` | 3 payments a round | AllAccounted, QuietMeansExisted |
| `recovery` | the script's three scenarios, 2 payments in the background, 5 kinds of leftovers | NoStrays, CreatedAreCounted, Ends |
| `ctrl_c` | 3 consumers, 1 signal | a violation: CtrlCStopsAll (section 7) |

`producer`, `group` and `acks` check their module's TypeOK, too.

Why the bounds are enough:

* `producer`: with three messages, a queue of two and polls after messages 0 and
  2 the queue fills between polls, one message can be reported while another is
  still on the wire, and with two attempts the answer to the first can come after
  the second was sent or the message failed. A BufferError comes here only before
  anything was reported; that AbandonsFullQueue holds behind reports and polls, too,
  is AbandonedProved, for every size of batch and queue.
* `group`: two messages in one partition let it change hands half way, and let a
  commit try to move back; two faults allow a stall followed by a kill, or two
  kills, which stops everybody.
* `script`: three consumers put a signal before, between and behind pids; two
  signals re-enter `cleanup` in the middle of its loop.
* `acks`: with two messages and three brokers the leader can die with one
  replicated and one not, and an unconfirmed message can survive in place of a
  confirmed one. A larger majority behaves no differently: `AcksRoundProofs`
  covers every number of brokers and messages.
* `idempotence`: one duplicate and one loss cancel out with two messages.
* `logstart`: five messages make up to three segments of two and a longer batch;
  two can be deleted, the committed offset lies on a segment's edge or inside
  one, and retention can overtake a group while it reads, between commit and
  resumption, and between two fetches.
* `ceiling`: more threads than partitions, so that somebody is idle and a
  partition can be handed to a thread that never had one. The run uses the
  symmetry of threads and of partitions; it checks safety only, for which that
  is sound.
* `drain`: a partition may be empty, at its end, or grow behind a reported end;
  groups start at any offset; one expired session is enough to make a consumer
  start over with ends that it has already noted.
* `retention`: six messages are up to three small segments or one batch larger
  than cap and segment together; with two partitions the cap is exceeded in
  one, in both, or only in sum.
* `autocreate`: with three payments one can be refused, one time out and one be
  delivered in a round. The rounds have no state that grows with the number.
* `recovery`: the topics and partition counts are those of the script; with two
  payments one is settled and one in memory, lost, or retried at the kill. The
  broker is new, or an earlier run ended in scenario 1, 2 or 3, or another one
  after that failed between its first delete and create.

`CHECK_DEADLOCK FALSE` is set where the program is meant to end.

## 5. Fairness

Only what the code's scheduling gives is assumed; liveness is checked under
`FairSpec`.

* The program's own threads take their next step (`WF` of the main loop and
  of the shell). Loops without a timeout end only if their condition comes true,
  so nothing is assumed about that.
* The client's threads run: `Terminates` needs that queued and sent messages time
  out, since `flush()` in the producers has no timeout. Nothing is assumed of the
  network or the broker; they may lose everything.
* In `ConsumerGroup` the coordinator completes rebalances and expires members
  that are gone. Live members may be expired up to `MaxFaults` times, which the
  model never requires.
* A child that was sent SIGTERM ends. `tail -f` never ends by itself, and that
  consumers crash is possible but not assumed.
* In `BackwardCompat` the loops poll for ever and the broker answers (`WF` of
  `Program`): they have no time limit, so nothing ends without a broker. Appends,
  commits, expiries and exceptions are not required.
* In `RetentionRounds` the producer settles what it produces and the cleaner runs
  on each partition again and again; `RetentionFires` is about the second round
  of S6 only, because in S7 one batch may hold everything.
* In `CrashRecovery` the shell runs, the background producer's messages time out
  (`Settle`) and the program then returns. The broker need not come back: the
  health loop has 90 attempts (`Fail`).

No liveness is stated of S2, S3, S8, S12 and S13: each of their waits has a time
limit of its own, and the models would only repeat it.

## 6. The proofs

Every safety property and refinement that a passing run checks is proved by
TLAPS for all values of the constants that the module's named assumptions allow:
`ClientAssumption`, `LoopAssumption`, `GroupAssumption`, `ClusterAssumption`,
`ScriptAssumption`, `RoundAssumption`, `CeilingAssumption`, `TopicAssumption`,
`CountAssumption`, `ScenarioAssumption` and `CoverAssumption`. They say that sets
are finite and numbers are natural, and where the code fixes more, what it
fixes: each scenario of S5 lists a topic once and those of the scenario before
(`sim_crash_recovery.sh:174-197`), and the large segments of S6 hold all that is
produced. TLC evaluates them on every run.

| module | theorems |
|---|---|
| `OrderProducerProofs` | TypeCorrect, DeliveredHonest, ReportedExactlyOnce, ReturnIsSettled, SmallBatchNeverFull, AbandonedProved, RetriesRunOut, Refinement (of PublishContract) |
| `ConsumerGroupProofs` | TypeCorrect, OneOwner, LossBounded, NothingRepeated, GroupGoesOn, Refinement (of GroupContract) |
| `AcksRoundProofs` | TypeCorrect, AcksAllSurvives, GapIsReal |
| `IdempotenceRoundProofs` | DuplicatesProved, ConfirmedProved |
| `LogStartOffsetProofs` | CommitProved, SkipsProved, RereadProved, ErrorProved, NothingComesBackProved; of RetentionRounds OverflowProved, KeyedProved, RetentionCanFire |
| `PartitionCeilingProofs` | CeilingProved, HandoverProved, CountedProved, NeverTwice, SettledHasRead, Refinement (of ReadingContract); of CrashRecovery StraysProved, TotalProved, NothingTakenProved |
| `SimulationProofs` | of BackwardCompat DrainProved, InHandProved, NeverStuckProved; of AutoCreate AccountedProved, QuietProved |
| `RunConsumersProofs` | TypeCorrect, NobodyLeft, KillLoopComplete |

A theorem about an instance carries the assumptions of the instance as its
hypotheses. Each theorem rests on an inductive invariant `IInv`, defined in the
module it is about as a conjunction of named parts; TLC found each part to hold
before it was proved. Why they are what they are:

* **OrderProducer**: the counters cannot be related to the log step by step,
  because a message is appended, answered, settled and counted at four different
  times. `WireInv` says that only accepted messages are on the wire and only
  appended ones are answered, `ResultInv` that a success was appended, `TallyInv`
  that the counters are the numbers of served messages, `LoopInv` which messages
  have been handed over. The refinement maps a message to idle, pending,
  delivered or failed; a poll that serves several messages is one `Report`.
  `FullInv`, for AbandonedProved, adds that the queue never holds more than its
  limit: only `Produce` adds to it, and all else takes from it.
* **ConsumerGroup**: `OwnInv` says that only members of the current generation
  own partitions, and only those that generation assigned to them, so two owners
  would share a target; `CursorInv` that an owner is never behind its committed
  offset, which is what keeps a commit, although it overwrites, from moving back;
  `AccountedInv` that nobody moved past a message that is not accounted for;
  `DroppedInv` counts stops against dropped messages. `CalmInv` is about
  histories without a kill or a stall: whoever owns partitions is still in the
  coordinator's generation, what was taken of a partition is behind its owner's
  position, or without an owner behind the committed offset; so nothing can be
  handled twice. `FullInv`, for GroupGoesOn, is the other direction of `OwnInv`: a
  live member that has picked its assignment up owns all of it.
* **AcksRound**: without retries a message is in one place (`OnceInv`), so an
  answer that arrives was given for the append that is in the log. `AnsweredInv`
  is the heart: under acks=all an answered message is held by a majority and by
  the leader. The election asks a majority, two majorities intersect (lemma), so
  the winner has the message; a follower only drops what the leader does not
  have, so the majority stays.
* **IdempotenceRound**: as long as no message is appended twice the watermark is
  the number of messages written, and under idempotence none is (`LogInv`). What
  was confirmed was written (`AnsweredInv`) and counted once (`TallyInv`), so the
  watermark can exceed the confirmed only by a copy or by an unconfirmed message,
  and the verdict is judged by both.
* **LogStartOffset**: an offset is behind a group (`Passed`) when it was read,
  resumed, or lies before the log's start, and the start only moves forward; so
  once behind, always behind. Everything between a group's begin and its
  position is, and a commit takes the position. The fetch buffer may be ahead of
  retention: what it holds is read, although it is deleted.
* **RetentionRounds**: a segment but the first begins behind a full one and before
  the end (`SegmentInv`), so a log that lost its first segment held more than
  one; with a cap, what was trimmed exceeded it, and the end never falls.
  `RoundInv` keeps the second round to the keyed partition, so elsewhere the end
  is the one the first check printed (`MarkInv`).
* **PartitionCeiling**: a partition is counted up to its owner's position, or,
  without an owner, up to the committed offset (`CountInv`); every handover goes
  through a commit (`CursorInv`). The ceiling is an injection of active members
  into partitions, its equality the evenness of the assignment. `SumInv` adds
  that the counters sum up to the records counted: each step of a thread counts
  one record that nobody had counted. The refinement of ReadingContract needs
  `BehindInv`, that no owner is behind the committed offset, so that a commit only
  moves forward; a record is counted where its partition is counted up to, so in
  order.
* **CrashRecovery**: the background producer runs within its scenario
  (`ScriptInv`), and topics created anew stay empty until the seeding
  (`CreatedInv`), whatever they held before. `TotalInv` relates the printed number
  to the topics the scenario has created so far, and says that the topics of the
  earlier scenarios are among those it lists and that all others are as they were
  left; it needs `CoverAssumption`, without which a topic of an earlier scenario
  would be left out or one of this scenario be counted twice.
* **BackwardCompat**: below a position nothing is missing from the results but
  what the program stopped on (`SkipInv`), an end that was reached is at or behind
  the goal (`GoalInv`), and a partition whose end was noted was read to the goal
  (`EofInv`). A rebalance starts over from the committed offset, which takes
  nothing out of the results: that is why ends may stay noted.
* **AutoCreate**: a round's payments are with the loop, with the client or counted
  (`CountInv`), and within a round the topic stays (`TopicInv`).
* **RunConsumers**: `RecordInv` says that PIDS is complete when the script waits
  for it, `KillInv` that everything recorded and behind the loop's position was
  signalled.

Induction. The library's induction theorems take the formula to be proved as a
parameter, which the provers cannot instantiate. Where a proof needs induction it
argues with a least counterexample (`WFMin` for the natural numbers, which is
about sets): a smallest set of partitions that cannot be spread evenly over the
members would be one that can and a partition more (`BalancedExists`), the oldest
and the newest segment of a log exist (`LeastExists`, `ActiveIsGreatest`), and `SumFunction` of the community modules satisfies its own
recursion and grows with each entry (`SummingExists`, `SumIncrease`).

Safety halves of liveness. Under fairness liveness is outside the prover, but
what carries most of those properties can be stated without it: a loop
always has a step to take, or each step brings it nearer its end. The prover
cannot reason about ENABLED, so these theorems spell the guards out:

* RetriesRunOut (for Terminates): `Rank` counts the steps a message is away from its
  callback, two for each attempt it has left; whatever is lost, late or retried,
  a message that moves gets a smaller rank. `flush()` waits for ranks to reach zero.
* GroupGoesOn (for AllSettled): while a message is unsettled and a process lives,
  somebody can start, read, handle, join, be assigned, close or be expired, or all
  members have joined and `Rebalance` is due. Its guard asks for an even assignment;
  that one exists for any members is BalancedExists.
* NeverStuckProved (for Ends of S1): a loop that has not ended has an assignment, a
  message or an end to be told of, unless the reader of a fixed number has read
  all there is. `OrderInv` orders group offset, position, fetch and log end;
  `WaitingInv` says that an end that was told is noted.
* RetentionCanFire (for RetentionFires): `SmallSegments` bounds the active segment, so
  a log that keeps more than one small segment's messages has a closed one.
* KillLoopComplete is the safety part of RecordedAreStopped.

Action properties. NeverTwice, Closer, NothingComesBack (S8: no step takes back a
deletion, an append, a commit, or what a group has behind it) and NothingTaken
(S5: while the background producer runs nothing leaves the disk) are proved for every step. No run checks them: what they rest on are
the invariants above, which the runs do check.

Only model-checked: the liveness properties themselves (Terminates, AllSettled,
RecordedAreStopped, EndsWithConsumers, Ends of S1 and S5, RetentionFires). There
is no safety half of Ends of S5: each of its loops counts to a number that is written
in the script.

## 7. Where the code and its text differ

One is a run, `ctrl_c`, that TLC finds violated: "Press Ctrl+C to stop all." says
`run_consumers.sh:25`, but `cleanup` waits for `tail -f`, which it does not kill,
and for a consumer whose pid was not recorded yet.

The others are not runs. Most of these behaviours are in the models, where a
counterexample is a few steps long:

* `compatibility-field-deletion.md:337` says that with auto-commit messages are
  never skipped. `poll()` stores the offset before the message is handled, and a
  commit between the two loses it if the process is stopped (LossOnlyByStops
  bounds how many; SkipsOnlyInHand does for S1).
* `sim_acks_comparison.py:202`: "Gap: 0 - no data loss" compares two counts; an
  unconfirmed message that survived hides a confirmed one that did not. GapIsLoss
  therefore speaks of positive gaps only.
* `sim_idempotence.py:183-184`: the text about deduplication is printed in the
  round without idempotence too, whenever the counts happen to agree.
* `sim_partition_ceiling.py:162-165`: the summary counts entries of
  `assignment_log`, which revocations do not remove, and can print more active
  consumers than there are partitions.
* `compatibility-field-deletion.md:186` ("Both read every message") holds for
  what was there when each drain began: what is appended between the two drains
  only the second reads, and a second run of the script, which resumes at the
  committed ends, confirms compatibility on what is new.
* `sim_auto_create_footgun.py:166`: "unknown topics fail immediately" is not what
  round 2 shows, since round 1 left the topic behind; and with a topic that does
  not exist payments may also fail only after 5 s in the queue.
* `sim_segment_roll.py:152-153`: at 1 KB a segment holds several messages of 180
  bytes, so they do not roll with every message. Line 134 reports "low watermark
  advanced to None" when the watermark could not be read.
* `sim_retention_bytes.py:155` and 183: the other partitions are not empty, they
  hold what round 1 left; 140 states that all low watermarks have advanced
  whatever was read, which is false of one that got a single batch.
* `phase3-guide.md:199` says that the log confirms that committed messages
  survived a recovery; `topic_counts` of `sim_crash_recovery.sh` is never called,
  and in the mode of `docker-compose.yml:18` a broker may confirm what it has not
  flushed, so that the kill takes it.
* `sim_crash_recovery.sh:131`: "Total partition directories broker must recover"
  counts the topics this run has created. The script deletes nothing at its end,
  so on a second run scenario A prints 3 while the broker also recovers the 18
  partitions of refunds, failures, chargebacks, disputes and audit.
  CreatedAreCounted says which partitions are counted and which are not.
* `sim_crash_recovery.sh` runs `docker exec redpanda`; `docker-compose.yml` names
  its containers `redpanda-1` to `redpanda-3`, and with those the script ends at
  its first `rpk topic create`.
* `sim_log_start_offset.py:66` sets no linger or batch size: if the messages leave as one
  batch they fill one segment, which is active and never deleted, and the deletion
  of which the text speaks (147, 221) did not happen.

And some one look at the code settles: "Done - N orders published." of
`producer.py:75` states the number attempted; in `sim_log_start_offset.py:147`
"Offsets 0-n were silently skipped" includes those the group read and committed
before; `sim_auto_create_footgun.py:176` prints "Restored" whether or not `rpk`
succeeded.

## 8. What is not modelled

* S4 has no state of its own. Generated protobuf code, schemas, the compose file
  and the console configuration are data.
* The consumer lag S2 prints for a group that never existed, the times S5 measures,
  the log files S1 writes: text without a property.
* Contents of messages, the registry beyond being reachable or not, container
  handling beyond stop, pause and start, the parsing of `rpk` output beyond
  "could not be read".
* In S3 stalls of live members (they are in `ConsumerGroup`); in S13 the
  replication of the log (it is in `AcksRound`); in S12 a join that times out.

## 9. The plan

Modelled first was what other parts rest on: publishing and its client, then the
group, then the launcher, then the simulations with real concurrency (S12, S13,
S3), S8, and then S1, S6 and S7, S2 and S5. Every program with behaviour of its
own has a module; the safety properties of all runs, the three refinements, and
the safety halves of most liveness properties are proved. What could be added:

1. An abstract specification of a log under retention that both `LogStartOffset` and
   `RetentionRounds` implement, so that the theorems about segments are shared.
2. Stalls of live members in S3, at the price of a run with a fourth kind of
   fault; `GroupContract` would then take the place of `ReadingContract`.
