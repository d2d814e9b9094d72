--------------------------- MODULE BackwardCompat ---------------------------
(***************************************************************************)
(* S1: simulations/sim_backward_compat.py, which drains a topic with two   *)
(* consumers one after the other, and simulations/consumer_v2.py, which    *)
(* reads a fixed number of messages.  A behaviour is a run of one of the   *)
(* two programs on groups that may have offsets from earlier runs, while   *)
(* the order producer may append.                                          *)
(*                                                                         *)
(* Every consumer is alone in its group and gets all partitions, but only  *)
(* inside poll(); the coordinator may expire it at any time, and then its  *)
(* commits are refused until a poll() has joined again.                    *)
(***************************************************************************)
EXTENDS Integers, FiniteSets

CONSTANTS Partitions,
          Capacity,     \* bound: messages each partition ever holds
          Want,         \* messages consumer_v2.py reads
          MaxExpiries   \* bound: expired sessions

ASSUME TopicAssumption ==
    /\ IsFiniteSet(Partitions) /\ Partitions # {}
    /\ Capacity \in [Partitions -> Nat]
    /\ Want \in Nat \ {0}
    /\ MaxExpiries \in Nat

Drainers == {"v1", "v2"}
Consumers == Drainers \cup {"ten"}
Final == {"ended", "died"}

VARIABLES turn,       \* the consumer whose loop runs, or how the program ended
          logEnd,     \* messages of each partition
          committed   \* each group's offsets; 0 where it has none (`earliest')

VARIABLES member,     \* the coordinator counts the consumer in
          assigned,   \* the partitions the library was given
          pos,        \* the next offset poll() hands out
          fetched,    \* what the library has fetched ends here
          mark        \* the end of the partition: "none", "queued" or "said"

libraryVars == <<member, assigned, pos, fetched, mark>>

VARIABLES left,             \* the loop was left, close() comes next
          eof_partitions,
          results,          \* messages in each consumer's results
          taken,            \* how many entries they have
          drained           \* the drains that have returned

loopVars == <<left, eof_partitions, results, taken, drained>>

VARIABLES from, goal,  \* history: where each group began, the ends it then saw
          expiries     \* counted against MaxExpiries

historyVars == <<from, goal, expiries>>

vars == <<turn, logEnd, committed, libraryVars, loopVars, historyVars>>

Offsets == {f \in [Partitions -> UNION {0 .. Capacity[p] : p \in Partitions}] :
               \A p \in Partitions : f[p] <= Capacity[p]}

Init ==
    /\ turn \in {"v1", "ten"}
    /\ logEnd \in Offsets
    /\ committed \in [Consumers -> Offsets]
    /\ \A c \in Consumers, p \in Partitions :
          committed[c][p] <= IF (c = "ten") = (turn = "ten") THEN logEnd[p] ELSE 0
    /\ member = FALSE
    /\ assigned = {}
    /\ pos = [p \in Partitions |-> 0]
    /\ fetched = pos
    /\ mark = [p \in Partitions |-> "none"]
    /\ left = FALSE
    /\ eof_partitions = {}
    /\ results = [c \in Consumers |-> {}]
    /\ taken = [c \in Consumers |-> 0]
    /\ drained = {}
    /\ from = committed
    /\ goal = [c \in Consumers |-> logEnd]
    /\ expiries = 0

-----------------------------------------------------------------------------
(* The consumer library and the coordinator.                                *)

\* poll() joins the group and is given every partition at its group's offset.
Assign ==
    /\ turn \in Consumers /\ ~left
    /\ ~member
    /\ member' = TRUE
    /\ assigned' = Partitions
    /\ pos' = committed[turn] /\ fetched' = committed[turn]
    /\ mark' = [p \in Partitions |-> "none"]
    /\ UNCHANGED <<turn, logEnd, committed, loopVars, historyVars>>

\* A fetch reaches the end of p.  The end is queued behind the messages, once
\* for each time it is reached, where enable.partition.eof is set.
Fetch(p) ==
    /\ turn \in Consumers
    /\ p \in assigned
    /\ mark[p] = "none" \/ (mark[p] = "said" /\ fetched[p] < logEnd[p])
    /\ fetched' = [fetched EXCEPT ![p] = logEnd[p]]
    /\ mark' = [mark EXCEPT ![p] = IF turn \in Drainers THEN "queued" ELSE "said"]
    /\ UNCHANGED <<turn, logEnd, committed, member, assigned, pos, loopVars, historyVars>>

\* Mutation of Commit: it ends where the library has fetched.
CommitFetched(positions) ==
    committed' = IF member THEN [committed EXCEPT ![turn] = fetched] ELSE committed

\* The stored offsets are committed, by a member.
Commit(positions) ==
    committed' = IF member THEN [committed EXCEPT ![turn] = positions] ELSE committed

\* enable.auto.commit is left at its default.
AutoCommit ==
    /\ turn \in Consumers
    /\ assigned # {}
    /\ Commit(pos)
    /\ UNCHANGED <<turn, logEnd, libraryVars, loopVars, historyVars>>

\* The coordinator gives the consumer up: a late heartbeat, or a loop body
\* that takes longer than max.poll.interval.ms.
Expire ==
    /\ member
    /\ expiries < MaxExpiries
    /\ member' = FALSE
    /\ expiries' = expiries + 1
    /\ UNCHANGED <<turn, logEnd, committed, assigned, pos, fetched, mark, loopVars, from, goal>>

\* The order producer.
Publish(p) ==
    /\ logEnd[p] < Capacity[p]
    /\ logEnd' = [logEnd EXCEPT ![p] = @ + 1]
    /\ UNCHANGED <<turn, committed, libraryVars, loopVars, historyVars>>

-----------------------------------------------------------------------------
(* The loops.                                                               *)

Looping == turn \in Consumers /\ ~left

\* poll() returned a message, and the loop body appends or counts it.
PollMessage(p) ==
    /\ Looping
    /\ p \in assigned /\ pos[p] < fetched[p]
    /\ pos' = [pos EXCEPT ![p] = @ + 1]
    /\ results' = [results EXCEPT ![turn] = @ \cup {<<p, pos[p]>>}]
    /\ taken' = [taken EXCEPT ![turn] = @ + 1]
    /\ left' = (turn = "ten" /\ taken[turn] + 1 = Want)
    /\ UNCHANGED <<turn, logEnd, committed, member, assigned, fetched, mark,
                   eof_partitions, drained, historyVars>>

\* Mutation of AllEnded: one partition is enough.
AnyEnded(eofs) == assigned \cap eofs # {}

\* eof_partitions >= the assigned partitions
AllEnded(eofs) == assigned # {} /\ assigned \subseteq eofs

\* Mutation of PollEof: the loop goes on, and only a message lets it look again.
PollEofQuiet(p) ==
    /\ Looping
    /\ p \in assigned /\ pos[p] = fetched[p] /\ mark[p] = "queued"
    /\ mark' = [mark EXCEPT ![p] = "said"]
    /\ left' = AllEnded(eof_partitions)
    /\ drained' = IF left' THEN drained \cup {turn} ELSE drained
    /\ eof_partitions' = eof_partitions \cup {p}
    /\ UNCHANGED <<turn, logEnd, committed, member, assigned, pos, fetched,
                   results, taken, historyVars>>

\* poll() returned _PARTITION_EOF: the set only grows.
PollEof(p) ==
    /\ Looping
    /\ p \in assigned /\ pos[p] = fetched[p] /\ mark[p] = "queued"
    /\ mark' = [mark EXCEPT ![p] = "said"]
    /\ eof_partitions' = eof_partitions \cup {p}
    /\ left' = AllEnded(eof_partitions')
    /\ drained' = IF left' THEN drained \cup {turn} ELSE drained
    /\ UNCHANGED <<turn, logEnd, committed, member, assigned, pos, fetched,
                   results, taken, historyVars>>

\* The deserialiser raises, or Ctrl+C comes: a message may be in hand.  drain()
\* lets it through, and nothing closes the consumers; the ten-message loop
\* closes in any case.
Stop(p) ==
    /\ Looping
    /\ \/ p \in assigned /\ pos[p] < fetched[p] /\ pos' = [pos EXCEPT ![p] = @ + 1]
       \/ UNCHANGED pos
    /\ IF turn = "ten"
       THEN left' = TRUE /\ UNCHANGED <<turn, committed>>
       ELSE /\ turn' = "died" /\ UNCHANGED left
            /\ Commit(pos') \/ UNCHANGED committed
    /\ UNCHANGED <<logEnd, member, assigned, fetched, mark, eof_partitions,
                   results, taken, drained, historyVars>>

\* close() commits and leaves the group; the next consumer is drained.
Close ==
    /\ turn \in Consumers
    /\ left
    /\ Commit(pos)
    /\ turn' = IF turn = "v1" THEN "v2" ELSE "ended"
    /\ member' = FALSE
    /\ assigned' = {}
    /\ left' = FALSE
    /\ eof_partitions' = {}
    /\ goal' = IF turn = "v1" THEN [goal EXCEPT !["v2"] = logEnd] ELSE goal
    /\ UNCHANGED <<logEnd, pos, fetched, mark, results, taken, drained, from, expiries>>

Program == Assign \/ Close \/ \E p \in Partitions : Fetch(p) \/ PollMessage(p) \/ PollEof(p)

Next ==
    \/ Program
    \/ AutoCommit \/ Expire
    \/ \E p \in Partitions : Publish(p) \/ Stop(p)

\* The loops poll for ever, and the broker answers them.
Fairness == WF_vars(Program)

Spec == Init /\ [][Next]_vars
FairSpec == Spec /\ Fairness

-----------------------------------------------------------------------------
(* Properties                                                               *)

\* A drain that ends has all that was in the topic when it began, behind its
\* group's offset: ends that were reported before a rebalance, and are never
\* taken back, do not make it stop short.
DrainComplete ==
    \A c \in drained, p \in Partitions :
        \A o \in from[c][p] .. goal[c][p] - 1 : <<p, o>> \in results[c]

\* What a group's offset covers is in its consumer's results, but for the one
\* message the program stopped on: that one is skipped by the next run.
SkipsOnlyInHand ==
    \A c \in Consumers :
        LET covered == UNION {{p} \X (from[c][p] .. committed[c][p] - 1) : p \in Partitions}
            skipped == covered \ results[c]
        IN /\ Cardinality(skipped) <= 1
           /\ skipped # {} => turn \in Final \/ left

\* The programs end although their loops have no time limit; only the reader of
\* a fixed number waits for ever, when the topic does not hold so many.
Starved == turn = "ten" /\ taken["ten"] < Want /\ pos = logEnd
Ends == <>[](turn \in Final \/ Starved)

-----------------------------------------------------------------------------
(* The parts of the inductive invariant.                                    *)

TypeOK ==
    /\ turn \in Consumers \cup Final
    /\ member \in BOOLEAN /\ left \in BOOLEAN
    /\ logEnd \in [Partitions -> Nat] /\ pos \in [Partitions -> Nat]
    /\ fetched \in [Partitions -> Nat]
    /\ mark \in [Partitions -> {"none", "queued", "said"}]
    /\ committed \in [Consumers -> [Partitions -> Nat]]
    /\ from \in [Consumers -> [Partitions -> Nat]]
    /\ goal \in [Consumers -> [Partitions -> Nat]]
    /\ taken \in [Consumers -> Nat] /\ expiries \in Nat
    /\ results \in [Consumers -> SUBSET (Partitions \X Nat)]
    /\ eof_partitions \subseteq Partitions
    /\ assigned \in {{}, Partitions}
    /\ drained \subseteq Consumers

\* What lies between where c's group began and f, and is not in its results.
Missing(c, f) ==
    (UNION {{p} \X (from[c][p] .. f[p] - 1) : p \in Partitions}) \ results[c]

AtMostOne(S) == \E m : S \subseteq {m}

\* Nothing is missing below the position or the group's offset, but for the
\* message the program stopped on.
SkipInv ==
    /\ \A c \in Consumers :
          /\ AtMostOne(Missing(c, committed[c]))
          /\ Missing(c, committed[c]) # {} => turn \in Final \/ (turn = "ten" /\ left)
    /\ turn \in Consumers /\ assigned # {} =>
          /\ AtMostOne(Missing(turn, pos))
          /\ Missing(turn, pos) # {} => turn = "ten" /\ left

\* An end that was reached is at or behind the goal, whatever was appended since
\* and whoever was expired.
GoalInv ==
    /\ member => assigned # {}
    /\ \A c \in Consumers, p \in Partitions : goal[c][p] <= logEnd[p]
    /\ turn \in Consumers => \A p \in assigned :
          mark[p] # "none" => goal[turn][p] <= fetched[p]

ToGoal(c, p) == \A o \in from[c][p] .. goal[c][p] - 1 : <<p, o>> \in results[c]

\* A partition whose end was noted was read up to the goal.
EofInv ==
    /\ turn \in Consumers => \A p \in eof_partitions : ToGoal(turn, p)
    /\ turn = "v1" => drained \subseteq {"v1"}

IInv == TypeOK /\ SkipInv /\ GoalInv /\ EofInv /\ DrainComplete
=============================================================================
