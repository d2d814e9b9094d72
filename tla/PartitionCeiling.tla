--------------------------- MODULE PartitionCeiling -------------------------
(***************************************************************************)
(* simulations/sim_partition_ceiling.py (S3): one round.  Threads with a   *)
(* consumer each join one group, the main thread floods the topic, sets    *)
(* stop_event, waits for each thread with a timeout and prints what        *)
(* assignment_log and counters hold by then.  Topic and group are new; a   *)
(* round is shorter than session.timeout.ms, so the coordinator gives no   *)
(* live member up.                                                          *)
(***************************************************************************)
EXTENDS GroupCoordinator, Functions

CONSTANT MaxRecords   \* bound: records of the flood that reach the log

ASSUME CeilingAssumption ==
    /\ IsFiniteSet(Consumers) /\ IsFiniteSet(Partitions)
    /\ MaxRecords \in Nat

VARIABLES thread,          \* what each consumer thread is doing
          counters,        \* messages each thread counted
          assignment_log   \* what on_assign was given last; {} when there is no entry

threadVars == <<thread, counters, assignment_log>>

VARIABLES pc,              \* the step run_round() is at
          stop_event,
          logEnd,          \* records in each partition
          printed          \* the Active line, once it is printed

mainVars == <<pc, stop_event, logEnd, printed>>

VARIABLE counted           \* the records that were counted

vars == <<localVars, groupVars, committed, threadVars, mainVars, counted>>

NotPrinted == -1

Records == UNION {{p} \X (0 .. logEnd[p] - 1) : p \in Partitions}

TypeOK ==
    /\ GroupTypeOK
    /\ thread \in [Consumers -> {"new", "check", "poll", "closing", "closed"}]
    /\ counters \in [Consumers -> Nat]
    /\ assignment_log \in [Consumers -> SUBSET Partitions]
    /\ pc \in {"launch", "flood", "join", "printed"}
    /\ stop_event \in BOOLEAN
    /\ logEnd \in [Partitions -> Nat]
    /\ printed \in Nat \cup {NotPrinted}
    /\ counted \subseteq Records

Init ==
    /\ GroupInit
    /\ thread = [c \in Consumers |-> "new"]
    /\ counters = [c \in Consumers |-> 0]
    /\ assignment_log = [c \in Consumers |-> {}]
    /\ pc = "launch"
    /\ stop_event = FALSE
    /\ logEnd = [p \in Partitions |-> 0]
    /\ printed = NotPrinted
    /\ counted = {}

Running(c) == thread[c] \in {"check", "poll", "closing"}

-----------------------------------------------------------------------------
(* run_consumer()                                                           *)

\* The head of the loop.
CheckStop(c) ==
    /\ thread[c] = "check"
    /\ thread' = [thread EXCEPT ![c] = IF stop_event THEN "closing" ELSE "poll"]
    /\ UNCHANGED <<localVars, groupVars, committed, counters, assignment_log,
                   mainVars, counted>>

\* poll() returns a message, and it is counted.  No other thread uses the
\* counter, so the two are one step.
Consume(c) ==
    /\ thread[c] = "poll"
    /\ \E p \in owned[c] :
          /\ pos[c][p] < logEnd[p]
          /\ Advance(c, p)
          /\ counted' = counted \cup {<<p, pos[c][p]>>}
    /\ counters' = [counters EXCEPT ![c] = @ + 1]
    /\ thread' = [thread EXCEPT ![c] = "check"]
    /\ UNCHANGED <<owned, groupVars, committed, assignment_log, mainVars>>

\* poll() returns nothing, or an error.
PollEmpty(c) ==
    /\ thread[c] = "poll"
    /\ thread' = [thread EXCEPT ![c] = "check"]
    /\ UNCHANGED <<localVars, groupVars, committed, counters, assignment_log,
                   mainVars, counted>>

\* Mutation of Close: the group is left without a commit.
CloseUncommitted(c) ==
    /\ thread[c] = "closing"
    /\ thread' = [thread EXCEPT ![c] = "closed"]
    /\ owned' = [owned EXCEPT ![c] = {}]
    /\ IF c \in members THEN Remove(c) ELSE UNCHANGED groupVars
    /\ UNCHANGED <<pos, stored, committed, counters, assignment_log, mainVars,
                   counted>>

Close(c) ==
    /\ thread[c] = "closing"
    /\ thread' = [thread EXCEPT ![c] = "closed"]
    /\ LeaveGroup(c)
    /\ UNCHANGED <<counters, assignment_log, mainVars, counted>>

-----------------------------------------------------------------------------
(* The library inside poll().                                               *)

Join(c) ==
    /\ thread[c] = "poll"
    /\ JoinGroup(c)
    /\ UNCHANGED <<threadVars, mainVars, counted>>

\* The callback is told of an empty assignment too; of a revocation, never.
OnAssign(c, partitions) ==
    assignment_log' = [assignment_log EXCEPT ![c] = partitions]

Sync(c) ==
    /\ thread[c] = "poll"
    /\ SyncGroup(c)
    /\ OnAssign(c, owned'[c])
    /\ UNCHANGED <<thread, counters, mainVars, counted>>

\* auto.commit.interval.ms passed.
AutoCommit(c) ==
    /\ Running(c)
    /\ CommitStored(c)
    /\ UNCHANGED <<localVars, groupVars, threadVars, mainVars, counted>>

-----------------------------------------------------------------------------
(* The group coordinator.                                                   *)

Rebalance == NextGeneration /\ UNCHANGED <<threadVars, mainVars, counted>>

-----------------------------------------------------------------------------
(* run_round() and summarise_round()                                        *)

Launch(c) ==
    /\ pc = "launch"
    /\ thread[c] = "new"
    /\ thread' = [thread EXCEPT ![c] = "check"]
    /\ pc' = IF \A d \in Consumers \ {c} : thread[d] # "new" THEN "flood" ELSE pc
    /\ UNCHANGED <<localVars, groupVars, committed, counters, assignment_log,
                   stop_event, logEnd, printed, counted>>

\* flood_topic(): a record of the flood reaches a partition.
FloodRecord(p) ==
    /\ pc = "flood"
    /\ SumFunction(logEnd) < MaxRecords
    /\ logEnd' = [logEnd EXCEPT ![p] = @ + 1]
    /\ UNCHANGED <<localVars, groupVars, committed, threadVars, pc, stop_event,
                   printed, counted>>

\* flush() has settled the rest, observe_secs have passed.
Stop ==
    /\ pc = "flood"
    /\ stop_event' = TRUE
    /\ pc' = "join"
    /\ UNCHANGED <<localVars, groupVars, committed, threadVars, logEnd, printed,
                   counted>>

\* Every join() returned, with its thread closed or with the timeout; the
\* threads that are left go on while the summary is printed.
Summarise ==
    /\ pc = "join"
    /\ printed' = Cardinality({c \in Consumers : assignment_log[c] # {}})
    /\ pc' = "printed"
    /\ UNCHANGED <<localVars, groupVars, committed, threadVars, stop_event, logEnd,
                   counted>>

-----------------------------------------------------------------------------

Next ==
    \/ \E c \in Consumers :
          \/ CheckStop(c) \/ Consume(c) \/ PollEmpty(c) \/ Close(c)
          \/ Join(c) \/ Sync(c) \/ AutoCommit(c)
          \/ Launch(c)
    \/ \E p \in Partitions : FloodRecord(p)
    \/ Rebalance \/ Stop \/ Summarise

Spec == Init /\ [][Next]_vars

-----------------------------------------------------------------------------
(* Properties                                                               *)

Active == {c \in members : owned[c] # {}}

Least(m, n) == IF m <= n THEN m ELSE n

\* The members that the summary would count as active.
Shown == {c \in members : assignment_log[c] # {}}

\* The partition count is the ceiling: never do more members read than there
\* are partitions, and once the group has settled exactly that many do, and the
\* log shows the same ones, idle members included.  (Those that have closed stay
\* in the log, so the number printed can still exceed the partitions.)
Ceiling ==
    /\ Cardinality(Active) <= Cardinality(Partitions)
    /\ stable /\ synced = members =>
          /\ Cardinality(Active) = Least(Cardinality(members), Cardinality(Partitions))
          /\ Shown = Active

\* The counters count each record once, though joins, departures and commits
\* come in any order and the last offsets are committed by close() alone.
CountedOnce == SumFunction(counters) = Cardinality(counted)

\* When all threads have closed, the group's offsets are behind exactly what
\* was counted: the next consumer neither repeats nor skips a record.
CleanHandover ==
    (\A c \in Consumers : thread[c] = "closed") =>
        counted = UNION {{p} \X (0 .. StartOffset(p) - 1) : p \in Partitions}

\* The threads read like one reader: whoever joins, leaves or commits between
\* two records, none is counted out of order or again, and no offset moves back.
Contract == INSTANCE ReadingContract
                WITH read <- counted,
                     total <- SumFunction(counters),
                     cursor <- [p \in Partitions |-> StartOffset(p)]

ReadsInOrder == Contract!Spec

-----------------------------------------------------------------------------
(* The parts of the inductive invariant.                                    *)

Load(c) == {p \in Partitions : target[p] = c}

\* Who owns partitions picked them up in this generation, has not joined the
\* next one, and is in the log with them; while the group is stable nobody has
\* come or gone since the partitions were spread.
OwnInv ==
    /\ joined \subseteq members /\ synced \subseteq members
    /\ stable => joined = {} /\ members # {} /\ Balanced(target, members)
    /\ \A c \in Consumers :
          IF c \in synced \ joined
          THEN owned[c] = Load(c) /\ assignment_log[c] = Load(c)
          ELSE owned[c] = {}
    /\ \A c \in Consumers : thread[c] \in {"new", "closed"} => c \notin members

\* A partition's owner has committed, or will, what it has counted.
CursorInv ==
    \A c \in Consumers : \A p \in owned[c] :
        \/ stored[c][p] = NoOffset /\ pos[c][p] = StartOffset(p)
        \/ stored[c][p] = pos[c][p]

\* The records of p that were counted are those below n.
CountedTo(p, n) ==
    /\ n <= logEnd[p]
    /\ \A o \in 0 .. logEnd[p] - 1 : <<p, o>> \in counted <=> o < n

\* A partition is counted up to the position of its owner, or, while it has
\* none, up to the committed offset.
CountInv ==
    \A p \in Partitions :
        /\ \A c \in Consumers : p \in owned[c] => CountedTo(p, pos[c][p])
        /\ (\A c \in Consumers : p \notin owned[c]) => CountedTo(p, StartOffset(p))

IInv == TypeOK /\ OwnInv /\ CursorInv /\ CountInv

\* Inductive together with IInv.
SumInv == IsFiniteSet(counted) /\ CountedOnce
=============================================================================
