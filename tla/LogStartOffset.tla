--------------------------- MODULE LogStartOffset ---------------------------
(***************************************************************************)
(* simulations/sim_log_start_offset.py (S8): messages are produced, three  *)
(* groups consume and commit the first of them, retention deletes segments *)
(* at any time, and each group is resumed with its own auto.offset.reset   *)
(* policy.  A group is named after the policy it is resumed with; all of   *)
(* them begin with `earliest'.  Every consumer has a time limit.           *)
(***************************************************************************)
EXTENDS PartitionLog, FiniteSets

CONSTANTS SegmentSize, \* messages after which a segment is full
          Total,       \* messages produced
          Want,        \* messages a group consumes before it commits
          ResumeCount  \* messages a resumed group reads

ASSUME RoundAssumption ==
    /\ SegmentSize \in Nat \ {0}
    /\ Total \in Nat
    /\ Want \in Nat \ {0}
    /\ ResumeCount \in Nat \ {0}

Groups == {"earliest", "latest", "error"}
NoOffset == -1

VARIABLES log,         \* the partition
          pc,          \* the step main() is at
          g,           \* the group whose consumer runs
          produced,    \* messages handed to the client and settled
          committed    \* the groups' offsets, kept by the broker

VARIABLES pos,         \* the next offset the consumer hands out
          fetchEnd,    \* what it has fetched ends here
          taken        \* messages the loop has counted

consumerVars == <<pos, fetchEnd, taken>>

VARIABLES read,        \* offsets each group got in consume_and_commit()
          resumed,     \* offsets each group got in try_consume_with_reset()
          outcome      \* what is printed about its resumption

seenVars == <<read, resumed, outcome>>

vars == <<log, pc, g, produced, committed, consumerVars, seenVars>>

TypeOK ==
    /\ IsLog(log)
    /\ pc \in {"produce", "consume", "commit", "wait", "resume", "ended", "died"}
    /\ g \in Groups
    /\ produced \in 0 .. Total
    /\ committed \in [Groups -> Nat \cup {NoOffset}]
    /\ pos \in Nat \cup {NoOffset}
    /\ fetchEnd \in Nat \cup {NoOffset}
    /\ taken \in Nat
    /\ taken <= IF pc \in {"consume", "commit", "died"} THEN Want ELSE ResumeCount
    /\ read \in [Groups -> SUBSET Nat]
    /\ resumed \in [Groups -> SUBSET Nat]
    /\ outcome \in [Groups -> {"none", "resumed", "empty", "error"}]

Init ==
    /\ log = EmptyLog
    /\ pc = "produce"
    /\ g = "earliest"
    /\ produced = 0
    /\ committed = [h \in Groups |-> NoOffset]
    /\ pos = NoOffset /\ fetchEnd = NoOffset /\ taken = 0
    /\ read = [h \in Groups |-> {}]
    /\ resumed = [h \in Groups |-> {}]
    /\ outcome = [h \in Groups |-> "none"]

-----------------------------------------------------------------------------
(* produce_messages()                                                       *)

\* The client sends what has gathered as one batch, or gives it up.
ProduceBatch ==
    /\ pc = "produce"
    /\ \E n \in 1 .. Total - produced :
          /\ produced' = produced + n
          /\ log' = Appended(log, n, SegmentSize) \/ UNCHANGED log
    /\ UNCHANGED <<pc, g, committed, consumerVars, seenVars>>

ProduceDone ==
    /\ pc = "produce"
    /\ produced = Total
    /\ pc' = "consume"
    /\ UNCHANGED <<log, g, produced, committed, consumerVars, seenVars>>

-----------------------------------------------------------------------------
(* The consumer library.                                                    *)

\* Mutation of Policy: every consumer of the script resets to the start.
PolicyEarliest == IF g = "latest" THEN "latest" ELSE "earliest"

\* The auto.offset.reset of the consumer that runs.
Policy == IF pc = "consume" THEN "earliest" ELSE g

\* Mutation of ResetTo: earliest starts behind the first message.
ResetToNext(policy) == IF policy = "latest" THEN log.end ELSE LogStart(log) + 1

\* auto.offset.reset
ResetTo(policy) == IF policy = "latest" THEN log.end ELSE LogStart(log)

\* There is no offset to read at: none is committed, or what is next was
\* deleted and is not in the fetch buffer.
OutOfRange ==
    \/ pos = NoOffset /\ committed[g] = NoOffset
    \/ pos # NoOffset /\ pos = fetchEnd /\ pos < LogStart(log)

\* The group's consumer is closed; the next group has its turn.
NextGroup(after) ==
    /\ pos' = NoOffset /\ fetchEnd' = NoOffset /\ taken' = 0
    /\ IF g = "error"
       THEN pc' = after /\ g' = "earliest"
       ELSE /\ pc' = IF pc = "commit" THEN "consume" ELSE pc
            /\ g' = IF g = "earliest" THEN "latest" ELSE "error"

\* The group has a committed offset: it is used whether or not it still exists.
Assign ==
    /\ pc \in {"consume", "resume"}
    /\ pos = NoOffset
    /\ committed[g] # NoOffset
    /\ pos' = committed[g] /\ fetchEnd' = committed[g]
    /\ UNCHANGED <<log, pc, g, produced, committed, taken, seenVars>>

Reset ==
    /\ pc \in {"consume", "resume"}
    /\ OutOfRange
    /\ Policy # "error"
    /\ pos' = ResetTo(Policy) /\ fetchEnd' = ResetTo(Policy)
    /\ UNCHANGED <<log, pc, g, produced, committed, taken, seenVars>>

\* Fetched messages stay readable when retention deletes their segment.
Fetch ==
    /\ pc \in {"consume", "resume"}
    /\ pos # NoOffset
    /\ fetchEnd >= LogStart(log)
    /\ fetchEnd < log.end
    /\ fetchEnd' \in fetchEnd + 1 .. log.end
    /\ UNCHANGED <<log, pc, g, produced, committed, pos, taken, seenVars>>

-----------------------------------------------------------------------------
(* consume_and_commit()                                                     *)

\* A message is counted; the commit comes only when all are together.
ConsumeRead ==
    /\ pc = "consume"
    /\ pos < fetchEnd
    /\ read' = [read EXCEPT ![g] = @ \cup {pos}]
    /\ pos' = pos + 1
    /\ taken' = taken + 1
    /\ pc' = IF taken' = Want THEN "commit" ELSE pc
    /\ UNCHANGED <<log, g, produced, committed, fetchEnd, resumed, outcome>>

\* Mutation of CommitOffset: the offset of the last message, not the one behind.
CommitLast == pos - 1

\* Mutation of CommitOffset: how far the library has fetched.
CommitFetched == fetchEnd

\* commit() without arguments commits the offset behind the last message.
CommitOffset == pos

Commit ==
    /\ pc = "commit"
    /\ committed' = [committed EXCEPT ![g] = CommitOffset]
    /\ NextGroup("wait")
    /\ UNCHANGED <<log, produced, seenVars>>

\* A failed commit raises, and nothing catches it.
CommitFails ==
    /\ pc = "commit"
    /\ pc' = "died"
    /\ UNCHANGED <<log, g, produced, committed, consumerVars, seenVars>>

\* 15 seconds have passed: the group is left without a commit.
ConsumeTimeout ==
    /\ pc = "consume"
    /\ NextGroup("wait")
    /\ UNCHANGED <<log, produced, committed, seenVars>>

-----------------------------------------------------------------------------
(* The wait for retention, and try_consume_with_reset().                    *)

Wait ==
    /\ pc = "wait"
    /\ pc' = "resume"
    /\ UNCHANGED <<log, g, produced, committed, consumerVars, seenVars>>

\* The consumer is closed and its result printed.
Finish(result) ==
    /\ pc = "resume"
    /\ outcome' = [outcome EXCEPT ![g] = result]
    /\ NextGroup("ended")

ResumeRead ==
    /\ pc = "resume"
    /\ pos < fetchEnd
    /\ resumed' = [resumed EXCEPT ![g] = @ \cup {pos}]
    /\ IF taken + 1 >= ResumeCount
       THEN Finish("resumed")
       ELSE /\ pos' = pos + 1
            /\ taken' = taken + 1
            /\ UNCHANGED <<pc, g, fetchEnd, outcome>>
    /\ UNCHANGED <<log, produced, committed, read>>

\* poll() had nothing to give after some results, or 8 seconds have passed.
ResumeTimeout ==
    /\ Finish(IF taken > 0 THEN "resumed" ELSE "empty")
    /\ UNCHANGED <<log, produced, committed, read, resumed>>

\* The policy `error' reports that the offset is gone; any other error of
\* poll() ends the loop too.
ResumeError ==
    /\ Finish("error")
    /\ UNCHANGED <<log, produced, committed, read, resumed>>

Main ==
    \/ ProduceBatch \/ ProduceDone
    \/ Assign \/ Reset \/ Fetch
    \/ ConsumeRead \/ Commit \/ CommitFails \/ ConsumeTimeout
    \/ Wait \/ ResumeRead \/ ResumeTimeout \/ ResumeError

\* A closed segment may be deleted at any moment: time is left out.
Retention ==
    /\ HasClosed(log)
    /\ log' = Trimmed(log)
    /\ UNCHANGED <<pc, g, produced, committed, consumerVars, seenVars>>

Next == Main \/ Retention

Spec == Init /\ [][Next]_vars

-----------------------------------------------------------------------------
(* Properties                                                               *)

\* Offset o is behind the groups for a reason: it was read, or it is deleted.
Passed(h, o) == o \in read[h] \cup resumed[h] \/ o < LogStart(log)

\* A group commits only after Want messages, and everything below its offset
\* was read or deleted, though retention runs while it reads.
CommittedWasRead ==
    \A h \in Groups : committed[h] # NoOffset =>
        /\ Cardinality(read[h]) = Want
        /\ committed[h] - 1 \in read[h]
        /\ \A o \in 0 .. committed[h] - 1 : Passed(h, o)

\* Groups that do not resume with `latest' lose nothing that is still there.
OnlyRetentionSkips ==
    \A h \in Groups \ {"latest"} : \A last \in resumed[h] :
        \A o \in 0 .. last : Passed(h, o)

\* A committed group never reads a message again, whatever its policy.
NoRereadAfterCommit ==
    \A h \in Groups : committed[h] # NoOffset => read[h] \cap resumed[h] = {}

\* With `error' a group either goes on exactly where it committed or halts: a
\* deletion is never passed over in silence.
ErrorContinues ==
    resumed["error"] # {} =>
        /\ committed["error"] # NoOffset
        /\ resumed["error"] =
               committed["error"] .. committed["error"] + Cardinality(resumed["error"]) - 1

-----------------------------------------------------------------------------
(* The parts of the inductive invariant.                                    *)

\* The groups whose turn comes after h.
After(h) == CASE h = "earliest" -> {"latest", "error"}
              [] h = "latest"   -> {"error"}
              [] h = "error"    -> {}

LogInv == \A b \in log.segments : b <= log.end

\* The consumer hands out what it has fetched, and fetches what is there.
PosInv ==
    /\ pos = NoOffset <=> fetchEnd = NoOffset
    /\ pos # NoOffset => pos <= fetchEnd /\ fetchEnd <= log.end
    /\ pc \in {"produce", "wait", "ended"} =>
          g = "earliest" /\ pos = NoOffset /\ taken = 0
    /\ pc = "commit" => pos # NoOffset

\* consume_and_commit(): one group after the other reads from the start on.
ReadInv ==
    pc \in {"produce", "consume", "commit"} =>
        /\ \A h \in After(g) : read[h] = {}
        /\ \A h \in After(g) \cup {g} : committed[h] = NoOffset
        /\ IsFiniteSet(read[g]) /\ Cardinality(read[g]) = taken
        /\ pc = "consume" => taken < Want
        /\ pos = NoOffset => read[g] = {}
        /\ pos # NoOffset => /\ read[g] \subseteq 0 .. pos - 1
                             /\ \A o \in 0 .. pos - 1 : Passed(g, o)
        /\ pc = "commit" => taken = Want /\ pos - 1 \in read[g]

\* What a committed offset stands for, as long as the groups last.
CommitInv ==
    \A h \in Groups : committed[h] # NoOffset =>
        /\ committed[h] <= log.end
        /\ read[h] \subseteq 0 .. committed[h] - 1

\* try_consume_with_reset(): a group resumes behind its committed offset, and
\* only `latest' leaves out what is still there.
ResumeInv ==
    /\ pc \in {"produce", "consume", "commit", "wait", "died"} =>
          \A h \in Groups : resumed[h] = {}
    /\ pc = "resume" =>
          /\ \A h \in After(g) : resumed[h] = {}
          /\ pos = NoOffset => resumed[g] = {}
          /\ pos # NoOffset =>
                /\ committed[g] # NoOffset => committed[g] <= pos
                /\ g # "latest" => \A o \in 0 .. pos - 1 : Passed(g, o)
                /\ g = "error" => /\ committed[g] # NoOffset
                                  /\ resumed[g] = committed[g] .. pos - 1
    /\ \A h \in Groups : committed[h] # NoOffset =>
          \A o \in resumed[h] : committed[h] <= o

IInv ==
    /\ TypeOK /\ LogInv /\ PosInv /\ ReadInv /\ CommitInv /\ ResumeInv
    /\ CommittedWasRead /\ OnlyRetentionSkips /\ ErrorContinues
=============================================================================
