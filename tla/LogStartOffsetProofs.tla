------------------------ MODULE LogStartOffsetProofs ------------------------
(***************************************************************************)
(* Proofs about LogStartOffset (S8) for every number of messages, size of  *)
(* a segment and number of messages read: whatever retention deletes       *)
(* between the steps of the groups, a committed offset covers only         *)
(* messages that were read or deleted, and auto.offset.reset does what its *)
(* name says.  And, as an instance with logs of the same kind, about       *)
(* RetentionRounds (S6, S7): retention judges each partition by itself.    *)
(***************************************************************************)
EXTENDS LogStartOffset, FiniteSetTheorems, WellFoundedInduction, TLAPS

CONSTANTS Partitions, Messages, Again, Tiny, Large, Cap

VARIABLES topic, keyed, round, unsent, queued, delivered, marks

Rounds == INSTANCE RetentionRounds

-----------------------------------------------------------------------------

(* Logs.                                                                    *)

LEMMA LeastExists ==
    ASSUME NEW S \in SUBSET Nat, S # {}
    PROVE  \E b \in S : \A c \in S : b <= c
<1>1. PICK b \in S : \A c \in S : <<c, b>> \notin OpToRel(<, Nat)
  BY NatLessThanWellFounded, WFMin
<1>2. \A c \in S : c \in Nat /\ b \in Nat /\ ~(c < b)
  BY <1>1 DEF OpToRel
<1> QED BY <1>2

\* The log start offset is the first offset of the oldest segment.
LEMMA LogStartIsLeast ==
    ASSUME NEW l, IsLog(l)
    PROVE  /\ LogStart(l) \in l.segments
           /\ LogStart(l) \in Nat
           /\ \A c \in l.segments : LogStart(l) <= c
<1>1. l.segments \in SUBSET Nat /\ l.segments # {}
  BY DEF IsLog
<1>2. \E b \in l.segments : \A c \in l.segments : b <= c
  BY <1>1, LeastExists
<1> QED BY <1>1, <1>2 DEF LogStart

\* A batch moves the end, and not the start.
LEMMA AppendedFacts ==
    ASSUME NEW l, IsLog(l), \A b \in l.segments : b <= l.end,
           NEW n \in Nat, NEW size \in Nat
    PROVE  LET a == Appended(l, n, size) IN
              /\ IsLog(a)
              /\ \A b \in a.segments : b <= a.end
              /\ LogStart(a) = LogStart(l)
              /\ a.end = l.end + n
<1> DEFINE a == Appended(l, n, size)
<1>1. /\ a.end = l.end + n
      /\ a.segments \in {l.segments, l.segments \cup {l.end}}
      /\ a = [segments |-> a.segments, end |-> a.end]
  BY DEF Appended
<1>2. IsLog(a) /\ \A b \in a.segments : b <= a.end
  BY <1>1 DEF IsLog
<1>3. LogStart(a) = LogStart(l)
  <2>1. LogStart(l) \in a.segments /\ LogStart(a) \in l.segments \cup {l.end}
    BY <1>1, <1>2, LogStartIsLeast
  <2>2. LogStart(a) <= LogStart(l) /\ LogStart(a) \in Nat
    BY <1>2, <2>1, LogStartIsLeast
  <2>3. LogStart(l) <= LogStart(a) /\ LogStart(l) \in Nat
    BY <2>1, LogStartIsLeast
  <2> QED BY <2>2, <2>3
<1> QED BY <1>1, <1>2, <1>3

\* Retention moves the start forward, and not the end; the newest segment stays.
LEMMA TrimmedFacts ==
    ASSUME NEW l, IsLog(l), \A b \in l.segments : b <= l.end, HasClosed(l)
    PROVE  LET t == Trimmed(l) IN
              /\ IsLog(t)
              /\ \A b \in t.segments : b <= t.end
              /\ LogStart(l) <= LogStart(t)
              /\ t.end = l.end
<1> DEFINE t == Trimmed(l)
<1>1. t.segments = l.segments \ {LogStart(l)} /\ t.end = l.end
  BY DEF Trimmed, IsLog
<1>2. t.segments # {}
  <2> SUFFICES ASSUME l.segments \subseteq {LogStart(l)} PROVE FALSE
    BY <1>1
  <2>1. l.segments = {LogStart(l)}
    BY LogStartIsLeast
  <2>2. Active(l) = LogStart(l)
    BY <2>1, LogStartIsLeast DEF Active
  <2> QED BY <2>2 DEF HasClosed
<1>3. IsLog(t)
  BY <1>1, <1>2 DEF IsLog, Trimmed
<1>4. LogStart(l) <= LogStart(t)
  BY <1>1, <1>3, LogStartIsLeast
<1> QED BY <1>1, <1>3, <1>4

-----------------------------------------------------------------------------
(* Offsets that are behind a group.                                         *)

\* Once an offset is behind a group it stays there.
LEMMA PassedStays ==
    ASSUME IsLog(log), IsLog(log'), LogStart(log) <= LogStart(log'),
           NEW h, read[h] \subseteq read'[h], resumed[h] \subseteq resumed'[h],
           NEW o \in Nat, Passed(h, o)
    PROVE  Passed(h, o)'
<1>1. LogStart(log) \in Nat /\ LogStart(log') \in Nat
  BY LogStartIsLeast
<1> QED BY <1>1 DEF Passed

\* A step that leaves the offsets alone and at most lets the log move forward
\* keeps what is said of them.
LEMMA OffsetsKept ==
    ASSUME CommitInv, CommittedWasRead, OnlyRetentionSkips, ErrorContinues, TypeOK,
           IsLog(log'), LogStart(log) <= LogStart(log'), log.end <= log'.end,
           UNCHANGED <<committed, read, resumed>>
    PROVE  CommitInv' /\ CommittedWasRead' /\ OnlyRetentionSkips' /\ ErrorContinues'
<1>1. IsLog(log) /\ log.end \in Nat /\ log'.end \in Nat
  BY DEF TypeOK, IsLog
<1>2. \A h \in Groups : \A o \in Nat : Passed(h, o) => Passed(h, o)'
  BY <1>1, PassedStays
<1>3. CommitInv'
  BY <1>1 DEF CommitInv, TypeOK, NoOffset
<1>4. CommittedWasRead'
  BY <1>2 DEF CommittedWasRead, TypeOK
<1>5. OnlyRetentionSkips'
  BY <1>2 DEF OnlyRetentionSkips, TypeOK
<1>6. ErrorContinues'
  BY DEF ErrorContinues
<1> QED BY <1>3, <1>4, <1>5, <1>6

LEMMA LogNow ==
    ASSUME TypeOK, LogInv
    PROVE  /\ IsLog(log) /\ log.end \in Nat
           /\ LogStart(log) \in Nat /\ LogStart(log) <= log.end
BY LogStartIsLeast DEF TypeOK, LogInv, IsLog

-----------------------------------------------------------------------------

LEMMA InitIInv == Init => IInv
<1> SUFFICES ASSUME Init PROVE IInv
  OBVIOUS
<1> USE DEF Init, NoOffset
<1>1. TypeOK
  BY RoundAssumption DEF TypeOK, IsLog, EmptyLog, Groups
<1>2. LogInv
  BY DEF LogInv, EmptyLog
<1>3. PosInv /\ CommitInv /\ CommittedWasRead /\ OnlyRetentionSkips /\ ErrorContinues
  BY DEF PosInv, CommitInv, CommittedWasRead, OnlyRetentionSkips, ErrorContinues, Groups
<1>4. ReadInv /\ ResumeInv
  BY FS_EmptySet DEF ReadInv, ResumeInv, After, Groups
<1> QED BY <1>1, <1>2, <1>3, <1>4 DEF IInv

\* A step of the partition alone preserves the invariant.
LEMMA LogStep ==
    ASSUME IInv, TypeOK', LogInv',
           LogStart(log) <= LogStart(log'), log.end <= log'.end,
           UNCHANGED <<pc, g, committed, consumerVars, seenVars>>
    PROVE  IInv'
<1> USE DEF IInv, consumerVars, seenVars
<1>1. IsLog(log) /\ IsLog(log') /\ log.end \in Nat /\ log'.end \in Nat
  BY DEF TypeOK, IsLog
<1>2. \A h \in Groups : \A o \in Nat : Passed(h, o) => Passed(h, o)'
  BY <1>1, PassedStays
<1>3. g \in Groups
  BY DEF TypeOK
<1>4. PosInv'
  BY <1>1 DEF PosInv, TypeOK, NoOffset
<1>5. \A o \in 0 .. pos - 1 : o \in Nat /\ (Passed(g, o) => Passed(g, o)')
  BY <1>2, <1>3 DEF TypeOK, NoOffset, Passed
<1>6. ReadInv'
  BY <1>5 DEF ReadInv
<1>7. ResumeInv'
  BY <1>5 DEF ResumeInv
<1> QED BY <1>1, <1>4, <1>6, <1>7, OffsetsKept

\* produce_messages() and retention preserve the invariant.
LEMMA PartitionIInv == IInv /\ (ProduceBatch \/ Retention) => IInv'
<1> SUFFICES ASSUME IInv, ProduceBatch \/ Retention PROVE IInv'
  OBVIOUS
<1>0. LogInv /\ TypeOK /\ IsLog(log) /\ log.end \in Nat /\ LogStart(log) \in Nat
  BY LogNow DEF IInv
<1>1. CASE ProduceBatch
  <2>1. PICK n \in 1 .. Total - produced :
           /\ produced' = produced + n
           /\ log' = Appended(log, n, SegmentSize) \/ UNCHANGED log
    BY <1>1 DEF ProduceBatch
  <2>2. n \in Nat /\ SegmentSize \in Nat /\ produced' \in 0 .. Total
    BY <1>0, <2>1, RoundAssumption DEF TypeOK
  <2>3. /\ IsLog(log') /\ \A b \in log'.segments : b <= log'.end
        /\ LogStart(log) <= LogStart(log') /\ log.end <= log'.end
    <3>1. CASE UNCHANGED log
      BY <1>0, <3>1 DEF LogInv
    <3>2. CASE log' = Appended(log, n, SegmentSize)
      <4>1. /\ IsLog(log') /\ \A b \in log'.segments : b <= log'.end
            /\ LogStart(log') = LogStart(log) /\ log'.end = log.end + n
        BY <1>0, <2>2, <3>2, AppendedFacts DEF LogInv
      <4> QED BY <1>0, <2>2, <4>1
    <3> QED BY <2>1, <3>1, <3>2
  <2>4. TypeOK' /\ LogInv'
    BY <1>0, <1>1, <2>2, <2>3
       DEF ProduceBatch, TypeOK, LogInv, consumerVars, seenVars
  <2> QED BY <1>1, <2>3, <2>4, LogStep DEF ProduceBatch
<1>2. CASE Retention
  <2>1. /\ IsLog(log') /\ \A b \in log'.segments : b <= log'.end
        /\ LogStart(log) <= LogStart(log') /\ log.end <= log'.end
    BY <1>0, <1>2, TrimmedFacts DEF Retention, LogInv
  <2>2. TypeOK' /\ LogInv'
    BY <1>0, <1>2, <2>1 DEF Retention, TypeOK, LogInv, consumerVars, seenVars
  <2> QED BY <1>2, <2>1, <2>2, LogStep DEF Retention
<1> QED BY <1>1, <1>2

-----------------------------------------------------------------------------
(* The consumer library.                                                    *)

LEMMA LibraryIInv == IInv /\ (ProduceDone \/ Wait \/ Assign \/ Reset \/ Fetch) => IInv'
<1> SUFFICES ASSUME IInv, ProduceDone \/ Wait \/ Assign \/ Reset \/ Fetch PROVE IInv'
  OBVIOUS
<1> USE DEF IInv, NoOffset, consumerVars, seenVars
<1>0. /\ IsLog(log) /\ log.end \in Nat /\ g \in Groups
      /\ LogStart(log) \in Nat /\ LogStart(log) <= log.end
  BY LogNow DEF TypeOK
<1>1. UNCHANGED <<log, committed, read, resumed, g, taken, outcome>>
  BY DEF ProduceDone, Wait, Assign, Reset, Fetch
<1>2. /\ LogInv' /\ CommitInv' /\ CommittedWasRead' /\ OnlyRetentionSkips'
      /\ ErrorContinues'
  BY <1>0, <1>1, OffsetsKept DEF LogInv
<1>3. \A h, o : Passed(h, o)' = Passed(h, o)
  BY <1>1 DEF Passed
<1>4. CASE ProduceDone \/ Wait
  <2> USE <1>4, <1>1 DEF ProduceDone, Wait
  <2>1. TypeOK'
    BY RoundAssumption DEF TypeOK, PosInv
  <2>2. PosInv' /\ ReadInv'
    BY RoundAssumption DEF PosInv, ReadInv, After
  <2>3. ResumeInv'
    BY <1>0 DEF ResumeInv, PosInv, After, Groups
  <2> QED BY <2>1, <2>2, <2>3, <1>2
<1>5. CASE Assign
  <2> USE <1>5, <1>1 DEF Assign
  \* Only a resumed group has a committed offset.
  <2>1. pc = "resume" /\ committed[g] \in Nat
    BY <1>0 DEF ReadInv, TypeOK
  <2>2. TypeOK' /\ PosInv'
    BY <1>0, <2>1 DEF TypeOK, PosInv, CommitInv
  <2>3. ReadInv'
    BY <2>1 DEF ReadInv
  <2>4. \A o \in 0 .. pos' - 1 : Passed(g, o)
    BY <1>0, <2>1 DEF CommittedWasRead
  <2>5. resumed[g] = {} /\ committed[g] .. pos' - 1 = {}
    BY <2>1 DEF ResumeInv
  <2>6. ResumeInv'
    BY <1>3, <2>1, <2>4, <2>5 DEF ResumeInv
  <2> QED BY <2>2, <2>3, <2>6, <1>2
<1>6. CASE Reset
  <2> USE <1>6, <1>1 DEF Reset
  <2>1. /\ pos' \in Nat /\ pos' <= log.end
        /\ pos' = LogStart(log) \/ (pc = "resume" /\ g = "latest" /\ pos' = log.end)
        /\ pc = "resume" => g # "error"
        /\ pos # NoOffset => pos <= pos'
    BY <1>0 DEF ResetTo, Policy, OutOfRange, Groups, TypeOK
  <2>2. TypeOK' /\ PosInv'
    BY <1>0, <2>1 DEF TypeOK, PosInv
  \* What is left out below the start of the log is deleted.
  <2>3. pc = "consume" \/ g # "latest" => \A o \in 0 .. pos' - 1 : Passed(g, o)
    BY <1>0, <2>1 DEF Passed
  <2>4. ReadInv'
    <3>1. pc = "consume" => read[g] \subseteq 0 .. pos' - 1
      BY <1>0, <2>1 DEF ReadInv, TypeOK
    <3> QED BY <1>3, <2>1, <2>3, <3>1 DEF ReadInv
  <2>5. ResumeInv'
    <3>1. pc = "resume" /\ committed[g] # NoOffset => committed[g] <= pos'
      BY <1>0, <2>1 DEF ResumeInv, OutOfRange, TypeOK
    <3> QED BY <1>3, <2>1, <2>3, <3>1 DEF ResumeInv
  <2> QED BY <2>2, <2>4, <2>5, <1>2
<1>7. CASE Fetch
  <2> USE <1>7, <1>1 DEF Fetch
  <2>1. TypeOK' /\ PosInv'
    BY <1>0 DEF TypeOK, PosInv
  <2>2. ReadInv' /\ ResumeInv'
    BY <1>3 DEF ReadInv, ResumeInv
  <2> QED BY <2>1, <2>2, <1>2
<1> QED BY <1>4, <1>5, <1>6, <1>7

\* After a group comes the next one, with a consumer of its own.
LEMMA NextGroupFacts ==
    ASSUME g \in Groups, NEW end, NextGroup(end)
    PROVE  /\ pos' = NoOffset /\ fetchEnd' = NoOffset /\ taken' = 0
           /\ \/ g = "error" /\ pc' = end /\ g' = "earliest"
              \/ /\ pc' = IF pc = "commit" THEN "consume" ELSE pc
                 /\ g' \in After(g) /\ g' # g
                 /\ After(g') \subseteq After(g) \ {g, g'}
                 /\ After(g) \subseteq Groups
BY DEF NextGroup, Groups, After

\* The next group begins with nothing read and nothing committed.
LEMMA NextReads ==
    ASSUME TypeOK, ReadInv, pc \in {"consume", "commit"}, NextGroup("wait"),
           UNCHANGED <<log, read, resumed>>,
           \A h \in Groups \ {g} : committed'[h] = committed[h]
    PROVE  ReadInv'
<1>0. g \in Groups
  BY DEF TypeOK
<1>1. CASE pc' = "wait"
  BY <1>1 DEF ReadInv
<1>2. CASE pc' # "wait"
  <2>1. /\ pc' = "consume" /\ pos' = NoOffset /\ taken' = 0
        /\ g' \in After(g) /\ g' # g /\ After(g) \subseteq Groups
        /\ After(g') \subseteq After(g) \ {g, g'}
    BY <1>0, <1>2, NextGroupFacts
  <2>2. read'[g'] = {} /\ committed'[g'] = NoOffset
    BY <2>1 DEF ReadInv
  <2>3. \A h \in After(g') : read'[h] = {} /\ committed'[h] = NoOffset
    BY <2>1 DEF ReadInv
  <2>4. IsFiniteSet(read'[g']) /\ Cardinality(read'[g']) = taken'
    BY <2>1, <2>2, FS_EmptySet
  <2> QED BY <2>1, <2>2, <2>3, <2>4, RoundAssumption DEF ReadInv
<1> QED BY <1>1, <1>2

-----------------------------------------------------------------------------
(* consume_and_commit().                                                    *)

LEMMA ConsumeIInv ==
    IInv /\ (ConsumeRead \/ Commit \/ CommitFails \/ ConsumeTimeout) => IInv'
<1> SUFFICES ASSUME IInv, ConsumeRead \/ Commit \/ CommitFails \/ ConsumeTimeout
             PROVE  IInv'
  OBVIOUS
<1> USE DEF IInv, NoOffset, consumerVars, seenVars
<1>0. /\ IsLog(log) /\ log.end \in Nat /\ g \in Groups
      /\ LogStart(log) \in Nat /\ LogStart(log) <= log.end
  BY LogNow DEF TypeOK
\* Nothing was resumed yet.
<1>1. /\ UNCHANGED <<log, resumed, outcome, produced>>
      /\ \A h \in Groups : resumed[h] = {} /\ resumed'[h] = {}
      /\ LogInv' /\ OnlyRetentionSkips' /\ ErrorContinues'
  BY DEF ConsumeRead, Commit, CommitFails, ConsumeTimeout, ResumeInv, LogInv,
         OnlyRetentionSkips, ErrorContinues, Groups
<1>2. CASE ConsumeRead
  <2> USE <1>2, <1>1 DEF ConsumeRead
  <2>1. pos \in Nat /\ pos < log.end /\ committed[g] = NoOffset
    BY <1>0 DEF PosInv, TypeOK, ReadInv
  <2>2. TypeOK' /\ PosInv'
    BY <1>0, <2>1, RoundAssumption DEF TypeOK, PosInv, ReadInv
  <2>3. \A h \in Groups : committed[h] # NoOffset => read'[h] = read[h]
    BY <2>1 DEF TypeOK
  <2>4. CommitInv' /\ CommittedWasRead'
    BY <2>3, <1>0 DEF CommitInv, CommittedWasRead, Passed, TypeOK
  <2>5. /\ read'[g] = read[g] \cup {pos} /\ pos \notin read[g]
        /\ read[g] \subseteq 0 .. pos - 1
        /\ \A h \in After(g) : read'[h] = {}
    BY <1>0, <2>1 DEF ReadInv, TypeOK, After, Groups
  <2>6. IsFiniteSet(read'[g]) /\ Cardinality(read'[g]) = taken'
    BY <2>5, FS_AddElement DEF ReadInv
  <2>7. \A o \in 0 .. pos : Passed(g, o)'
    BY <1>0, <2>1, <2>5 DEF ReadInv, Passed
  <2>8. ReadInv'
    <3>1. read'[g] \subseteq 0 .. pos /\ pos' - 1 = pos
      BY <2>1, <2>5
    <3>2. (\A h \in After(g) : read'[h] = {}) /\ \A h \in After(g) \cup {g} : committed[h] = NoOffset
      BY <2>5 DEF ReadInv
    <3>3. pc' = "consume" => taken' < Want
      BY RoundAssumption DEF ReadInv, TypeOK
    <3>4. pc' = "commit" => taken' = Want /\ pos' - 1 \in read'[g]
      BY <2>5, <3>1
    <3> QED BY <2>1, <2>6, <2>7, <3>1, <3>2, <3>3, <3>4 DEF ReadInv
  <2>9. ResumeInv'
    BY <2>1 DEF ResumeInv, TypeOK
  <2> QED BY <2>2, <2>4, <2>8, <2>9
<1>3. CASE Commit
  <2> USE <1>3, <1>1 DEF Commit, CommitOffset
  <2>0. pc = "commit" /\ pos \in Nat /\ UNCHANGED read
    BY DEF PosInv, TypeOK
  <2>1. committed' = [committed EXCEPT ![g] = pos] /\ committed'[g] = pos
    BY <1>0 DEF TypeOK
  <2>2. TypeOK' /\ PosInv'
    BY <1>0, <2>0, <2>1, RoundAssumption DEF NextGroup, TypeOK, PosInv, Groups
  <2>3. CommitInv'
    BY <1>0, <2>0, <2>1 DEF CommitInv, ReadInv, PosInv, TypeOK
  \* The group has read Want messages, the last one just below its offset.
  <2>4. CommittedWasRead'
    BY <1>0, <2>0, <2>1 DEF CommittedWasRead, ReadInv, Passed, TypeOK
  <2>5. ReadInv'
    BY <2>0, <2>1, NextReads DEF TypeOK
  <2>6. ResumeInv'
    BY <1>0, <2>0, NextGroupFacts DEF ResumeInv
  <2> QED BY <2>2, <2>3, <2>4, <2>5, <2>6
<1>4. CASE CommitFails
  <2> USE <1>4, <1>1 DEF CommitFails
  <2>1. TypeOK' /\ PosInv' /\ ReadInv' /\ ResumeInv'
    BY DEF TypeOK, PosInv, ReadInv, ResumeInv
  <2>2. CommitInv' /\ CommittedWasRead'
    BY DEF CommitInv, CommittedWasRead, Passed
  <2> QED BY <2>1, <2>2
<1>5. CASE ConsumeTimeout
  <2> USE <1>5, <1>1 DEF ConsumeTimeout
  <2>1. TypeOK' /\ PosInv'
    BY <1>0, RoundAssumption DEF NextGroup, TypeOK, PosInv, Groups
  <2>2. CommitInv' /\ CommittedWasRead'
    BY DEF CommitInv, CommittedWasRead, Passed
  <2>3. ReadInv'
    BY NextReads
  <2>4. ResumeInv'
    BY <1>0, NextGroupFacts DEF ResumeInv
  <2> QED BY <2>1, <2>2, <2>3, <2>4
<1> QED BY <1>2, <1>3, <1>4, <1>5

-----------------------------------------------------------------------------
(* try_consume_with_reset().                                                *)

LEMMA ResumeIInv == IInv /\ (ResumeRead \/ ResumeTimeout \/ ResumeError) => IInv'
<1> SUFFICES ASSUME IInv, ResumeRead \/ ResumeTimeout \/ ResumeError PROVE IInv'
  OBVIOUS
<1> USE DEF IInv, NoOffset, consumerVars, seenVars
<1>0. /\ IsLog(log) /\ log.end \in Nat /\ g \in Groups /\ pc = "resume"
      /\ LogStart(log) \in Nat /\ LogStart(log) <= log.end
      /\ UNCHANGED <<log, committed, read, produced>>
  BY LogNow DEF TypeOK, ResumeRead, ResumeTimeout, ResumeError, Finish
<1>1. LogInv' /\ ReadInv'
  BY <1>0, NextGroupFacts DEF LogInv, ReadInv, ResumeRead, ResumeTimeout, ResumeError, Finish
<1>2. CASE ResumeTimeout \/ ResumeError
  <2> USE <1>2, <1>0 DEF ResumeTimeout, ResumeError, Finish
  <2>1. NextGroup("ended") /\ UNCHANGED resumed
    OBVIOUS
  <2>2. TypeOK' /\ PosInv'
    BY <2>1, RoundAssumption DEF NextGroup, TypeOK, PosInv, Groups
  <2>3. CommitInv' /\ CommittedWasRead' /\ OnlyRetentionSkips' /\ ErrorContinues'
    BY <2>1, OffsetsKept
  <2>4. ResumeInv'
    BY <2>1, NextGroupFacts DEF ResumeInv
  <2> QED BY <1>1, <2>2, <2>3, <2>4
<1>3. CASE ResumeRead
  <2> USE <1>3, <1>0 DEF ResumeRead
  <2>1. pos \in Nat /\ pos < log.end
    BY DEF PosInv, TypeOK
  <2>2. /\ resumed' = [resumed EXCEPT ![g] = @ \cup {pos}]
        /\ resumed'[g] = resumed[g] \cup {pos}
        /\ \A h \in Groups : resumed[h] \subseteq resumed'[h]
        /\ \A h \in Groups \ {g} : resumed'[h] = resumed[h]
    BY DEF TypeOK
  <2>3. \A h \in Groups : \A o \in Nat : Passed(h, o) => Passed(h, o)'
    BY <2>2, PassedStays
  <2>4. TypeOK' /\ PosInv'
    BY <2>1, <2>2, RoundAssumption DEF NextGroup, TypeOK, PosInv, Finish, Groups
  <2>5. CommitInv' /\ CommittedWasRead'
    BY <2>3 DEF CommitInv, CommittedWasRead, TypeOK
  <2>6. ASSUME NEW h \in Groups, h = g, h # "latest", NEW o \in 0 .. pos
        PROVE  Passed(h, o)'
    BY <2>1, <2>2, <2>3, <2>6 DEF ResumeInv, Passed
  <2>7. OnlyRetentionSkips'
    BY <2>2, <2>3, <2>6 DEF OnlyRetentionSkips, TypeOK
  <2>8. g = "error" => /\ committed[g] \in Nat /\ committed[g] <= pos
                       /\ resumed'[g] = committed[g] .. pos
    BY <2>1, <2>2 DEF ResumeInv, TypeOK
  <2>9. ErrorContinues'
    <3>1. CASE g = "error"
      <4>0. committed[g] \in Int /\ pos \in Int /\ ~(committed[g] > pos)
        BY <2>1, <2>8, <3>1
      <4>1. Cardinality(committed[g] .. pos) = pos - committed[g] + 1
        BY <4>0, FS_Interval
      <4> QED BY <2>1, <2>8, <3>1, <4>1 DEF ErrorContinues
    <3>2. CASE g # "error"
      BY <2>2, <3>2 DEF ErrorContinues, Groups
    <3> QED BY <3>1, <3>2
  <2>10. ResumeInv'
    <3>1. \A h \in Groups : committed[h] # NoOffset => \A o \in resumed'[h] : committed[h] <= o
      BY <2>1, <2>2 DEF ResumeInv
    <3>2. CASE Finish("resumed")
      BY <2>2, <3>1, <3>2, NextGroupFacts DEF ResumeInv, Finish
    <3>3. CASE pos' = pos + 1 /\ UNCHANGED <<pc, g>>
      <4>1. \A h \in After(g) : resumed'[h] = {}
        BY <2>2 DEF ResumeInv, After, Groups
      <4>2. committed[g] # NoOffset => committed[g] <= pos'
        BY <2>1, <3>3 DEF ResumeInv, TypeOK
      <4>3. g # "latest" => \A o \in 0 .. pos' - 1 : Passed(g, o)'
        BY <2>1, <2>6, <3>3
      <4>4. g = "error" => resumed'[g] = committed[g] .. pos' - 1
        BY <2>1, <2>8, <3>3
      <4> QED BY <2>1, <2>8, <3>1, <3>3, <4>1, <4>2, <4>3, <4>4 DEF ResumeInv
    <3> QED BY <3>2, <3>3
  <2> QED BY <1>1, <2>4, <2>5, <2>7, <2>9, <2>10
<1> QED BY <1>2, <1>3

LEMMA NextIInv == IInv /\ [Next]_vars => IInv'
<1> SUFFICES ASSUME IInv, [Next]_vars PROVE IInv'
  OBVIOUS
<1>1. CASE UNCHANGED vars
  <2>1. TypeOK' /\ LogInv' /\ LogStart(log) <= LogStart(log') /\ log.end <= log'.end
    BY <1>1, LogNow DEF IInv, vars, TypeOK, LogInv, consumerVars, seenVars
  <2> QED BY <1>1, <2>1, LogStep DEF vars
<1> QED BY <1>1, PartitionIInv, LibraryIInv, ConsumeIInv, ResumeIInv DEF Next, Main

-----------------------------------------------------------------------------

\* Positions, offsets and the log stay consistent while retention deletes
\* segments between any two steps of the script and its consumers.
THEOREM Invariance == Spec => []IInv
<1> QED BY InitIInv, NextIInv, PTL DEF Spec

\* commit() in consume_and_commit() (sim_log_start_offset.py): it follows the
\* full number of messages, and everything below the offset was read by the
\* group or deleted.
THEOREM CommitProved == Spec => []CommittedWasRead
<1>1. IInv => CommittedWasRead
  BY DEF IInv
<1> QED BY <1>1, Invariance, PTL

\* With `earliest' and `error' a group passes over nothing that is still in the
\* log, whatever retention deletes before, between and after its polls.
THEOREM SkipsProved == Spec => []OnlyRetentionSkips
<1>1. IInv => OnlyRetentionSkips
  BY DEF IInv
<1> QED BY <1>1, Invariance, PTL

\* No policy makes a group that committed read a message a second time.
THEOREM RereadProved == Spec => []NoRereadAfterCommit
<1>1. IInv => NoRereadAfterCommit
  BY DEF IInv, TypeOK, CommitInv, ResumeInv, NoRereadAfterCommit, NoOffset
<1> QED BY <1>1, Invariance, PTL

\* auto.offset.reset = error: the group goes on exactly at its offset or not at
\* all.
THEOREM ErrorProved == Spec => []ErrorContinues
<1>1. IInv => ErrorContinues
  BY DEF IInv
<1> QED BY <1>1, Invariance, PTL

\* What lies behind a group stays behind it: neither retention nor another
\* policy brings a message back, an offset is committed once
\* (sim_log_start_offset.py:92-93) and the log only moves forward.
NothingComesBack ==
    /\ LogStart(log) <= LogStart(log)' /\ log.end <= log'.end
    /\ \A h \in Groups :
          /\ committed[h] # NoOffset => committed'[h] = committed[h]
          /\ \A o \in Nat : Passed(h, o) => Passed(h, o)'

\* No step of S8 takes back what was read, deleted or committed.
THEOREM NothingComesBackProved == Spec => [][NothingComesBack]_vars
<1>1. IInv /\ IInv' /\ [Next]_vars => [NothingComesBack]_vars
  <2> SUFFICES ASSUME IInv, IInv', Next PROVE NothingComesBack
    OBVIOUS
  <2>1. /\ LogStart(log) <= LogStart(log') /\ log.end <= log'.end
        /\ IsLog(log) /\ IsLog(log')
    <3>0. LogInv /\ IsLog(log) /\ IsLog(log') /\ LogStart(log) \in Nat /\ log.end \in Nat
      BY LogNow DEF IInv, TypeOK
    <3>1. CASE ProduceBatch
      <4>1. PICK n \in 1 .. Total - produced :
               log' = Appended(log, n, SegmentSize) \/ UNCHANGED log
        BY <3>1 DEF ProduceBatch
      <4>2. n \in Nat /\ SegmentSize \in Nat
        BY RoundAssumption
      <4>3. CASE log' = Appended(log, n, SegmentSize)
        <5>1. LogStart(log') = LogStart(log) /\ log'.end = log.end + n
          BY <3>0, <4>2, <4>3, AppendedFacts DEF LogInv
        <5> QED BY <3>0, <4>2, <5>1
      <4> QED BY <3>0, <4>1, <4>3
    <3>2. CASE Retention
      BY <3>0, <3>2, TrimmedFacts DEF Retention, LogInv
    <3>3. CASE UNCHANGED log
      BY <3>3, LogNow DEF IInv, TypeOK
    <3> QED BY <3>1, <3>2, <3>3
            DEF Next, Main, ProduceDone, Assign, Reset, Fetch, ConsumeRead, Commit, CommitFails,
                ConsumeTimeout, Wait, ResumeRead, ResumeTimeout, ResumeError
  <2>2. ASSUME NEW h \in Groups
        PROVE  read[h] \subseteq read'[h] /\ resumed[h] \subseteq resumed'[h]
    BY DEF IInv, TypeOK, Next, Main, ProduceBatch, ProduceDone, Assign, Reset, Fetch, ConsumeRead,
           Commit, CommitFails, ConsumeTimeout, Wait, ResumeRead, ResumeTimeout, ResumeError,
           Retention, seenVars
  <2>3. ASSUME NEW h \in Groups, committed[h] # NoOffset
        PROVE  committed'[h] = committed[h]
    <3>1. CASE Commit
      <4>1. committed[g] = NoOffset /\ committed' = [committed EXCEPT ![g] = CommitOffset]
        BY <3>1 DEF Commit, IInv, ReadInv
      <4> QED BY <2>3, <4>1 DEF IInv, TypeOK
    <3>2. CASE UNCHANGED committed
      BY <3>2
    <3> QED BY <3>1, <3>2
        DEF Next, Main, ProduceBatch, ProduceDone, Assign, Reset, Fetch, ConsumeRead, CommitFails,
            ConsumeTimeout, Wait, ResumeRead, ResumeTimeout, ResumeError, Retention
  <2>4. \A h \in Groups : \A o \in Nat : Passed(h, o) => Passed(h, o)'
    BY <2>1, <2>2, PassedStays
  <2> QED BY <2>1, <2>3, <2>4 DEF NothingComesBack
<1> QED BY <1>1, Invariance, PTL DEF Spec

-----------------------------------------------------------------------------
(* RetentionRounds.                                                         *)

\* The instance speaks of the same logs.
LEMMA SameLogs ==
    ASSUME NEW l
    PROVE  /\ Rounds!LogStart(l) = LogStart(l)
           /\ Rounds!HasClosed(l) <=> HasClosed(l)
           /\ Rounds!Kept(l) = l.end - LogStart(l)
           /\ Rounds!Trimmed(l) = Trimmed(l)
           /\ \A n, size : Rounds!Appended(l, n, size) = Appended(l, n, size)
<1>1. Rounds!LogStart(l) = LogStart(l)
  BY DEF Rounds!LogStart, LogStart
<1>2. Rounds!Active(l) = Active(l)
  BY DEF Rounds!Active, Active
<1>3. \A n, size : Rounds!Appended(l, n, size) = Appended(l, n, size)
  BY <1>2 DEF Rounds!Appended, Appended
<1> QED BY <1>1, <1>2, <1>3 DEF Rounds!HasClosed, HasClosed, Rounds!Kept, Rounds!Trimmed, Trimmed

\* The active segment is the newest, when none begins behind the end.
LEMMA ActiveIsGreatest ==
    ASSUME NEW l, IsLog(l), \A b \in l.segments : b <= l.end
    PROVE  /\ Active(l) \in l.segments
           /\ \A c \in l.segments : c <= Active(l)
<1>1. l.segments \in SUBSET Nat /\ l.segments # {} /\ l.end \in Nat
  BY DEF IsLog
<1> DEFINE Rest == {l.end - b : b \in l.segments}
<1>2. Rest \in SUBSET Nat /\ Rest # {}
  BY <1>1
<1>3. PICK d \in Rest : \A e \in Rest : d <= e
  <2> HIDE DEF Rest
  <2> QED BY <1>2, LeastExists
<1>4. PICK b \in l.segments : d = l.end - b
  BY <1>3
<1>5. \A c \in l.segments : l.end - b <= l.end - c
  BY <1>3, <1>4
<1>6. \A c \in l.segments : c <= b
  BY <1>1, <1>5
<1> QED BY <1>6 DEF Active

\* The sizes and caps the scripts configure.
LEMMA ConfigFacts ==
    ASSUME Rounds!TopicAssumption, topic \in DOMAIN Rounds!Topics
    PROVE  /\ Rounds!Config.size \in Nat
           /\ Rounds!Config.cap = IF topic = "bytes" THEN Cap ELSE Rounds!Unlimited
BY DEF Rounds!TopicAssumption, Rounds!Config, Rounds!Topics, Rounds!Unlimited

LEMMA RoundsInit ==
    ASSUME Rounds!TopicAssumption
    PROVE  Rounds!Init => Rounds!IInv
<1> SUFFICES ASSUME Rounds!Init PROVE Rounds!IInv
  OBVIOUS
<1> USE DEF Rounds!Init, Rounds!TopicAssumption
<1>1. Rounds!TypeOK
  <2>1. topic \in DOMAIN Rounds!Topics /\ keyed \in Partitions /\ pc = "produce"
    OBVIOUS
  <2>2. log \in [Partitions -> [segments : (SUBSET Nat) \ {{}}, end : Nat]]
    BY DEF Rounds!EmptyLog
  <2>3. /\ round \in 1 .. 2 /\ unsent \in Nat /\ delivered \in Nat
        /\ queued \in [Partitions -> Nat]
    OBVIOUS
  <2>4. marks \in [1 .. 2 -> [Partitions -> [low : Nat \cup {-1}, high : Nat \cup {-1}]]]
    BY DEF Rounds!Unread
  <2> QED BY <2>1, <2>2, <2>3, <2>4 DEF Rounds!TypeOK
<1>2. \A p \in Partitions : log[p].segments = {0} /\ Rounds!LogStart(log[p]) = 0
  BY DEF Rounds!EmptyLog, Rounds!LogStart
<1>3. Rounds!SegmentInv /\ Rounds!LossNeedsOverflow
  BY <1>2 DEF Rounds!SegmentInv, Rounds!LossNeedsOverflow
<1>4. Rounds!RoundInv /\ Rounds!MarkInv /\ Rounds!OnlyKeyedMoves
  BY DEF Rounds!RoundInv, Rounds!MarkInv, Rounds!OnlyKeyedMoves
<1> QED BY <1>1, <1>3, <1>4 DEF Rounds!IInv

\* What TypeOK and SegmentInv say of one partition's log.
LEMMA RoundsLog ==
    ASSUME Rounds!TopicAssumption, Rounds!IInv, NEW p \in Partitions
    PROVE  /\ IsLog(log[p]) /\ log[p].end \in Nat
           /\ \A b \in log[p].segments : b \in Nat /\ b <= log[p].end
           /\ LogStart(log[p]) \in log[p].segments /\ LogStart(log[p]) \in Nat
<1> USE DEF Rounds!IInv
<1>1. log[p] \in [segments : (SUBSET Nat) \ {{}}, end : Nat]
  BY DEF Rounds!TypeOK
<1>2. IsLog(log[p]) /\ log[p].end \in Nat /\ log[p].segments \subseteq Nat
  BY <1>1 DEF IsLog
<1>3. \A b \in log[p].segments : b <= log[p].end
  BY <1>2 DEF Rounds!SegmentInv
<1> QED BY <1>2, <1>3, LogStartIsLeast

\* In round 2 the fixed key leads to one partition.
LEMMA RoundsProduce ==
    ASSUME Rounds!TopicAssumption, Rounds!IInv, Rounds!Produce
    PROVE  Rounds!IInv'
<1> USE DEF Rounds!IInv
<1>1. PICK p \in Rounds!Route : queued' = [queued EXCEPT ![p] = @ + 1]
  BY DEF Rounds!Produce
<1>2. /\ pc = "produce" /\ unsent > 0 /\ unsent' = unsent - 1
      /\ UNCHANGED <<topic, keyed, log, pc, round, delivered, marks>>
  BY DEF Rounds!Produce
<1>3. p \in Partitions /\ (round = 2 => p = keyed)
  BY DEF Rounds!Route, Rounds!Used, Rounds!TypeOK
<1>4. Rounds!TypeOK'
  <2>1. queued' \in [Partitions -> Nat] /\ unsent' \in Nat
    BY <1>1, <1>2, <1>3 DEF Rounds!TypeOK
  <2> QED BY <1>2, <2>1 DEF Rounds!TypeOK, Rounds!Topics
<1>5. Rounds!RoundInv'
  BY <1>1, <1>2, <1>3 DEF Rounds!RoundInv, Rounds!TypeOK
<1>6. Rounds!SegmentInv' /\ Rounds!LossNeedsOverflow' /\ Rounds!MarkInv' /\ Rounds!OnlyKeyedMoves'
  BY <1>2 DEF Rounds!SegmentInv, Rounds!LossNeedsOverflow, Rounds!MarkInv,
              Rounds!OnlyKeyedMoves, Rounds!Config, Rounds!Topics
<1> QED BY <1>4, <1>5, <1>6


\* A batch that is appended opens a segment behind a full one only, and takes
\* nothing away.
LEMMA RoundsSettle ==
    ASSUME Rounds!TopicAssumption, Rounds!IInv, NEW p \in Partitions, Rounds!Settle(p)
    PROVE  Rounds!IInv'
<1> USE DEF Rounds!IInv
<1> DEFINE size == Rounds!Config.size
<1>1. /\ topic \in DOMAIN Rounds!Topics /\ keyed \in Partitions
      /\ queued \in [Partitions -> Nat] /\ delivered \in Nat
  BY DEF Rounds!TypeOK
<1>2. PICK n \in 1 .. Rounds!MaxBatch(p) :
        /\ queued' = [queued EXCEPT ![p] = @ - n]
        /\ \/ /\ log' = [log EXCEPT ![p] = Rounds!Appended(@, n, size)]
              /\ delivered' \in {delivered, delivered + n}
           \/ UNCHANGED <<log, delivered>>
  BY DEF Rounds!Settle
<1>3. /\ queued[p] > 0
      /\ UNCHANGED <<topic, keyed, pc, round, unsent, marks>>
  BY DEF Rounds!Settle
<1>4. n \in Nat /\ n > 0 /\ n <= queued[p]
  BY <1>1, <1>2, <1>3 DEF Rounds!MaxBatch
<1>5. size \in Nat
  BY <1>1, ConfigFacts
<1>6. Rounds!Config' = Rounds!Config
  BY <1>3 DEF Rounds!Config, Rounds!Topics
<1> HIDE DEF size
<1> DEFINE a == Appended(log[p], n, size)
<1>7. /\ IsLog(a) /\ LogStart(a) = LogStart(log[p]) /\ a.end = log[p].end + n
      /\ \A b \in a.segments : b \in log[p].segments \/ (b = log[p].end /\ size <= b)
  <2>1. /\ IsLog(a) /\ LogStart(a) = LogStart(log[p]) /\ a.end = log[p].end + n
    BY <1>4, <1>5, RoundsLog, AppendedFacts
  <2>2. Active(log[p]) \in Nat
    BY RoundsLog, ActiveIsGreatest
  <2>3. log[p].end \in Nat
    BY RoundsLog
  <2>4. log[p].end - Active(log[p]) >= size => size <= log[p].end
    BY <1>5, <2>2, <2>3
  <2> QED BY <2>1, <2>4 DEF Appended
<1>8. log' \in {log, [log EXCEPT ![p] = a]}
  BY <1>2, SameLogs
<1> HIDE DEF a
<1>9. \A q \in Partitions :
        /\ log'[q] = log[q] \/ (q = p /\ log'[q] = a)
        /\ LogStart(log'[q]) = LogStart(log[q])
        /\ LogStart(log[q]) \in Nat /\ log[q].end \in Nat
        /\ log'[q].end = log[q].end \/ (q = p /\ log'[q].end = log[q].end + n)
  BY <1>7, <1>8, RoundsLog DEF Rounds!TypeOK
<1>10. Rounds!TypeOK'
  <2>1. log' \in [Partitions -> [segments : (SUBSET Nat) \ {{}}, end : Nat]]
    BY <1>7, <1>8 DEF Rounds!TypeOK, IsLog
  <2>2. queued' \in [Partitions -> Nat] /\ delivered' \in Nat
    BY <1>1, <1>2, <1>4
  <2> QED BY <1>3, <2>1, <2>2 DEF Rounds!TypeOK, Rounds!Topics
<1>11. Rounds!SegmentInv'
  <2> SUFFICES ASSUME NEW q \in Partitions, NEW b \in log'[q].segments
               PROVE  b = 0 \/ (size <= b /\ b < log'[q].end)
    BY <1>6 DEF Rounds!SegmentInv, size
  <2>1. CASE b \in log[q].segments
    <3>1. b \in Nat /\ (b = 0 \/ (size <= b /\ b < log[q].end))
      BY <2>1, RoundsLog DEF Rounds!SegmentInv, size
    <3> QED BY <1>4, <1>9, <3>1
  <2>2. CASE b \notin log[q].segments
    <3>1. q = p /\ b = log[p].end /\ size <= b /\ log'[q].end = log[p].end + n
      BY <1>7, <1>9, <2>2
    <3> QED BY <1>4, <1>9, <3>1
  <2> QED BY <2>1, <2>2
<1>12. Rounds!LossNeedsOverflow'
  <2>1. Rounds!Config.cap \in Nat \cup {-1} /\ Rounds!Config.size \in Nat
    BY <1>1, ConfigFacts DEF Rounds!TopicAssumption, Rounds!Unlimited
  <2> QED BY <1>4, <1>6, <1>9, <2>1, SameLogs DEF Rounds!LossNeedsOverflow, Rounds!Unlimited
<1>13. Rounds!RoundInv'
  BY <1>1, <1>2, <1>3, <1>4 DEF Rounds!RoundInv, Rounds!Idle
<1>14. Rounds!MarkInv'
  BY <1>3, <1>9, SameLogs DEF Rounds!MarkInv, Rounds!RoundInv, Rounds!Unread
<1>15. Rounds!OnlyKeyedMoves'
  BY <1>3 DEF Rounds!OnlyKeyedMoves, Rounds!Unread
<1> QED BY <1>10, <1>11, <1>12, <1>13, <1>14, <1>15

\* Retention takes the oldest segment of a partition that is over its limit.
LEMMA RoundsClean ==
    ASSUME Rounds!TopicAssumption, Rounds!IInv, NEW p \in Partitions, Rounds!Clean(p)
    PROVE  Rounds!IInv'
<1> USE DEF Rounds!IInv
<1> DEFINE t == Trimmed(log[p])
<1>1. /\ topic \in DOMAIN Rounds!Topics /\ keyed \in Partitions
  BY DEF Rounds!TypeOK
<1>2. /\ HasClosed(log[p])
      /\ Rounds!Config.cap = Rounds!Unlimited \/ log[p].end - LogStart(log[p]) > Rounds!Config.cap
      /\ log' = [log EXCEPT ![p] = t]
      /\ UNCHANGED <<topic, keyed, pc, round, unsent, queued, delivered, marks>>
  BY SameLogs DEF Rounds!Clean, Rounds!Excess, Rounds!clientVars
<1>3. Rounds!Config' = Rounds!Config
  BY <1>2 DEF Rounds!Config, Rounds!Topics
<1>4. /\ IsLog(t) /\ LogStart(log[p]) <= LogStart(t) /\ t.end = log[p].end
      /\ t.segments \subseteq log[p].segments
      /\ LogStart(t) \in t.segments /\ LogStart(t) \in Nat
  <2>1. IsLog(t) /\ LogStart(log[p]) <= LogStart(t) /\ t.end = log[p].end
    BY <1>2, RoundsLog, TrimmedFacts
  <2>2. t.segments \subseteq log[p].segments
    BY RoundsLog DEF Trimmed, IsLog
  <2> QED BY <2>1, <2>2, LogStartIsLeast
<1> HIDE DEF t
<1>5. \A q \in Partitions :
        /\ IF q = p THEN log'[q] = t ELSE log'[q] = log[q]
        /\ LogStart(log'[q]) \in log[q].segments /\ LogStart(log'[q]) \in Nat
        /\ LogStart(log[q]) \in Nat /\ LogStart(log[q]) <= LogStart(log'[q])
        /\ log'[q].segments \subseteq log[q].segments
        /\ log'[q].end = log[q].end /\ log[q].end \in Nat
  BY <1>2, <1>4, RoundsLog DEF Rounds!TypeOK
<1>6. Rounds!TypeOK'
  <2>1. log' \in [Partitions -> [segments : (SUBSET Nat) \ {{}}, end : Nat]]
    BY <1>2, <1>4 DEF Rounds!TypeOK, IsLog
  <2> QED BY <1>2, <2>1 DEF Rounds!TypeOK, Rounds!Topics
<1>7. Rounds!SegmentInv'
  BY <1>3, <1>5 DEF Rounds!SegmentInv
<1>8. Rounds!Config.size \in Nat
      /\ Rounds!Config.cap = IF topic = "bytes" THEN Cap ELSE Rounds!Unlimited
  BY <1>1, ConfigFacts
<1>9. Rounds!LossNeedsOverflow'
  <2> SUFFICES ASSUME NEW q \in Partitions, LogStart(log'[q]) > 0
               PROVE  log[q].end > IF Rounds!Config.cap = Rounds!Unlimited
                                   THEN Rounds!Config.size ELSE Rounds!Config.cap
    BY <1>3, <1>5, SameLogs DEF Rounds!LossNeedsOverflow
  <2>1. CASE Rounds!Config.cap = Rounds!Unlimited
    <3>1. Rounds!Config.size <= LogStart(log'[q]) /\ LogStart(log'[q]) < log[q].end
      BY <1>5 DEF Rounds!SegmentInv
    <3> QED BY <1>5, <1>8, <2>1, <3>1
  <2>2. CASE Rounds!Config.cap # Rounds!Unlimited
    <3>1. Rounds!Config.cap \in Nat
      BY <1>8, <2>2 DEF Rounds!TopicAssumption
    <3>2. CASE q = p
      BY <1>2, <1>5, <2>2, <3>1, <3>2
    <3>3. CASE q # p
      BY <1>5, <2>2, <3>3, SameLogs DEF Rounds!LossNeedsOverflow
    <3> QED BY <3>2, <3>3
  <2> QED BY <2>1, <2>2
<1>10. Rounds!RoundInv'
  BY <1>2 DEF Rounds!RoundInv, Rounds!Idle
<1>11. Rounds!MarkInv'
  <2> SUFFICES ASSUME round = 2, NEW q \in Partitions \ {keyed}, marks[1][q] # Rounds!Unread
               PROVE  /\ marks[1][q].high = log'[q].end
                      /\ marks[1][q].low <= LogStart(log'[q])
                      /\ LogStart(log'[q]) > marks[1][q].low =>
                            marks[1][q].high - marks[1][q].low > Cap
    BY <1>2, SameLogs DEF Rounds!MarkInv, Rounds!Unread
  <2>1. /\ marks[1][q].high = log[q].end
        /\ marks[1][q].low <= LogStart(log[q])
        /\ LogStart(log[q]) > marks[1][q].low => marks[1][q].high - marks[1][q].low > Cap
    BY SameLogs DEF Rounds!MarkInv
  <2>2. marks[1][q].low \in Int
    BY DEF Rounds!TypeOK
  <2>3. Rounds!Config.cap = Cap /\ Cap \in Nat
    BY <1>8 DEF Rounds!RoundInv, Rounds!TopicAssumption
  <2>4. q = p => log[q].end - LogStart(log[q]) > Cap
    BY <1>2, <2>3 DEF Rounds!Unlimited
  <2> QED BY <1>5, <2>1, <2>2, <2>3, <2>4
<1>12. Rounds!OnlyKeyedMoves'
  BY <1>2 DEF Rounds!OnlyKeyedMoves, Rounds!Unread
<1> QED BY <1>6, <1>7, <1>9, <1>10, <1>11, <1>12

\* The watermarks of the first check are where round 2 begins.
LEMMA RoundsCheck ==
    ASSUME Rounds!TopicAssumption, Rounds!IInv, Rounds!Check
    PROVE  Rounds!IInv'
<1> USE DEF Rounds!IInv
<1> DEFINE read_marks == [p \in Partitions |->
              [low |-> Rounds!LogStart(log[p]), high |-> log[p].end]]
<1>1. /\ pc = "wait"
      /\ marks' \in {marks, [marks EXCEPT ![round] = read_marks]}
      /\ UNCHANGED <<topic, keyed, log, queued, delivered>>
      /\ \/ topic = "bytes" /\ round = 1 /\ pc' = "produce" /\ round' = 2 /\ unsent' = Again
         \/ ~(topic = "bytes" /\ round = 1) /\ pc' = "ended" /\ UNCHANGED <<round, unsent>>
  BY DEF Rounds!Check
<1>2. /\ round \in {1, 2} /\ keyed \in Partitions
      /\ queued \in [Partitions -> Nat]
      /\ marks \in [1 .. 2 -> [Partitions -> [low : Nat \cup {-1}, high : Nat \cup {-1}]]]
  BY DEF Rounds!TypeOK
<1>3. \A p \in Partitions : /\ read_marks[p].low = LogStart(log[p])
                            /\ read_marks[p].high = log[p].end
                            /\ LogStart(log[p]) \in Nat /\ log[p].end \in Nat
  BY RoundsLog, SameLogs
<1>4. read_marks \in [Partitions -> [low : Nat \cup {-1}, high : Nat \cup {-1}]]
  BY RoundsLog, SameLogs
<1> HIDE DEF read_marks
<1>5. \A r \in 1 .. 2 : marks'[r] = marks[r] \/ (r = round /\ marks'[r] = read_marks)
  BY <1>1, <1>2
<1>6. Rounds!TypeOK'
  <2>1. marks' \in [1 .. 2 -> [Partitions -> [low : Nat \cup {-1}, high : Nat \cup {-1}]]]
    BY <1>1, <1>2, <1>4
  <2>2. unsent' \in Nat /\ round' \in 1 .. 2 /\ pc' \in {"produce", "wait", "ended"}
    BY <1>1 DEF Rounds!TypeOK, Rounds!TopicAssumption
  <2> QED BY <1>1, <2>1, <2>2 DEF Rounds!TypeOK, Rounds!Topics
<1>7. Rounds!SegmentInv' /\ Rounds!LossNeedsOverflow'
  BY <1>1 DEF Rounds!SegmentInv, Rounds!LossNeedsOverflow, Rounds!Config, Rounds!Topics
<1>8. Rounds!RoundInv'
  <2>1. \A p \in Partitions : queued'[p] = 0
    BY <1>1 DEF Rounds!RoundInv, Rounds!Idle
  <2>2. round' = 1 => marks'[2] = marks[2] /\ round = 1
    BY <1>1, <1>5
  <2>3. round' = 2 => topic' = "bytes"
    BY <1>1 DEF Rounds!RoundInv
  <2>4. pc' # "wait" /\ (round' = 1 => pc' = "ended")
    BY <1>1
  <2> QED BY <2>1, <2>2, <2>3, <2>4 DEF Rounds!RoundInv, Rounds!Unread
<1>9. Rounds!MarkInv'
  <2>1. CASE round = 1 /\ marks'[1] = read_marks
    BY <1>1, <1>3, <2>1, SameLogs DEF Rounds!MarkInv, Rounds!Unread
  <2>2. CASE round = 2
    <3>1. marks'[1] = marks[1] /\ round' = 2
      BY <1>1, <1>5, <2>2
    <3> QED BY <1>1, <2>2, <3>1 DEF Rounds!MarkInv, Rounds!Unread
  <2>3. CASE round = 1 /\ marks'[1] = marks[1]
    BY <1>1, <2>3 DEF Rounds!MarkInv, Rounds!RoundInv
  <2> QED BY <1>2, <1>5, <2>1, <2>2, <2>3
<1>10. Rounds!OnlyKeyedMoves'
  <2> SUFFICES ASSUME NEW p \in Partitions \ {keyed}, marks'[1][p] # Rounds!Unread,
                      marks'[2][p].low > marks'[1][p].low
               PROVE  marks'[1][p].high - marks'[1][p].low > Cap
    BY <1>1 DEF Rounds!OnlyKeyedMoves, Rounds!Unread
  <2>1. CASE round = 1
    <3>1. marks'[2][p].low = -1
      BY <1>5, <2>1 DEF Rounds!RoundInv, Rounds!Unread
    <3>2. marks'[1][p].low \in Nat \cup {-1}
      BY <1>6 DEF Rounds!TypeOK
    <3> QED BY <3>1, <3>2
  <2>2. CASE round = 2
    <3>1. marks'[1] = marks[1]
      BY <1>5, <2>2
    <3>2. CASE marks'[2] = marks[2]
      BY <3>1, <3>2 DEF Rounds!OnlyKeyedMoves
    <3>3. CASE marks'[2] = read_marks
      BY <1>3, <2>2, <3>1, <3>3, SameLogs DEF Rounds!MarkInv
    <3> QED BY <1>5, <3>2, <3>3
  <2> QED BY <1>2, <2>1, <2>2
<1> QED BY <1>6, <1>7, <1>8, <1>9, <1>10

LEMMA RoundsNext ==
    ASSUME Rounds!TopicAssumption
    PROVE  Rounds!IInv /\ [Rounds!Next]_(Rounds!vars) => Rounds!IInv'
<1> SUFFICES ASSUME Rounds!IInv, [Rounds!Next]_(Rounds!vars) PROVE Rounds!IInv'
  OBVIOUS
<1>1. CASE Rounds!Flushed
  <2>1. /\ pc' = "wait" /\ Rounds!Idle
        /\ UNCHANGED <<topic, keyed, log, round, unsent, queued, delivered, marks>>
    BY <1>1 DEF Rounds!Flushed, Rounds!clientVars
  <2>2. Rounds!TypeOK' /\ Rounds!RoundInv'
    BY <1>1, <2>1 DEF Rounds!Flushed, Rounds!IInv, Rounds!TypeOK, Rounds!RoundInv,
                      Rounds!Idle, Rounds!Topics, Rounds!Unread
  <2>3. /\ Rounds!SegmentInv' /\ Rounds!LossNeedsOverflow'
        /\ Rounds!MarkInv' /\ Rounds!OnlyKeyedMoves'
    BY <2>1 DEF Rounds!IInv, Rounds!SegmentInv, Rounds!LossNeedsOverflow, Rounds!MarkInv,
                Rounds!OnlyKeyedMoves, Rounds!Config, Rounds!Topics, Rounds!Unread
  <2> QED BY <2>2, <2>3 DEF Rounds!IInv
<1>2. CASE UNCHANGED Rounds!vars
  <2>1. UNCHANGED <<topic, keyed, log, pc, round, unsent, queued, delivered, marks>>
    BY <1>2 DEF Rounds!vars, Rounds!clientVars
  <2>2. Rounds!TypeOK' /\ Rounds!RoundInv'
    BY <2>1 DEF Rounds!IInv, Rounds!TypeOK, Rounds!RoundInv, Rounds!Idle, Rounds!Topics,
                Rounds!Unread
  <2>3. /\ Rounds!SegmentInv' /\ Rounds!LossNeedsOverflow'
        /\ Rounds!MarkInv' /\ Rounds!OnlyKeyedMoves'
    BY <2>1 DEF Rounds!IInv, Rounds!SegmentInv, Rounds!LossNeedsOverflow, Rounds!MarkInv,
                Rounds!OnlyKeyedMoves, Rounds!Config, Rounds!Topics, Rounds!Unread
  <2> QED BY <2>2, <2>3 DEF Rounds!IInv
<1> QED BY <1>1, <1>2, RoundsProduce, RoundsSettle, RoundsClean, RoundsCheck DEF Rounds!Next

\* Spec => []IInv for any partitions, numbers of messages, segment sizes and cap:
\* segments begin behind full ones, and round 2 fills the keyed partition alone.
THEOREM RoundsInvariance ==
    ASSUME Rounds!TopicAssumption
    PROVE  Rounds!Spec => []Rounds!IInv
<1>1. Rounds!Init => Rounds!IInv
  BY RoundsInit
<1>2. Rounds!IInv /\ [Rounds!Next]_(Rounds!vars) => Rounds!IInv'
  BY RoundsNext
<1> QED BY <1>1, <1>2, PTL DEF Rounds!Spec

\* LossNeedsOverflow: the cap of sim_retention_bytes.py (line 96) and the segment
\* size of sim_segment_roll.py hold for each partition by itself.
THEOREM OverflowProved ==
    ASSUME Rounds!TopicAssumption
    PROVE  Rounds!Spec => []Rounds!LossNeedsOverflow
<1>1. Rounds!IInv => Rounds!LossNeedsOverflow
  BY DEF Rounds!IInv
<1> QED BY <1>1, RoundsInvariance, PTL

\* OnlyKeyedMoves: what S7 prints about its second round
\* (sim_retention_bytes.py:182-184) follows, once the cleaner had caught up.
THEOREM KeyedProved ==
    ASSUME Rounds!TopicAssumption
    PROVE  Rounds!Spec => []Rounds!OnlyKeyedMoves
<1>1. Rounds!IInv => Rounds!OnlyKeyedMoves
  BY DEF Rounds!IInv
<1> QED BY <1>1, RoundsInvariance, PTL

\* A log's newest segment is found in its segments alone.
LEMMA ActiveIs ==
    ASSUME NEW l, IsLog(l), \A b \in l.segments : b <= l.end,
           NEW a \in l.segments, \A c \in l.segments : c <= a
    PROVE  Active(l) = a
<1>1. Active(l) \in l.segments /\ Active(l) <= a /\ a <= Active(l)
  BY ActiveIsGreatest
<1>2. a \in Nat /\ Active(l) \in Nat
  BY <1>1 DEF IsLog
<1> QED BY <1>1, <1>2

\* Of what arrives in batches of one message no segment holds more than its size.
SmallSegments ==
    topic = "tiny" => \A p \in Partitions : log[p].end - Active(log[p]) <= Tiny

LEMMA SmallSettle ==
    ASSUME Rounds!TopicAssumption, Rounds!IInv, SmallSegments,
           NEW p \in Partitions, Rounds!Settle(p)
    PROVE  SmallSegments'
<1> SUFFICES ASSUME topic = "tiny", NEW q \in Partitions
             PROVE  log'[q].end - Active(log'[q]) <= Tiny
  BY DEF Rounds!Settle, SmallSegments
<1> DEFINE l == log[p]
           a == Appended(log[p], 1, Tiny)
<1>1. Rounds!Config.size = Tiny /\ Tiny \in Nat /\ Tiny > 0
  BY DEF Rounds!Config, Rounds!Topics, Rounds!TopicAssumption
<1>2. log' = log \/ log' = [log EXCEPT ![p] = a]
  <2>1. Rounds!MaxBatch(p) = 1
    BY DEF Rounds!MaxBatch
  <2>2. \E n \in 1 .. 1 : log' = log \/ log' = [log EXCEPT ![p] = Appended(@, n, Tiny)]
    BY <1>1, <2>1, SameLogs DEF Rounds!Settle
  <2> QED BY <2>2
<1>3. log[q].end - Active(log[q]) <= Tiny
  BY DEF SmallSegments
<1>4. CASE q # p \/ log' = log
  BY <1>2, <1>3, <1>4 DEF Rounds!IInv, Rounds!TypeOK
<1>5. CASE q = p /\ log' # log
  <2>1. log'[q] = a
    BY <1>2, <1>5 DEF Rounds!IInv, Rounds!TypeOK
  <2>2. /\ IsLog(l) /\ l.end \in Nat /\ \A b \in l.segments : b \in Nat /\ b <= l.end
        /\ Active(l) \in l.segments /\ \A b \in l.segments : b <= Active(l)
    BY RoundsLog, ActiveIsGreatest
  <2>3. IsLog(a) /\ (\A b \in a.segments : b <= a.end) /\ a.end = l.end + 1
    BY <1>1, <2>2, AppendedFacts
  <2>4. CASE l.end - Active(l) >= Tiny
    <3>1. a.segments = l.segments \cup {l.end}
      BY <2>4 DEF Appended
    <3>2. Active(a) = l.end
      <4> HIDE DEF a, l
      <4> QED BY <2>2, <2>3, <3>1, ActiveIs
    <3> QED BY <1>1, <2>1, <2>2, <2>3, <3>2
  <2>5. CASE ~(l.end - Active(l) >= Tiny)
    <3>1. a.segments = l.segments
      BY <2>5 DEF Appended
    <3>2. Active(a) = Active(l)
      <4> HIDE DEF a, l
      <4> QED BY <2>2, <2>3, <3>1, ActiveIs
    <3>3. Active(l) \in Nat
      BY <2>2
    <3> QED BY <1>1, <2>1, <2>2, <2>3, <2>5, <3>2, <3>3
  <2> QED BY <2>4, <2>5
<1> QED BY <1>4, <1>5

LEMMA SmallClean ==
    ASSUME Rounds!TopicAssumption, Rounds!IInv, SmallSegments,
           NEW p \in Partitions, Rounds!Clean(p)
    PROVE  SmallSegments'
<1> DEFINE l == log[p]
           t == Trimmed(log[p])
<1>1. HasClosed(l) /\ log' = [log EXCEPT ![p] = t] /\ topic' = topic
  BY SameLogs DEF Rounds!Clean
<1>2. /\ IsLog(l) /\ l.end \in Nat /\ \A b \in l.segments : b <= l.end
      /\ Active(l) \in l.segments /\ \A b \in l.segments : b <= Active(l)
  BY RoundsLog, ActiveIsGreatest
<1>3. /\ IsLog(t) /\ (\A b \in t.segments : b <= t.end) /\ t.end = l.end
      /\ t.segments = l.segments \ {LogStart(l)}
  <2>1. IsLog(t) /\ (\A b \in t.segments : b <= t.end) /\ t.end = l.end
    BY <1>1, <1>2, TrimmedFacts
  <2>2. t.segments = l.segments \ {LogStart(l)}
    BY <1>2 DEF Trimmed, IsLog
  <2> QED BY <2>1, <2>2
<1>4. Active(l) \in t.segments
  BY <1>1, <1>2, <1>3 DEF HasClosed
<1>5. Active(t) = Active(l)
  <2> HIDE DEF t, l
  <2> QED BY <1>2, <1>3, <1>4, ActiveIs
<1> HIDE DEF t
<1>6. \A q \in Partitions : /\ log'[q].end = log[q].end
                            /\ Active(log'[q]) = Active(log[q])
  BY <1>1, <1>3, <1>5 DEF Rounds!IInv, Rounds!TypeOK
<1> QED BY <1>1, <1>6 DEF SmallSegments

\* What RetentionFires says without fairness: as long as the keyed partition of
\* round 2 of S6 (sim_segment_roll.py) keeps more than one small segment's
\* messages, one of its segments is closed, and the cleaner may delete it.
THEOREM RetentionCanFire ==
    ASSUME Rounds!TopicAssumption
    PROVE  Rounds!Spec =>
              [](topic = "tiny" => \/ Rounds!Kept(log[keyed]) <= Tiny
                                   \/ Rounds!HasClosed(log[keyed]) /\ Rounds!Excess(keyed))
<1>1. Rounds!Init => SmallSegments
  <2> SUFFICES ASSUME Rounds!Init, NEW p \in Partitions
               PROVE  log[p].end - Active(log[p]) <= Tiny
    BY DEF SmallSegments
  <2>1. log[p].segments = {0} /\ log[p].end = 0
    BY DEF Rounds!Init, Rounds!EmptyLog
  <2>2. Active(log[p]) = 0
    BY <2>1 DEF Active
  <2> QED BY <2>1, <2>2 DEF Rounds!TopicAssumption
<1>2. Rounds!IInv /\ SmallSegments /\ [Rounds!Next]_(Rounds!vars) => SmallSegments'
  <2> SUFFICES ASSUME Rounds!IInv, SmallSegments, [Rounds!Next]_(Rounds!vars)
               PROVE  SmallSegments'
    OBVIOUS
  <2>1. CASE Rounds!Produce \/ Rounds!Flushed \/ Rounds!Check \/ UNCHANGED Rounds!vars
    BY <2>1 DEF Rounds!Produce, Rounds!Flushed, Rounds!Check, Rounds!vars, SmallSegments
  <2> QED BY <2>1, SmallSettle, SmallClean DEF Rounds!Next
<1>3. Rounds!IInv /\ SmallSegments =>
         (topic = "tiny" => \/ Rounds!Kept(log[keyed]) <= Tiny
                            \/ Rounds!HasClosed(log[keyed]) /\ Rounds!Excess(keyed))
  <2> SUFFICES ASSUME Rounds!IInv, SmallSegments, topic = "tiny", ~HasClosed(log[keyed])
               PROVE  log[keyed].end - LogStart(log[keyed]) <= Tiny
    BY SameLogs DEF Rounds!Excess, Rounds!Config, Rounds!Topics
  <2>1. keyed \in Partitions
    BY DEF Rounds!IInv, Rounds!TypeOK
  <2> QED BY <2>1 DEF HasClosed, SmallSegments
<1> QED BY <1>1, <1>2, <1>3, RoundsInvariance, PTL DEF Rounds!Spec
=============================================================================
