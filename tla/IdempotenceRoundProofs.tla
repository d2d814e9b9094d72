----------------------- MODULE IdempotenceRoundProofs -----------------------
(***************************************************************************)
(* Proofs about IdempotenceRound for every Count, number of tries and size *)
(* of the client's queue: "Duplicates" is printed for a message that is    *)
(* twice in the log and never with idempotence, and what was confirmed     *)
(* with idempotence is there exactly once.                                 *)
(***************************************************************************)
EXTENDS IdempotenceRound, FiniteSetTheorems, TLAPS

LEMMA MsgsFacts ==
    /\ IsFiniteSet(Msgs)
    /\ Cardinality(Msgs) = Count
    /\ \A S \in SUBSET Msgs : IsFiniteSet(S) /\ Cardinality(S) \in 0 .. Count
<1>1. IsFiniteSet(Msgs) /\ Cardinality(Msgs) = Count
  <2>1. CASE Count = 0
    <3>1. Msgs = {}
      BY <2>1 DEF Msgs
    <3> QED BY <2>1, <3>1, FS_EmptySet
  <2>2. CASE Count # 0
    <3>1. 0 \in Int /\ Count - 1 \in Int /\ 0 <= Count - 1
      BY <2>2, ClientAssumption
    <3> QED BY <3>1, FS_Interval, ClientAssumption DEF Msgs
  <2> QED BY <2>1, <2>2
<1>2. ASSUME NEW S \in SUBSET Msgs
      PROVE  IsFiniteSet(S) /\ Cardinality(S) \in 0 .. Count
  <2>1. IsFiniteSet(S) /\ Cardinality(S) <= Count
    BY <1>1, FS_Subset
  <2>2. Cardinality(S) \in Nat
    BY <2>1, FS_CardinalityType
  <2> QED BY <2>1, <2>2, ClientAssumption
<1> QED BY <1>1, <1>2

\* A subset of the messages that counts all of them is all of them.
LEMMA AllOfThem ==
    ASSUME NEW S \in SUBSET Msgs, Cardinality(S) = Count
    PROVE  S = Msgs
BY MsgsFacts, FS_Subset

\* Disjoint sets of messages are counted together by adding.
LEMMA CountTogether ==
    ASSUME NEW S \in SUBSET Msgs, NEW T \in SUBSET Msgs, S \cap T = {}
    PROVE  /\ Cardinality(S \cup T) = Cardinality(S) + Cardinality(T)
           /\ Cardinality(S \cup T) \in 0 .. Count
<1>1. Cardinality(S \cup T)
         = Cardinality(S) + Cardinality(T) - Cardinality(S \cap T)
  BY MsgsFacts, FS_Union
<1>2. Cardinality(S \cap T) = 0
  BY FS_EmptySet
<1>3. S \cup T \in SUBSET Msgs
  OBVIOUS
<1> QED BY <1>1, <1>2, <1>3, MsgsFacts

-----------------------------------------------------------------------------

LEMMA InitIInv == Init => IInv
<1> SUFFICES ASSUME Init PROVE IInv
  OBVIOUS
<1> USE DEF Init, ClientInit
<1>1. TypeOK
  BY ClientAssumption DEF TypeOK, ClientTypeOK, Stages, Results
<1>2. TallyInv
  <2>1. Served("ok") = {} /\ Served("err") = {}
    BY DEF Served
  <2> QED BY <2>1, FS_EmptySet DEF TallyInv
<1>3. LogInv
  <2>1. Written = {}
    BY DEF Written
  <2> QED BY <2>1, FS_EmptySet DEF LogInv
<1>4. AnsweredInv /\ VerdictInv /\ DuplicatesAreReal
  BY DEF AnsweredInv, VerdictInv, DuplicatesAreReal
<1> QED BY <1>1, <1>2, <1>3, <1>4 DEF IInv

\* The counters say the same while no callback runs.
LEMMA TallyKept ==
    ASSUME TallyInv, Served("ok")' = Served("ok"), Served("err")' = Served("err"),
           UNCHANGED <<confirmed, errors>>, pc' = "poll" => i' < Count
    PROVE  TallyInv'
BY DEF TallyInv

\* Where the log, the answers and the outcomes stay as they are, so does what
\* is said of them.
LEMMA LogKept ==
    ASSUME AnsweredInv, LogInv, UNCHANGED <<result, acks, copies, logEnd, idempotent>>
    PROVE  AnsweredInv' /\ LogInv' /\ Written' = Written
BY DEF AnsweredInv, LogInv, Written

\* Serving the settled messages counts each of them, once.
LEMMA ServeCounts ==
    ASSUME TypeOK, TallyInv, Serve(Settled), OnDelivery(Settled),
           pc' = "poll" => i' < Count
    PROVE  /\ TallyInv'
           /\ confirmed' \in 0 .. Count
           /\ errors' \in 0 .. Count
<1>1. ASSUME NEW r \in Results
      PROVE  /\ Cardinality(Served(r)') = Cardinality(Served(r))
                                            + Cardinality(WithResult(Settled, r))
             /\ Cardinality(Served(r)') \in 0 .. Count
  <2>1. Served(r)' = Served(r) \cup WithResult(Settled, r)
    BY DEF Serve, Served, WithResult, Settled, TypeOK, ClientTypeOK
  <2>2. /\ Served(r) \in SUBSET Msgs
        /\ WithResult(Settled, r) \in SUBSET Msgs
        /\ Served(r) \cap WithResult(Settled, r) = {}
    BY DEF Served, WithResult, Settled
  <2> QED BY <2>1, <2>2, CountTogether
<1>2. "ok" \in Results /\ "err" \in Results
  BY DEF Results
<1> QED BY <1>1, <1>2 DEF TallyInv, OnDelivery

\* With idempotence, a log that confirms everything holds everything once.
LEMMA AllConfirmed ==
    ASSUME TypeOK, TallyInv, AnsweredInv, LogInv, idempotent, confirmed = Count
    PROVE  (\A m \in Msgs : copies[m] = 1) /\ logEnd = Count
<1>1. Served("ok") = Msgs
  BY AllOfThem DEF TallyInv, Served
<1>2. Written = Msgs
  BY <1>1 DEF AnsweredInv, Served, Written
<1>3. \A m \in Msgs : copies[m] \in Nat /\ copies[m] > 0 /\ copies[m] <= 1
  BY <1>2 DEF LogInv, Written, TypeOK
<1> QED BY <1>2, <1>3, MsgsFacts DEF LogInv

-----------------------------------------------------------------------------

\* run_round() and produce_with_retries() preserve the invariant.
LEMMA MainIInv == IInv /\ Main => IInv'
<1> SUFFICES ASSUME IInv, Main PROVE IInv'
  OBVIOUS
<1> USE DEF IInv
<1>1. CASE Produce
  <2> USE <1>1 DEF Produce, Enqueue
  <2>0. i \in Msgs /\ stage[i] = "new"
    BY ClientAssumption DEF TypeOK, Msgs
  <2>1. TypeOK'
    BY DEF TypeOK, ClientTypeOK, Stages
  <2>2. TallyInv'
    BY <2>0, TallyKept DEF Served, TypeOK, ClientTypeOK
  <2>3. VerdictInv' /\ DuplicatesAreReal'
    BY DEF VerdictInv, DuplicatesAreReal
  <2> QED BY <2>1, <2>2, <2>3, LogKept
<1>2. CASE Poll \/ FlushServe
  <2> USE <1>2 DEF Poll, FlushServe
  <2>1. Serve(Settled) /\ OnDelivery(Settled) /\ (pc' = "poll" => i' < Count)
    BY DEF TallyInv
  <2>2. TallyInv' /\ confirmed' \in 0 .. Count /\ errors' \in 0 .. Count
    BY <2>1, ServeCounts
  <2>3. TypeOK'
    <3>1. i' \in 0 .. Count
      BY ClientAssumption DEF TallyInv, TypeOK
    <3> QED BY <2>1, <2>2, <3>1 DEF Serve, TypeOK, ClientTypeOK, Stages
  <2>4. VerdictInv' /\ DuplicatesAreReal'
    BY DEF VerdictInv, DuplicatesAreReal
  <2> QED BY <2>1, <2>2, <2>3, <2>4, LogKept DEF Serve
<1>3. CASE EndLoop \/ FlushReturn \/ JoinPauser
  <2> USE <1>3 DEF EndLoop, FlushReturn, JoinPauser, clientVars
  <2>1. TypeOK'
    BY DEF TypeOK, ClientTypeOK
  <2>2. TallyInv'
    BY TallyKept DEF Served
  <2>3. VerdictInv' /\ DuplicatesAreReal'
    BY DEF VerdictInv, DuplicatesAreReal
  <2> QED BY <2>1, <2>2, <2>3, LogKept
<1>4. CASE Measure
  <2> USE <1>4 DEF Measure, clientVars
  <2>1. TypeOK'
    BY DEF TypeOK, ClientTypeOK
  <2>2. TallyInv'
    BY TallyKept DEF Served
  <2>3. VerdictInv'
    <3> SUFFICES ASSUME idempotent, verdict' = "lost" PROVE confirmed < Count
      BY DEF VerdictInv
    <3>1. logEnd # Count /\ confirmed \in 0 .. Count
      BY DEF TypeOK
    <3> QED BY <3>1, AllConfirmed, ClientAssumption
  \* A log longer than Count has a message that was appended again.
  <2>4. DuplicatesAreReal'
    <3> SUFFICES ASSUME verdict' = "duplicates"
                 PROVE  ~idempotent /\ \E m \in Msgs : copies[m] > 1
      BY DEF DuplicatesAreReal
    <3>1. logEnd > Count
      OBVIOUS
    <3>2. Cardinality(Written) \in 0 .. Count
      BY MsgsFacts DEF Written
    <3>3. ~ \A m \in Msgs : copies[m] <= 1
      BY <3>1, <3>2, ClientAssumption DEF LogInv, TypeOK
    <3> QED BY <3>3 DEF LogInv, TypeOK
  <2> QED BY <2>1, <2>2, <2>3, <2>4, LogKept
<1> QED BY <1>1, <1>2, <1>3, <1>4 DEF Main

\* pause_and_resume(), the client's threads and the network preserve it.
LEMMA BackgroundIInv ==
    ASSUME IInv,
           \/ Pause \/ Resume
           \/ \E m \in Msgs : \/ Background(m)
                              \/ \E k \in Tries : NetworkLoss(m, k)
    PROVE  IInv'
<1> USE DEF IInv
<1>1. CASE Pause \/ Resume
  <2> USE <1>1 DEF Pause, Resume, clientVars, mainVars
  <2>1. TypeOK'
    BY DEF TypeOK, ClientTypeOK
  <2>2. TallyInv'
    BY TallyKept DEF Served, TallyInv
  <2>3. VerdictInv' /\ DuplicatesAreReal'
    BY DEF VerdictInv, DuplicatesAreReal
  <2> QED BY <2>1, <2>2, <2>3, LogKept
<1>2. ASSUME NEW m \in Msgs,
             Background(m) \/ \E k \in Tries : NetworkLoss(m, k)
      PROVE  IInv'
  <2>0. UNCHANGED <<mainVars, pauser, copies, logEnd>>
    BY <1>2 DEF Background, NetworkLoss
  <2>1. VerdictInv' /\ DuplicatesAreReal' /\ LogInv' /\ Written' = Written
    BY <2>0 DEF VerdictInv, DuplicatesAreReal, LogInv, Written, mainVars
  <2>2. ASSUME UNCHANGED result,
               \A r \in Results : Served(r)' = Served(r)
        PROVE  TallyInv'
    BY <2>0, <2>2, TallyKept DEF TallyInv, mainVars, Results
  <2>3. CASE Transmit(m) \/ MessageTimeout(m) \/ RequestTimeout(m)
    <3> USE <2>3, <2>0 DEF Transmit, MessageTimeout, RequestTimeout, Settle, mainVars
    <3>1. TypeOK'
      BY ClientAssumption DEF TypeOK, ClientTypeOK, Stages, Results, Tries
    <3>2. TallyInv'
      BY TallyKept DEF TallyInv, Served, TypeOK, ClientTypeOK
    <3>3. AnsweredInv'
      BY <2>1 DEF AnsweredInv, TypeOK, ClientTypeOK
    <3> QED BY <2>1, <3>1, <3>2, <3>3
  <2>4. ASSUME NEW k \in Tries, AckArrives(m, k) \/ NetworkLoss(m, k)
        PROVE  IInv'
    <3> USE <2>4, <2>0 DEF AckArrives, NetworkLoss, LoseRequest, LoseAck, Settle, mainVars
    <3>1. TypeOK'
      BY DEF TypeOK, ClientTypeOK, Stages, Results
    <3>2. TallyInv'
      BY TallyKept DEF TallyInv, Served, TypeOK, ClientTypeOK
    \* An outcome becomes "ok" with an answer that says the message is written.
    <3>3. AnsweredInv'
      BY <2>1 DEF AnsweredInv, TypeOK, ClientTypeOK
    <3> QED BY <2>1, <3>1, <3>2, <3>3
  <2> QED BY <1>2, <2>3, <2>4 DEF Background
<1> QED BY <1>1, <1>2

\* The leader preserves it.  A message that it knows is not written again; one
\* that is written for the first time makes the log longer by one message.
LEMMA LeaderIInv ==
    ASSUME IInv, NEW m \in Msgs, NEW k \in Tries, LeaderAppend(m, k)
    PROVE  IInv'
<1> USE DEF IInv, LeaderAppend, Answer, mainVars
<1>1. TypeOK'
  BY DEF TypeOK, ClientTypeOK
<1>2. TallyInv'
  BY TallyKept DEF TallyInv, Served
<1>3. \A n \in Msgs : copies[n] \in Nat /\ copies'[n] \in Nat /\ copies[n] <= copies'[n]
  BY DEF TypeOK
<1>4. m \in Written' /\ Written' = Written \cup {m}
  BY <1>3 DEF Written, Known, TypeOK
<1>5. AnsweredInv'
  BY <1>4 DEF AnsweredInv
<1>6. LogInv'
  <2>1. CASE Known(m, k)
    BY <2>1 DEF LogInv, Written
  <2>2. CASE ~Known(m, k)
    <3> USE <2>2
    <3>1. idempotent => \A n \in Msgs : copies'[n] <= 1
      BY DEF LogInv, Known, TypeOK
    <3>2. ASSUME \A n \in Msgs : copies'[n] <= 1
          PROVE  logEnd' = Cardinality(Written')
      <4>1. copies[m] = 0 /\ \A n \in Msgs : copies[n] <= 1
        BY <1>3, <3>2 DEF TypeOK
      <4>2. Written \in SUBSET Msgs /\ {m} \in SUBSET Msgs /\ Written \cap {m} = {}
        BY <4>1 DEF Written
      <4>3. Cardinality(Written \cup {m}) = Cardinality(Written) + Cardinality({m})
        BY <4>2, CountTogether
      <4>4. Cardinality({m}) = 1
        BY FS_Singleton
      <4> QED BY <1>4, <4>1, <4>3, <4>4 DEF LogInv
    <3> QED BY <3>1, <3>2 DEF LogInv
  <2> QED BY <2>1, <2>2
<1>7. VerdictInv' /\ DuplicatesAreReal'
  <2>1. VerdictInv'
    BY DEF VerdictInv
  <2>2. DuplicatesAreReal'
    BY <1>3 DEF DuplicatesAreReal
  <2> QED BY <2>1, <2>2
<1> QED BY <1>1, <1>2, <1>5, <1>6, <1>7

LEMMA NextIInv == IInv /\ [Next]_vars => IInv'
<1> SUFFICES ASSUME IInv, [Next]_vars PROVE IInv'
  OBVIOUS
<1>1. CASE UNCHANGED vars
  BY <1>1 DEF IInv, vars, clientVars, mainVars, TypeOK, ClientTypeOK, TallyInv, Served,
              AnsweredInv, LogInv, Written, VerdictInv, DuplicatesAreReal
<1> QED BY <1>1, MainIInv, BackgroundIInv, LeaderIInv DEF Next

-----------------------------------------------------------------------------

\* Counters, answers, the log and the verdict stay consistent while requests
\* are delayed by the pause, lost, answered late and retried.
THEOREM Invariance == Spec => []IInv
<1> QED BY InitIInv, NextIInv, PTL DEF Spec

\* "Duplicates" (sim_idempotence.py:185-189) means that a message is in the log
\* twice, and is never printed in the round with enable.idempotence, for any
\* number of messages and retries.
THEOREM DuplicatesProved == Spec => []DuplicatesAreReal
<1>1. IInv => DuplicatesAreReal
  BY DEF IInv
<1> QED BY <1>1, Invariance, PTL

\* With idempotence, all Count messages confirmed means that each is in the log
\* exactly once, and that the round does not report anything else.
THEOREM ConfirmedProved == Spec => []ConfirmedExactlyOnce
<1>1. IInv => ConfirmedExactlyOnce
  <2> SUFFICES ASSUME IInv, idempotent, confirmed = Count
               PROVE  /\ \A m \in Msgs : copies[m] = 1
                      /\ verdict \in {"none", "deduplicated"}
    BY DEF ConfirmedExactlyOnce
  <2>1. \A m \in Msgs : copies[m] = 1
    BY AllConfirmed DEF IInv
  <2>2. verdict # "lost" /\ verdict # "duplicates"
    BY ClientAssumption DEF IInv, VerdictInv, DuplicatesAreReal
  <2> QED BY <2>1, <2>2 DEF IInv, TypeOK
<1> QED BY <1>1, Invariance, PTL
=============================================================================
