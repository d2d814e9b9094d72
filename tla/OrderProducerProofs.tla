------------------------ MODULE OrderProducerProofs -------------------------
(***************************************************************************)
(* Proofs about OrderProducer for every Count, MaxTries, QueueCap and      *)
(* PollEvery: the inductive invariant, the tallies, what a normal return   *)
(* means, when produce() can fail, and that the program with its client    *)
(* implements PublishContract.                                              *)
(***************************************************************************)
EXTENDS OrderProducer, FiniteSetTheorems, TLAPS

LEMMA MsgsFacts ==
    /\ IsFiniteSet(Msgs)
    /\ Cardinality(Msgs) = Count
    /\ \A S \in SUBSET Msgs : IsFiniteSet(S) /\ Cardinality(S) \in Nat
<1>1. IsFiniteSet(Msgs) /\ Cardinality(Msgs) = Count
  <2>1. CASE Count = 0
    <3>1. Msgs = {}
      BY <2>1 DEF Msgs
    <3> QED BY <2>1, <3>1, FS_EmptySet
  <2>2. CASE Count # 0
    <3>1. 0 \in Int /\ Count - 1 \in Int /\ 0 <= Count - 1
      BY <2>2, ClientAssumption
    <3> QED BY <3>1, FS_Interval, ClientAssumption DEF Msgs
  <2> QED BY <2>1, <2>2
<1>2. \A S \in SUBSET Msgs : IsFiniteSet(S) /\ Cardinality(S) \in Nat
  BY <1>1, FS_Subset, FS_CardinalityType
<1> QED BY <1>1, <1>2

LEMMA DisjointSum ==
    ASSUME NEW A \in SUBSET Msgs, NEW B \in SUBSET Msgs, A \cap B = {}
    PROVE  Cardinality(A \cup B) = Cardinality(A) + Cardinality(B)
<1>1. IsFiniteSet(A) /\ IsFiniteSet(B) /\ Cardinality(A) \in Nat /\ Cardinality(B) \in Nat
  BY MsgsFacts
<1>2. Cardinality(A \cap B) = 0
  BY FS_EmptySet
<1>3. Cardinality(A \cup B) = Cardinality(A) + Cardinality(B) - Cardinality(A \cap B)
  BY <1>1, FS_Union
<1> QED BY <1>1, <1>2, <1>3

\* Serving S moves the settled messages of S to the served ones and leaves
\* those served before: the tally grows by the callbacks that ran.
LEMMA TallyGrows ==
    ASSUME TypeOK, TallyInv, ResultInv, Serve(Settled), Callbacks(Settled)
    PROVE  TallyInv'
<1>1. \A r \in {"ok", "err"} :
         Cardinality(Served(r)') = Cardinality(Served(r))
                                   + Cardinality(WithResult(Settled, r))
  <2> TAKE r \in {"ok", "err"}
  <2>1. Served(r)' = Served(r) \cup WithResult(Settled, r)
    BY DEF Serve, Served, WithResult, Settled, TypeOK, ClientTypeOK
  <2>2. Served(r) \cap WithResult(Settled, r) = {}
    BY DEF Served, WithResult, Settled
  <2>3. /\ Served(r) \in SUBSET Msgs
        /\ WithResult(Settled, r) \in SUBSET Msgs
    BY DEF Served, WithResult, Settled
  <2>4. Cardinality(Served(r) \cup WithResult(Settled, r))
           = Cardinality(Served(r)) + Cardinality(WithResult(Settled, r))
    BY <2>2, <2>3, DisjointSum
  <2> QED BY <2>1, <2>4
<1> QED
  BY <1>1 DEF TallyInv, Callbacks

-----------------------------------------------------------------------------

LEMMA InitIInv == Init => IInv
<1> SUFFICES ASSUME Init PROVE IInv
  OBVIOUS
<1> USE DEF Init, ClientInit
<1>1. TypeOK
  BY ClientAssumption DEF TypeOK, ClientTypeOK, Running, Stages, Results
<1>2. WireInv
  BY DEF WireInv
<1>3. ResultInv
  BY DEF ResultInv
<1>4. TallyInv
  <2>1. Served("ok") = {} /\ Served("err") = {}
    BY DEF Served
  <2> QED BY <2>1, FS_EmptySet DEF TallyInv
<1>5. LoopInv
  BY ClientAssumption DEF LoopInv, Msgs
<1> QED BY <1>1, <1>2, <1>3, <1>4, <1>5 DEF IInv

\* A step that serves nothing leaves the tallies alone.
LEMMA TallyKept ==
    ASSUME TallyInv, Served("ok")' = Served("ok"), Served("err")' = Served("err"),
           UNCHANGED <<delivered, failed>>
    PROVE  TallyInv'
BY DEF TallyInv

\* The steps of main() preserve the invariant.
LEMMA AppIInv == IInv /\ (App \/ Interrupt) => IInv'
<1> SUFFICES ASSUME IInv, App \/ Interrupt PROVE IInv'
  OBVIOUS
<1> USE DEF IInv
<1>1. CASE Produce
  <2> USE <1>1 DEF Produce, Enqueue
  <2>0. i \in Msgs
    BY ClientAssumption DEF TypeOK, Msgs
  <2>1. TypeOK'
    BY <2>0, ClientAssumption, LoopAssumption
    DEF TypeOK, ClientTypeOK, Stages, Running
  <2>2. WireInv'
    BY DEF WireInv, TypeOK, ClientTypeOK
  <2>3. ResultInv'
    BY DEF ResultInv, TypeOK, ClientTypeOK
  <2>4. TallyInv'
    <3>1. Served("ok")' = Served("ok") /\ Served("err")' = Served("err")
      BY DEF Served, TypeOK, ClientTypeOK
    <3> QED BY <3>1, TallyKept
  <2>5. LoopInv'
    BY <2>0 DEF LoopInv, TypeOK, ClientTypeOK, Msgs
  <2> QED BY <2>1, <2>2, <2>3, <2>4, <2>5
<1>2. ASSUME Serve(Settled), Callbacks(Settled), UNCHANGED copies,
             \/ pc = "poll" /\ i' = i + 1 /\ pc' = "produce"
             \/ pc = "flush" /\ UNCHANGED <<pc, i>>
      PROVE  IInv'
  <2> USE <1>2 DEF Serve
  <2>1. TypeOK'
    <3>1. /\ Cardinality(WithResult(Settled, "ok")) \in Nat
          /\ Cardinality(WithResult(Settled, "err")) \in Nat
      BY MsgsFacts DEF WithResult, Settled
    <3>2. delivered' \in Nat /\ failed' \in Nat
      BY <3>1 DEF Callbacks, TypeOK
    <3>3. i' \in 0 .. Count
      BY ClientAssumption DEF LoopInv, TypeOK
    <3> QED BY <3>2, <3>3 DEF TypeOK, ClientTypeOK, Stages, Running
  <2>2. WireInv'
    BY DEF WireInv, TypeOK, ClientTypeOK
  <2>3. ResultInv'
    BY DEF ResultInv, Settled, TypeOK, ClientTypeOK
  <2>4. TallyInv'
    BY TallyGrows
  <2>5. LoopInv'
    <3>1. \A m \in Msgs : stage'[m] = "new" <=> stage[m] = "new"
      BY DEF Settled, TypeOK, ClientTypeOK
    <3> QED BY <3>1 DEF LoopInv, TypeOK, ClientTypeOK, Msgs
  <2> QED BY <2>1, <2>2, <2>3, <2>4, <2>5
<1>3. CASE Poll
  BY <1>2, <1>3 DEF Poll
<1>4. CASE FlushServe
  BY <1>2, <1>4 DEF FlushServe
<1>5. CASE RegistryError \/ BufferError \/ EndLoop \/ FlushReturn \/ Interrupt
  <2> USE <1>5 DEF RegistryError, BufferError, EndLoop, FlushReturn, Interrupt,
                   clientVars
  <2>1. TypeOK'
    BY DEF TypeOK, ClientTypeOK, Running, Died
  <2>2. WireInv'
    BY DEF WireInv
  <2>3. ResultInv'
    BY DEF ResultInv
  <2>4. TallyInv'
    BY TallyKept DEF Served
  <2>5. LoopInv'
    BY ClientAssumption DEF LoopInv, Outstanding, TypeOK, Msgs, Running
  <2> QED BY <2>1, <2>2, <2>3, <2>4, <2>5
<1> QED BY <1>1, <1>3, <1>4, <1>5 DEF App

\* The client's threads, the network and the broker preserve the invariant.
LEMMA BackgroundIInv ==
    ASSUME IInv, NEW m \in Msgs, NEW k \in Tries,
           Background(m) \/ BrokerAppend(m, k) \/ NetworkLoss(m, k)
    PROVE  IInv'
<1> USE DEF IInv
\* None of these steps serves a message or moves the loop.
<1>0. /\ UNCHANGED <<pc, i, delivered, failed>>
      /\ Served("ok")' = Served("ok") /\ Served("err")' = Served("err")
      /\ \A n \in Msgs : stage'[n] = "new" <=> stage[n] = "new"
      /\ Outstanding' = Outstanding
  <2>1. CASE Background(m)
    BY <2>1 DEF Background, appVars, Transmit, RequestTimeout, MessageTimeout,
                AckArrives, Settle, Served, Outstanding, TypeOK, ClientTypeOK
  <2>2. CASE BrokerAppend(m, k) \/ NetworkLoss(m, k)
    BY <2>2 DEF BrokerAppend, NetworkLoss, Answer, LoseRequest, LoseAck, appVars,
                Served, Outstanding
  <2> QED BY <2>1, <2>2
<1>1. TallyInv'
  BY <1>0, TallyKept
<1>2. LoopInv'
  BY <1>0 DEF LoopInv
<1>3. CASE Background(m)
  <2> USE <1>3, <1>0 DEF Background, appVars
  <2>1. CASE Transmit(m)
    <3> USE <2>1 DEF Transmit
    <3>1. TypeOK'
      BY ClientAssumption DEF TypeOK, ClientTypeOK, Stages, Tries
    <3>2. WireInv'
      BY DEF WireInv, TypeOK, ClientTypeOK
    <3>3. ResultInv'
      BY DEF ResultInv, TypeOK, ClientTypeOK
    <3> QED BY <3>1, <3>2, <3>3, <1>1, <1>2
  <2>2. CASE RequestTimeout(m) \/ MessageTimeout(m)
    <3> USE <2>2 DEF RequestTimeout, MessageTimeout, Settle
    <3>1. TypeOK'
      BY DEF TypeOK, ClientTypeOK, Stages, Results
    <3>2. WireInv'
      BY DEF WireInv, TypeOK, ClientTypeOK
    <3>3. ResultInv'
      BY DEF ResultInv, TypeOK, ClientTypeOK, Results
    <3> QED BY <3>1, <3>2, <3>3, <1>1, <1>2
  <2>3. ASSUME NEW j \in Tries, AckArrives(m, j) PROVE IInv'
    <3> USE <2>3 DEF AckArrives, Settle
    <3>1. TypeOK'
      BY DEF TypeOK, ClientTypeOK, Stages, Results
    <3>2. WireInv'
      BY DEF WireInv, TypeOK, ClientTypeOK
    <3>3. ResultInv'
      BY DEF ResultInv, WireInv, TypeOK, ClientTypeOK, Results
    <3> QED BY <3>1, <3>2, <3>3, <1>1, <1>2
  <2> QED BY <2>1, <2>2, <2>3
<1>4. CASE BrokerAppend(m, k)
  <2> USE <1>4 DEF BrokerAppend, Answer
  <2>1. TypeOK'
    BY <1>0 DEF TypeOK, ClientTypeOK
  <2>2. WireInv'
    BY DEF WireInv, TypeOK, ClientTypeOK
  <2>3. ResultInv'
    BY DEF ResultInv, WireInv, TypeOK, ClientTypeOK
  <2> QED BY <2>1, <2>2, <2>3, <1>1, <1>2
<1>5. CASE NetworkLoss(m, k)
  <2> USE <1>5 DEF NetworkLoss, LoseRequest, LoseAck
  <2>1. TypeOK'
    BY <1>0 DEF TypeOK, ClientTypeOK
  <2>2. WireInv'
    BY DEF WireInv, TypeOK, ClientTypeOK
  <2>3. ResultInv'
    BY DEF ResultInv
  <2> QED BY <2>1, <2>2, <2>3, <1>1, <1>2
<1> QED BY <1>3, <1>4, <1>5

LEMMA NextIInv == IInv /\ [Next]_vars => IInv'
<1> SUFFICES ASSUME IInv, [Next]_vars PROVE IInv'
  OBVIOUS
<1>1. CASE App \/ Interrupt
  BY <1>1, AppIInv
<1>2. ASSUME NEW m \in Msgs, Background(m) PROVE IInv'
  <2>1. 1 \in Tries
    BY ClientAssumption DEF Tries
  <2> QED BY <1>2, <2>1, BackgroundIInv
<1>3. ASSUME NEW m \in Msgs, NEW k \in Tries, BrokerAppend(m, k) \/ NetworkLoss(m, k)
      PROVE IInv'
  BY <1>3, BackgroundIInv
<1>4. CASE UNCHANGED vars
  BY <1>4 DEF IInv, vars, clientVars, appVars, TypeOK, ClientTypeOK, WireInv,
              ResultInv, TallyInv, Served, LoopInv, Outstanding
<1> QED BY <1>1, <1>2, <1>3, <1>4 DEF Next

\* The inductive invariant holds in every reachable state: main()'s counters,
\* the client's queue and the broker's log stay consistent.
THEOREM Invariance == Spec => []IInv
<1>1. Init => IInv
  BY InitIInv
<1>2. IInv /\ [Next]_vars => IInv'
  BY NextIInv
<1> QED BY <1>1, <1>2, PTL DEF Spec

\* Type correctness of the program, its client and the log.
THEOREM TypeCorrect == Spec => []TypeOK
<1>1. IInv => TypeOK
  BY DEF IInv
<1> QED BY <1>1, Invariance, PTL

\* The delivered count main() keeps (payment_producer.py:66-75) never exceeds
\* the number of messages that are in the log.
THEOREM DeliveredHonest == Spec => []DeliveredIsDurable
<1>1. IInv => DeliveredIsDurable
  <2> SUFFICES ASSUME IInv PROVE DeliveredIsDurable
    OBVIOUS
  <2>1. Served("ok") \in SUBSET Durable /\ Durable \in SUBSET Msgs
    BY DEF IInv, ResultInv, Served, Durable
  <2>2. Cardinality(Served("ok")) <= Cardinality(Durable)
    BY <2>1, MsgsFacts, FS_Subset
  <2> QED BY <2>2 DEF IInv, TallyInv, DeliveredIsDurable
<1> QED BY <1>1, Invariance, PTL

\* Accounting of the accepted messages, used by the next three theorems.
LEMMA Accounting ==
    IInv => delivered + failed + Cardinality(Outstanding) = Cardinality(Accepted)
<1> SUFFICES ASSUME IInv
             PROVE  delivered + failed + Cardinality(Outstanding) = Cardinality(Accepted)
  OBVIOUS
<1> USE DEF IInv
<1>1. /\ Accepted = (Served("ok") \cup Served("err")) \cup Outstanding
      /\ (Served("ok") \cup Served("err")) \cap Outstanding = {}
      /\ Served("ok") \cap Served("err") = {}
  BY DEF Accepted, Served, Outstanding, ResultInv, TypeOK, ClientTypeOK, Stages, Results
<1>2. /\ Served("ok") \in SUBSET Msgs
      /\ Served("err") \in SUBSET Msgs
      /\ Served("ok") \cup Served("err") \in SUBSET Msgs
      /\ Outstanding \in SUBSET Msgs
  BY DEF Served, Outstanding
<1>3. Cardinality(Served("ok") \cup Served("err"))
         = Cardinality(Served("ok")) + Cardinality(Served("err"))
  BY <1>1, <1>2, DisjointSum
<1>4. Cardinality(Accepted)
         = Cardinality(Served("ok") \cup Served("err")) + Cardinality(Outstanding)
  BY <1>1, <1>2, DisjointSum
<1> QED BY <1>3, <1>4 DEF TallyInv

\* Every accepted message is outstanding or was reported exactly once.
THEOREM ReportedExactlyOnce == Spec => []ReportedOnce
<1>1. IInv => ReportedOnce
  BY Accounting DEF ReportedOnce
<1> QED BY <1>1, Invariance, PTL

\* A normal return has heard of all Count messages (producer.py:74-75,
\* payment_producer.py:88-89).
THEOREM ReturnIsSettled == Spec => []ExitSettled
<1>1. IInv => ExitSettled
  <2> SUFFICES ASSUME IInv, pc = "exited"
               PROVE  Outstanding = {} /\ delivered + failed = Count
    BY DEF ExitSettled
  <2>1. Outstanding = {} /\ Accepted = Msgs
    BY DEF IInv, LoopInv, Accepted
  <2>2. delivered \in Nat /\ failed \in Nat
    BY DEF IInv, TypeOK
  <2> QED BY <2>1, <2>2, Accounting, MsgsFacts, FS_EmptySet
<1> QED BY <1>1, Invariance, PTL

\* A batch no larger than the client's queue never meets BufferError: with
\* COUNT = 100 and the default of 100000 messages, services/producer.py
\* cannot die in produce() whatever the broker does.
THEOREM SmallBatchNeverFull ==
    ASSUME Count <= QueueCap
    PROVE  Spec => [](pc # "buffer_error")
<1>1. Init => pc # "buffer_error"
  BY DEF Init
<1>2. IInv /\ pc # "buffer_error" /\ [Next]_vars => (pc # "buffer_error")'
  <2> SUFFICES ASSUME IInv, pc # "buffer_error", [Next]_vars, pc' = "buffer_error"
               PROVE  FALSE
    OBVIOUS
  <2>1. BufferError
    BY DEF Next, App, RegistryError, Produce, Poll, EndLoop, FlushServe, FlushReturn,
           Interrupt, Background, BrokerAppend, NetworkLoss, appVars, vars
  <2>2. i \in Msgs /\ i \notin Outstanding
    BY <2>1, ClientAssumption DEF BufferError, IInv, LoopInv, TypeOK, Msgs, Outstanding
  <2>3. Outstanding \in SUBSET Msgs
    BY DEF Outstanding
  <2>4. Cardinality(Outstanding) < Count
    BY <2>2, <2>3, MsgsFacts, FS_Subset
  <2> QED BY <2>1, <2>4, MsgsFacts, <2>3, ClientAssumption DEF BufferError, HasRoom
<1> QED BY <1>1, <1>2, Invariance, PTL DEF Spec

\* Only produce() adds to the queue, and only where there is room.
LEMMA FullNext == IInv /\ FullInv /\ [Next]_vars => FullInv'
<1> SUFFICES ASSUME IInv, FullInv, [Next]_vars PROVE FullInv'
  OBVIOUS
<1> USE DEF IInv
<1>1. Outstanding \in SUBSET Msgs /\ Outstanding' \in SUBSET Msgs
  BY DEF Outstanding, Msgs
<1>2. CASE Produce
  <2>1. /\ i \in Msgs /\ stage[i] = "new" /\ stage' = [stage EXCEPT ![i] = "queued"]
        /\ pc' \in {"poll", "produce"} /\ Cardinality(Outstanding) < QueueCap
    BY <1>2, ClientAssumption DEF Produce, Enqueue, HasRoom, TypeOK, Msgs
  <2>2. i \notin Outstanding /\ Outstanding' = Outstanding \cup {i}
    BY <2>1 DEF Outstanding, TypeOK, ClientTypeOK
  <2>3. Cardinality(Outstanding') = Cardinality(Outstanding) + 1
    BY <1>1, <2>2, MsgsFacts, FS_AddElement
  <2>4. Cardinality(Outstanding) \in Nat
    BY <1>1, MsgsFacts
  <2> QED BY <2>1, <2>3, <2>4, ClientAssumption DEF FullInv
<1>3. ASSUME Outstanding' \subseteq Outstanding PROVE Cardinality(Outstanding') <= QueueCap
  <2>1. /\ Cardinality(Outstanding') <= Cardinality(Outstanding)
        /\ Cardinality(Outstanding') \in Nat /\ Cardinality(Outstanding) \in Nat
    BY <1>1, <1>3, MsgsFacts, FS_Subset
  <2> QED BY <2>1, ClientAssumption DEF FullInv
<1>4. CASE Poll \/ FlushServe
  <2>1. Outstanding' \subseteq Outstanding /\ pc' # "buffer_error"
    BY <1>4 DEF Poll, FlushServe, Serve, Outstanding
  <2> QED BY <1>3, <2>1 DEF FullInv
<1>5. ASSUME NEW m \in Msgs, Background(m) PROVE FullInv'
  <2>1. pc # "buffer_error" /\ pc' = pc
    BY <1>5 DEF Background, Running, appVars
  <2>2. \/ UNCHANGED stage
        \/ /\ stage[m] \in {"queued", "inflight"}
           /\ \E s \in {"queued", "inflight", "settled"} : stage' = [stage EXCEPT ![m] = s]
    <3>1. CASE Transmit(m)
      BY <3>1 DEF Transmit
    <3>2. CASE RequestTimeout(m) \/ MessageTimeout(m)
      BY <3>2 DEF RequestTimeout, MessageTimeout, Settle
    <3>3. ASSUME NEW k \in Tries, AckArrives(m, k)
          PROVE  \/ UNCHANGED stage
                 \/ stage[m] = "inflight" /\ stage' = [stage EXCEPT ![m] = "settled"]
      BY <3>3 DEF AckArrives, Settle
    <3> QED BY <1>5, <3>1, <3>2, <3>3 DEF Background
  <2>3. Outstanding' \subseteq Outstanding
    BY <2>2 DEF Outstanding, TypeOK, ClientTypeOK
  <2> QED BY <1>3, <2>1, <2>3 DEF FullInv
<1>6. CASE BufferError
  <2>1. /\ pc = "produce" /\ UNCHANGED <<stage, i>>
        /\ ~(Cardinality(Outstanding) < QueueCap)
    BY <1>6 DEF BufferError, HasRoom, clientVars
  <2>2. Outstanding' = Outstanding /\ Cardinality(Outstanding) \in Nat
    BY <1>1, <2>1, MsgsFacts DEF Outstanding
  <2>3. Cardinality(Outstanding) = QueueCap
    BY <2>1, <2>2, ClientAssumption DEF FullInv
  <2>4. \A m \in Msgs : stage[m] = "new" <=> m >= i
    BY <2>1 DEF LoopInv
  <2> QED BY <2>1, <2>2, <2>3, <2>4, ClientAssumption DEF FullInv
<1>7. CASE \/ RegistryError \/ EndLoop \/ FlushReturn \/ Interrupt
           \/ (\E m \in Msgs, k \in Tries : BrokerAppend(m, k) \/ NetworkLoss(m, k))
           \/ UNCHANGED vars
  <2>1. stage' = stage /\ (pc' = "buffer_error" => pc = "buffer_error" /\ i' = i)
    BY <1>7 DEF RegistryError, EndLoop, FlushReturn, Interrupt, BrokerAppend, Answer,
                NetworkLoss, LoseRequest, LoseAck, clientVars, appVars, vars
  <2>2. Outstanding' = Outstanding
    BY <2>1 DEF Outstanding
  <2> QED BY <2>1, <2>2 DEF FullInv
<1> QED BY <1>2, <1>4, <1>5, <1>6, <1>7 DEF Next, App

\* A BufferError abandons a queue full of messages, whatever was answered,
\* retried and polled before it, and no message after the one that did not fit
\* is in the log (producer.py:63-68, payment_producer.py:79-84).
THEOREM AbandonedProved == Spec => []AbandonsFullQueue
<1>1. Init => FullInv
  <2> SUFFICES ASSUME Init PROVE FullInv
    OBVIOUS
  <2>1. Outstanding = {} /\ pc = "produce"
    BY DEF Init, ClientInit, Outstanding
  <2> QED BY <2>1, FS_EmptySet, ClientAssumption DEF FullInv
<1>2. IInv /\ FullInv => AbandonsFullQueue
  <2> SUFFICES ASSUME IInv, FullInv, pc = "buffer_error"
               PROVE  /\ delivered + failed + QueueCap = i
                      /\ \A m \in Durable : m < i
    BY DEF AbandonsFullQueue
  <2> USE DEF IInv
  <2>1. i \in 0 .. Count /\ \A m \in Msgs : m \in Nat /\ (stage[m] = "new" <=> m >= i)
    BY ClientAssumption DEF FullInv, TypeOK, Msgs
  <2>2. Cardinality(Accepted) = i
    <3>1. Accepted = 0 .. i - 1
      BY <2>1, ClientAssumption DEF Accepted, Msgs
    <3>2. CASE i = 0
      <4>1. Accepted = {}
        BY <3>1, <3>2
      <4> QED BY <3>2, <4>1, FS_EmptySet
    <3>3. CASE i # 0
      <4>1. 0 \in Int /\ i - 1 \in Int /\ 0 <= i - 1
        BY <2>1, <3>3
      <4>2. Cardinality(0 .. i - 1) = (i - 1) - 0 + 1
        BY <4>1, FS_Interval
      <4> QED BY <2>1, <3>1, <4>2
    <3> QED BY <3>2, <3>3
  <2>3. \A m \in Durable : m < i
    BY <2>1 DEF Durable, ResultInv
  <2> QED BY <2>2, <2>3, Accounting DEF FullInv
<1> QED BY <1>1, <1>2, FullNext, Invariance, PTL DEF Spec

-----------------------------------------------------------------------------
(* Why flush() returns: what Terminates says without fairness.              *)

\* How far a message is from its callback: two steps for every attempt left.
Rank(m) ==
    LET ahead == 2 * (MaxTries - tries[m])
    IN CASE stage[m] = "new"      -> 2 * MaxTries + 4
         [] stage[m] = "inflight" -> ahead + 3
         [] stage[m] = "queued"   -> ahead + 2
         [] stage[m] = "settled"  -> 1
         [] stage[m] = "served"   -> 0

\* A message that moves comes closer to its callback, whichever of produce(),
\* the client's threads, a timeout or an answer moves it.
Closer ==
    \A m \in Msgs : IF stage'[m] = stage[m] THEN Rank(m)' = Rank(m)
                                            ELSE Rank(m)' < Rank(m)

LEMMA RankSame ==
    ASSUME NEW m \in Msgs, stage'[m] = stage[m], tries'[m] = tries[m]
    PROVE  Rank(m)' = Rank(m)
BY DEF Rank

\* The stages of a message, each below the one before.
LEMMA RankValues ==
    ASSUME ClientTypeOK, NEW m \in Msgs
    PROVE  /\ stage[m] = "new" => Rank(m) = 2 * MaxTries + 4
           /\ stage[m] = "inflight" => Rank(m) = 2 * (MaxTries - tries[m]) + 3
           /\ stage[m] = "queued" => Rank(m) = 2 * (MaxTries - tries[m]) + 2
           /\ stage[m] = "settled" => Rank(m) = 1
           /\ stage[m] = "served" => Rank(m) = 0
BY DEF Rank

\* One message changes its stage.
LEMMA RankMoved ==
    ASSUME TypeOK, TypeOK', NEW m \in Msgs, NEW s \in Stages,
           stage' = [stage EXCEPT ![m] = s],
           \A n \in Msgs \ {m} : tries'[n] = tries[n],
           \/ stage[m] = "new" /\ s = "queued"
           \/ stage[m] = "queued" /\ s = "inflight" /\ tries'[m] = tries[m] + 1
           \/ stage[m] = "inflight" /\ s = "queued" /\ tries'[m] = tries[m]
           \/ stage[m] \in {"queued", "inflight"} /\ s = "settled"
    PROVE  Closer
<1>1. /\ \A n \in Msgs \ {m} : stage'[n] = stage[n]
      /\ stage'[m] = s
  BY DEF TypeOK, ClientTypeOK
<1>2. \A n \in Msgs \ {m} : Rank(n)' = Rank(n)
  BY <1>1, RankSame
<1>3. tries[m] \in 0 .. MaxTries /\ tries'[m] \in 0 .. MaxTries /\ MaxTries \in Nat
  BY ClientAssumption DEF TypeOK, ClientTypeOK
<1>4. /\ s = "queued" => Rank(m)' = 2 * (MaxTries - tries'[m]) + 2
      /\ s = "inflight" => Rank(m)' = 2 * (MaxTries - tries'[m]) + 3
      /\ s = "settled" => Rank(m)' = 1
  BY <1>1 DEF Rank
<1>5. Rank(m)' < Rank(m)
  BY <1>3, <1>4, RankValues DEF TypeOK
<1> QED BY <1>1, <1>2, <1>5 DEF Closer

LEMMA RankServed ==
    ASSUME TypeOK, Serve(Settled)
    PROVE  Closer
<1> SUFFICES ASSUME NEW m \in Msgs
             PROVE  IF stage'[m] = stage[m] THEN Rank(m)' = Rank(m)
                                            ELSE Rank(m)' < Rank(m)
  BY DEF Closer
<1>1. CASE m \in Settled
  <2>1. stage[m] = "settled" /\ stage'[m] = "served"
    BY <1>1 DEF Settled, Serve
  <2>2. Rank(m) = 1
    BY <2>1 DEF Rank
  <2>3. Rank(m)' = 0
    BY <2>1 DEF Rank
  <2> QED BY <2>1, <2>2, <2>3
<1>2. CASE m \notin Settled
  <2>1. stage'[m] = stage[m] /\ tries' = tries
    BY <1>2 DEF Serve
  <2> QED BY <2>1, RankSame
<1> QED BY <1>1, <1>2

LEMMA RankStep == IInv /\ IInv' /\ [Next]_vars => Closer
<1> SUFFICES ASSUME IInv, IInv', [Next]_vars PROVE Closer
  OBVIOUS
<1>0. TypeOK /\ TypeOK'
  BY DEF IInv
<1>1. CASE UNCHANGED <<stage, tries>>
  BY <1>1, RankSame DEF Closer
<1>2. CASE Produce
  <2>1. i \in Msgs /\ stage[i] = "new" /\ stage' = [stage EXCEPT ![i] = "queued"]
    BY <1>0, <1>2, ClientAssumption DEF Produce, Enqueue, TypeOK, Msgs
  <2>2. tries' = tries
    BY <1>2 DEF Produce, Enqueue
  <2> QED BY <1>0, <2>1, <2>2, RankMoved DEF Stages
<1>3. CASE Poll \/ FlushServe
  BY <1>0, <1>3, RankServed DEF Poll, FlushServe
<1>4. ASSUME NEW m \in Msgs, Transmit(m) PROVE Closer
  <2>1. /\ stage[m] = "queued" /\ stage' = [stage EXCEPT ![m] = "inflight"]
        /\ tries' = [tries EXCEPT ![m] = @ + 1]
    BY <1>4 DEF Transmit
  <2>2. tries'[m] = tries[m] + 1 /\ \A n \in Msgs \ {m} : tries'[n] = tries[n]
    BY <1>0, <2>1 DEF TypeOK, ClientTypeOK
  <2> QED BY <1>0, <2>1, <2>2, RankMoved DEF Stages
<1>5. ASSUME NEW m \in Msgs, RequestTimeout(m) \/ MessageTimeout(m) PROVE Closer
  <2>1. /\ tries' = tries
        /\ \/ stage[m] = "inflight" /\ stage' = [stage EXCEPT ![m] = "queued"]
           \/ stage[m] \in {"queued", "inflight"} /\ stage' = [stage EXCEPT ![m] = "settled"]
    BY <1>5 DEF RequestTimeout, MessageTimeout, Settle
  <2> QED BY <1>0, <2>1, RankMoved DEF Stages
<1>6. ASSUME NEW m \in Msgs, NEW k \in Tries, AckArrives(m, k) PROVE Closer
  <2>1. /\ tries' = tries
        /\ \/ UNCHANGED stage
           \/ stage[m] = "inflight" /\ stage' = [stage EXCEPT ![m] = "settled"]
    BY <1>6 DEF AckArrives, Settle
  <2> QED BY <1>0, <1>1, <2>1, RankMoved DEF Stages
<1>7. ASSUME NEW m \in Msgs, Background(m) PROVE Closer
  BY <1>4, <1>5, <1>6, <1>7 DEF Background
<1>8. CASE RegistryError \/ BufferError \/ EndLoop \/ FlushReturn \/ Interrupt
           \/ (\E m \in Msgs, k \in Tries : BrokerAppend(m, k) \/ NetworkLoss(m, k))
           \/ UNCHANGED vars
  BY <1>1, <1>8 DEF RegistryError, BufferError, EndLoop, FlushReturn, Interrupt, BrokerAppend,
                    Answer, NetworkLoss, LoseRequest, LoseAck, clientVars, vars
<1> QED BY <1>2, <1>3, <1>7, <1>8 DEF Next, App

\* However requests and answers are lost, delayed and retried, a message that
\* was handed to produce() only comes closer to its callback: it is sent, timed
\* out and settled a bounded number of times, which is what flush() waits for.
THEOREM RetriesRunOut == Spec => [][Closer]_vars
<1>1. IInv /\ IInv' /\ [Next]_vars => [Closer]_vars
  BY RankStep
<1> QED BY <1>1, Invariance, PTL DEF Spec

-----------------------------------------------------------------------------
(* The refinement of PublishContract.                                       *)

LEMMA StatusFacts ==
    ASSUME IInv, NEW m \in Msgs
    PROVE  /\ Status(m) = "idle" <=> stage[m] = "new"
           /\ Status(m) = "pending" <=> m \in Outstanding
           /\ Status(m) = "delivered" <=> m \in Served("ok")
           /\ Status(m) = "failed" <=> m \in Served("err")
BY DEF Status, IInv, Outstanding, Served, ResultInv, TypeOK, ClientTypeOK, Stages, Results

\* The broker may append a message again and the contract does not notice.
LEMMA PersistStep ==
    ASSUME IInv, NEW m \in Msgs, NEW k \in Tries, BrokerAppend(m, k)
    PROVE  Contract!Persist(m)
<1> USE DEF BrokerAppend, Answer, appVars
<1>1. Status(m) # "idle"
  BY StatusFacts DEF IInv, WireInv
<1>2. Durable' = Durable \cup {m}
  BY DEF Durable, IInv, TypeOK
<1>3. UNCHANGED <<[n \in Msgs |-> Status(n)], Outcome>>
  BY DEF Status, Outcome
<1> QED BY <1>1, <1>2, <1>3 DEF Contract!Persist

\* poll() and flush() report the settled messages in one contract step.
LEMMA ReportStep ==
    ASSUME IInv, Serve(Settled), UNCHANGED copies,
           pc \in Running, pc' \in Running
    PROVE  \E D \in SUBSET (Contract!Pending \cap Durable) :
               \E F \in SUBSET (Contract!Pending \ D) : Contract!Report(D, F)
<1> DEFINE D == WithResult(Settled, "ok")
           F == WithResult(Settled, "err")
<1> USE DEF IInv
<1>1. Contract!Pending = Outstanding
  BY StatusFacts DEF Contract!Pending, Outstanding
<1>2. D \in SUBSET (Contract!Pending \cap Durable)
  BY <1>1 DEF WithResult, Settled, Outstanding, ResultInv, Durable
<1>3. F \in SUBSET (Contract!Pending \ D)
  BY <1>1 DEF WithResult, Settled, Outstanding
<1>4. Outcome = "running" /\ UNCHANGED <<Durable, Outcome>>
  BY DEF Outcome, Durable, Running, Died
<1>5. \A m \in Msgs : Status(m)' = IF m \in D THEN "delivered"
                                  ELSE IF m \in F THEN "failed" ELSE Status(m)
  <2> TAKE m \in Msgs
  <2>1. CASE m \in Settled
    BY <2>1 DEF Status, Serve, WithResult, Settled, ResultInv, TypeOK, ClientTypeOK,
                Results
  <2>2. CASE m \notin Settled
    BY <2>2 DEF Status, Serve, WithResult, Settled
  <2> QED BY <2>1, <2>2
<1>6. Contract!Report(D, F)
  BY <1>4, <1>5 DEF Contract!Report
<1> QED BY <1>2, <1>3, <1>6

LEMMA ContractStep == IInv /\ [Next]_vars => [Contract!Next]_(Contract!vars)
<1> SUFFICES ASSUME IInv, [Next]_vars PROVE [Contract!Next]_(Contract!vars)
  OBVIOUS
<1> USE DEF Contract!Next, Contract!vars
<1>1. CASE Produce
  <2> USE <1>1 DEF Produce, Enqueue
  <2>1. i \in Msgs
    BY ClientAssumption DEF IInv, TypeOK, Msgs
  <2>2. Contract!Accept(i)
    <3>1. Outcome = "running" /\ UNCHANGED <<Durable, Outcome>>
      BY DEF Outcome, Running, Died, Durable
    <3>2. Status(i) = "idle"
      BY DEF Status
    <3>3. \A m \in Msgs : Status(m)' = IF m = i THEN "pending" ELSE Status(m)
      BY <2>1 DEF Status, IInv, TypeOK, ClientTypeOK
    <3> QED BY <2>1, <3>1, <3>2, <3>3 DEF Contract!Accept
  <2> QED BY <2>1, <2>2
<1>2. CASE Poll \/ FlushServe
  <2>1. /\ Serve(Settled) /\ UNCHANGED copies
        /\ pc \in Running /\ pc' \in Running
    BY <1>2 DEF Poll, FlushServe, Running
  <2> QED BY <2>1, ReportStep
<1>3. CASE FlushReturn
  <2>1. Contract!Pending = {}
    BY <1>3, StatusFacts DEF Contract!Pending, FlushReturn
  <2>2. Outcome = "running" /\ Outcome' = "returned"
    BY <1>3 DEF FlushReturn, Outcome, Running, Died
  <2>3. UNCHANGED <<[m \in Msgs |-> Status(m)], Durable>>
    BY <1>3 DEF FlushReturn, clientVars, Status, Durable
  <2> QED BY <2>1, <2>2, <2>3 DEF Contract!Return
<1>4. CASE RegistryError \/ BufferError \/ Interrupt
  <2>1. Outcome = "running" /\ Outcome' = "died"
    BY <1>4 DEF RegistryError, BufferError, Interrupt, Outcome, Running, Died
  <2>2. UNCHANGED <<[m \in Msgs |-> Status(m)], Durable>>
    BY <1>4 DEF RegistryError, BufferError, Interrupt, clientVars, Status, Durable
  <2> QED BY <2>1, <2>2 DEF Contract!Die
<1>5. CASE EndLoop
  <2>1. UNCHANGED Outcome
    BY <1>5 DEF EndLoop, Outcome, Running, Died
  <2>2. UNCHANGED <<[m \in Msgs |-> Status(m)], Durable>>
    BY <1>5 DEF EndLoop, clientVars, Status, Durable
  <2> QED BY <2>1, <2>2
<1>6. ASSUME NEW m \in Msgs, Background(m)
      PROVE  UNCHANGED Contract!vars
  <2>1. UNCHANGED <<Durable, Outcome>>
    BY <1>6 DEF Background, appVars, Durable, Outcome
  <2>2. \A n \in Msgs : Status(n)' = Status(n)
    BY <1>6 DEF Background, Transmit, RequestTimeout, MessageTimeout, AckArrives,
                Settle, Status, IInv, TypeOK, ClientTypeOK, Stages
  <2> QED BY <2>1, <2>2
<1>7. ASSUME NEW m \in Msgs, NEW k \in Tries, BrokerAppend(m, k)
      PROVE  Contract!Persist(m)
  BY <1>7, PersistStep
<1>8. ASSUME NEW m \in Msgs, NEW k \in Tries, NetworkLoss(m, k)
      PROVE  UNCHANGED Contract!vars
  BY <1>8 DEF NetworkLoss, LoseRequest, LoseAck, appVars, Status, Durable, Outcome
<1>9. CASE UNCHANGED vars
  BY <1>9 DEF vars, clientVars, appVars, Status, Durable, Outcome
<1> QED BY <1>1, <1>2, <1>3, <1>4, <1>5, <1>6, <1>7, <1>8, <1>9 DEF Next, App

\* The program with its client, network and broker implements the contract.
THEOREM Refinement == Spec => ImplementsContract
<1>1. Init => Contract!Init
  BY DEF Init, ClientInit, Contract!Init, Status, Durable, Outcome, Running, Died
<1>2. IInv /\ [Next]_vars => [Contract!Next]_(Contract!vars)
  BY ContractStep
<1> QED BY <1>1, <1>2, Invariance, PTL DEF Spec, Contract!Spec, ImplementsContract
=============================================================================
