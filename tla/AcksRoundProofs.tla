--------------------------- MODULE AcksRoundProofs --------------------------
(***************************************************************************)
(* Proofs about AcksRound for every Count and every finite set of brokers: *)
(* what acks = all confirms survives the crash of the leader, and a gap    *)
(* that the round reports is a loss.                                        *)
(***************************************************************************)
EXTENDS AcksRound, FiniteSetTheorems, TLAPS

LEMMA MsgsFacts ==
    /\ IsFiniteSet(Msgs)
    /\ Cardinality(Msgs) = Count
    /\ \A S \in SUBSET Msgs : IsFiniteSet(S) /\ Cardinality(S) \in 0 .. Count
<1>1. IsFiniteSet(Msgs) /\ Cardinality(Msgs) = Count
  <2>1. CASE Count = 0
    <3>1. Msgs = {}
      BY <2>1 DEF Msgs
    <3> QED BY <2>1, <3>1, FS_EmptySet
  <2>2. CASE Count # 0
    <3>1. 0 \in Int /\ Count - 1 \in Int /\ 0 <= Count - 1
      BY <2>2, ClientAssumption
    <3> QED BY <3>1, FS_Interval, ClientAssumption DEF Msgs
  <2> QED BY <2>1, <2>2
<1>2. ASSUME NEW S \in SUBSET Msgs
      PROVE  IsFiniteSet(S) /\ Cardinality(S) \in 0 .. Count
  <2>1. IsFiniteSet(S) /\ Cardinality(S) <= Count
    BY <1>1, FS_Subset
  <2>2. Cardinality(S) \in Nat
    BY <2>1, FS_CardinalityType
  <2> QED BY <2>1, <2>2, ClientAssumption
<1> QED BY <1>1, <1>2

LEMMA OneTry == Tries = {1} /\ 1 \in Tries
BY ClusterAssumption DEF Tries

-----------------------------------------------------------------------------
(* Majorities of the brokers.                                               *)

LEMMA BrokerSets ==
    ASSUME NEW S \in SUBSET Brokers
    PROVE  IsFiniteSet(S) /\ Cardinality(S) \in Nat
BY ClusterAssumption, FS_Subset, FS_CardinalityType

\* A set that contains a majority is one.
LEMMA MajorityGrows ==
    ASSUME NEW S \in SUBSET Brokers, NEW T \in SUBSET Brokers, S \subseteq T,
           IsMajority(S)
    PROVE  IsMajority(T)
<1>1. Cardinality(S) <= Cardinality(T)
  BY BrokerSets, FS_Subset
<1>2. Cardinality(Brokers) \in Nat
  BY ClusterAssumption, FS_CardinalityType
<1> QED BY <1>1, <1>2, BrokerSets DEF IsMajority

\* Two majorities share a broker: the step from "answered" to "survives".
LEMMA MajoritiesMeet ==
    ASSUME NEW S \in SUBSET Brokers, NEW T \in SUBSET Brokers,
           IsMajority(S), IsMajority(T)
    PROVE  S \cap T # {}
<1> SUFFICES ASSUME S \cap T = {} PROVE FALSE
  OBVIOUS
<1>1. Cardinality(S \cup T) = Cardinality(S) + Cardinality(T) - Cardinality(S \cap T)
  BY BrokerSets, FS_Union
<1>2. Cardinality(S \cap T) = 0
  BY FS_EmptySet
<1>3. Cardinality(S \cup T) <= Cardinality(Brokers)
  <2>1. S \cup T \subseteq Brokers
    OBVIOUS
  <2> QED BY <2>1, ClusterAssumption, FS_Subset
<1>4. Cardinality(Brokers) \in Nat
  BY ClusterAssumption, FS_CardinalityType
<1> QED BY <1>1, <1>2, <1>3, <1>4, BrokerSets DEF IsMajority

-----------------------------------------------------------------------------

LEMMA InitIInv == Init => IInv
<1> SUFFICES ASSUME Init PROVE IInv
  OBVIOUS
<1> USE DEF Init, ClientInit
<1>1. TypeOK
  <2>1. ClientTypeOK
    BY ClientAssumption DEF ClientTypeOK, Stages, Results
  <2>2. leader \in Brokers \cup {NoBroker} /\ alive \subseteq Brokers
    BY ClusterAssumption
  <2>3. rep \in [Brokers -> SUBSET Msgs] /\ waiting \subseteq Msgs
    OBVIOUS
  <2>4. i \in 0 .. Count /\ confirmed \in 0 .. Count /\ reported \in 0 .. Count
    BY ClientAssumption
  <2> QED BY <2>1, <2>2, <2>3, <2>4 DEF TypeOK
<1>2. OnceInv /\ WaitingInv /\ AnsweredInv
  BY DEF OnceInv, WaitingInv, AnsweredInv
<1>3. TallyInv
  <2>1. Confirmed = {}
    BY DEF Confirmed, Acked
  <2> QED BY <2>1, FS_EmptySet DEF TallyInv
<1>4. StageInv /\ GapIsLoss
  BY ClusterAssumption DEF StageInv, GapIsLoss
<1> QED BY <1>1, <1>2, <1>3, <1>4 DEF IInv

\* What depends on the client only is kept by the steps that leave it alone.
LEMMA ClientKept ==
    ASSUME TallyInv, UNCHANGED <<stage, result, confirmed>>
    PROVE  TallyInv' /\ Confirmed' = Confirmed
BY DEF TallyInv, Confirmed, Acked

\* run_round() preserves the invariant.
LEMMA MainIInv == IInv /\ Main => IInv'
<1> SUFFICES ASSUME IInv, Main PROVE IInv'
  OBVIOUS
<1> USE DEF IInv
<1>1. CASE StartThread
  <2> USE <1>1 DEF StartThread, clientVars, clusterVars
  <2>1. TypeOK'
    BY DEF TypeOK, ClientTypeOK
  <2>2. (OnceInv /\ WaitingInv /\ AnsweredInv)'
    BY DEF OnceInv, WaitingInv, AnsweredInv, Holders
  <2>3. StageInv' /\ GapIsLoss'
    BY DEF StageInv, GapIsLoss
  <2> QED BY <2>1, <2>2, <2>3, ClientKept
<1>2. CASE NoLeaderFound \/ SetStop \/ Join
  <2> USE <1>2 DEF NoLeaderFound, SetStop, Join, clientVars, clusterVars, threadVars
  <2>1. TypeOK'
    BY DEF TypeOK, ClientTypeOK
  <2>2. (OnceInv /\ WaitingInv /\ AnsweredInv)'
    BY DEF OnceInv, WaitingInv, AnsweredInv, Holders
  <2>3. StageInv' /\ GapIsLoss'
    BY ClientKept DEF StageInv, GapIsLoss
  <2> QED BY <2>1, <2>2, <2>3, ClientKept
<1>3. CASE KillLeader
  <2> USE <1>3 DEF KillLeader, threadVars
  <2>1. TypeOK'
    BY DEF TypeOK, ClientTypeOK
  <2>2. OnceInv'
    BY DEF OnceInv
  <2>3. WaitingInv' /\ AnsweredInv'
    BY DEF WaitingInv, AnsweredInv, Holders
  <2>4. StageInv' /\ GapIsLoss'
    BY DEF StageInv, GapIsLoss
  <2> QED BY <2>1, <2>2, <2>3, <2>4, ClientKept
<1>4. CASE Verdict
  <2> USE <1>4 DEF Verdict, clientVars, clusterVars, threadVars
  <2>1. TypeOK'
    BY DEF TypeOK, ClientTypeOK
  <2>2. (OnceInv /\ WaitingInv /\ AnsweredInv)'
    BY DEF OnceInv, WaitingInv, AnsweredInv, Holders
  <2>3. StageInv'
    BY DEF StageInv, WatermarkSettled
  <2>4. GapIsLoss'
    <3> SUFFICES ASSUME verdict' = "gap"
                 PROVE  ~(Confirmed \subseteq rep[leader]) /\ acksSetting = "1"
      BY ClientKept DEF GapIsLoss
    <3>1. WatermarkSettled /\ reported - HighWatermark > 0
      OBVIOUS
    <3>2. leader \in Brokers /\ rep[leader] \in SUBSET Msgs
      BY <3>1 DEF WatermarkSettled, TypeOK
    <3>3. reported = Cardinality(Confirmed)
      BY DEF StageInv, TallyInv
    <3>4. ~(Confirmed \subseteq rep[leader])
      <4> SUFFICES ASSUME Confirmed \subseteq rep[leader] PROVE FALSE
        OBVIOUS
      <4>1. Cardinality(Confirmed) <= Cardinality(rep[leader])
        BY <3>2, MsgsFacts, FS_Subset
      <4>2. Cardinality(rep[leader]) \in 0 .. Count /\ reported \in 0 .. Count
        BY <3>2, MsgsFacts DEF TypeOK
      <4> QED BY <4>1, <4>2, <3>1, <3>3 DEF HighWatermark
    <3>5. acksSetting = "1"
      <4>1. acksSetting = "all" => Confirmed \subseteq rep[leader]
        BY <3>1 DEF AnsweredInv, Confirmed, Acked, WatermarkSettled
      <4> QED BY <3>4, <4>1 DEF TypeOK
    <3> QED BY <3>4, <3>5
  <2> QED BY <2>1, <2>2, <2>3, <2>4, ClientKept
<1>5. CASE Restart
  <2> USE <1>5 DEF Restart, clientVars, threadVars
  <2>1. TypeOK'
    BY DEF TypeOK, ClientTypeOK, StageInv
  <2>2. (OnceInv /\ WaitingInv /\ AnsweredInv)'
    BY DEF OnceInv, WaitingInv, AnsweredInv, Holders
  <2>3. StageInv' /\ GapIsLoss'
    BY ClientKept DEF StageInv, GapIsLoss
  <2> QED BY <2>1, <2>2, <2>3, ClientKept
<1> QED BY <1>1, <1>2, <1>3, <1>4, <1>5 DEF Main

\* Serving S counts the successful messages of S.
LEMMA TallyGrows ==
    ASSUME TypeOK, TallyInv, Serve(Settled), OnDelivery(Settled)
    PROVE  TallyInv' /\ confirmed' \in 0 .. Count
<1> DEFINE Ok == WithResult(Settled, "ok")
<1>1. Confirmed' = Confirmed \cup Ok
  BY DEF Serve, Confirmed, Acked, WithResult, Settled, TypeOK, ClientTypeOK
<1>2. /\ Confirmed \in SUBSET Msgs
      /\ Ok \in SUBSET Msgs
      /\ Confirmed \cap Ok = {}
  BY DEF Confirmed, Acked, WithResult, Settled
<1>3. Cardinality(Confirmed \cup Ok)
         = Cardinality(Confirmed) + Cardinality(Ok) - Cardinality(Confirmed \cap Ok)
  BY <1>2, MsgsFacts, FS_Union
<1>4. Cardinality(Confirmed \cap Ok) = 0
  BY <1>2, FS_EmptySet
<1>5. /\ Cardinality(Confirmed) \in 0 .. Count
      /\ Cardinality(Ok) \in 0 .. Count
      /\ Cardinality(Confirmed') \in 0 .. Count
  <2>1. Confirmed \cup Ok \in SUBSET Msgs
    BY <1>2
  <2> QED BY <1>1, <1>2, <2>1, MsgsFacts
<1>6. confirmed' = Cardinality(Confirmed')
  <2>1. confirmed' = Cardinality(Confirmed) + Cardinality(Ok)
    BY DEF OnDelivery, TallyInv
  <2> HIDE DEF Ok
  <2> QED BY <2>1, <1>1, <1>3, <1>4, <1>5
<1> QED BY <1>5, <1>6 DEF TallyInv

\* produce_until_stopped() preserves the invariant.
LEMMA ThreadIInv == IInv /\ Thread => IInv'
<1> SUFFICES ASSUME IInv, Thread PROVE IInv'
  OBVIOUS
<1> USE DEF IInv
<1>1. CASE Produce
  <2> USE <1>1 DEF Produce, Enqueue, roundVars, clusterVars
  <2>0. i \in Msgs /\ stage[i] = "new"
    BY ClientAssumption DEF TypeOK, Msgs
  <2>1. TypeOK'
    BY <2>0 DEF TypeOK, ClientTypeOK, Stages
  <2>2. (OnceInv /\ WaitingInv /\ AnsweredInv)'
    BY DEF OnceInv, WaitingInv, AnsweredInv, Holders
  <2>3. TallyInv' /\ Confirmed' = Confirmed
    <3>1. Confirmed' = Confirmed
      BY <2>0 DEF Confirmed, Acked, TypeOK, ClientTypeOK
    <3> QED BY <3>1 DEF TallyInv
  <2>4. StageInv' /\ GapIsLoss'
    BY <2>3 DEF StageInv, GapIsLoss
  <2> QED BY <2>1, <2>2, <2>3, <2>4
<1>2. ASSUME Serve(Settled), OnDelivery(Settled),
             UNCHANGED <<roundVars, stop, reported, clusterVars>>,
             \/ thread = "poll" /\ i' = i + 1 /\ thread' = "loop"
             \/ thread = "flush" /\ UNCHANGED <<thread, i>>
      PROVE  IInv'
  <2> USE <1>2 DEF Serve, roundVars, clusterVars
  <2>1. TypeOK'
    <3>1. i' \in 0 .. Count
      BY ClientAssumption DEF StageInv, TypeOK
    <3>2. confirmed' \in 0 .. Count
      BY TallyGrows
    <3> QED BY <3>1, <3>2 DEF TypeOK, ClientTypeOK, Stages
  <2>2. (OnceInv /\ WaitingInv /\ AnsweredInv)'
    BY DEF OnceInv, WaitingInv, AnsweredInv, Holders
  <2>3. TallyInv'
    BY TallyGrows
  <2>4. StageInv' /\ GapIsLoss'
    BY DEF StageInv, GapIsLoss
  <2> QED BY <2>1, <2>2, <2>3, <2>4
<1>3. CASE Poll
  BY <1>2, <1>3 DEF Poll
<1>4. CASE FlushServe
  BY <1>2, <1>4 DEF FlushServe
<1>5. CASE LeaveLoop \/ FlushReturn
  <2> USE <1>5 DEF LeaveLoop, FlushReturn, clientVars, roundVars, clusterVars
  <2>1. TypeOK'
    BY DEF TypeOK, ClientTypeOK
  <2>2. (OnceInv /\ WaitingInv /\ AnsweredInv)'
    BY DEF OnceInv, WaitingInv, AnsweredInv, Holders
  <2>3. StageInv' /\ GapIsLoss'
    BY ClientKept DEF StageInv, GapIsLoss
  <2> QED BY <2>1, <2>2, <2>3, ClientKept
<1> QED BY <1>1, <1>3, <1>4, <1>5 DEF Thread

\* The client's threads and the network preserve the invariant.
LEMMA ClientIInv ==
    ASSUME IInv, NEW m \in Msgs, Background(m) \/ NetworkLoss(m)
    PROVE  IInv'
<1> USE OneTry DEF IInv
<1>0. UNCHANGED <<roundVars, stop, threadVars, clusterVars>>
  BY DEF Background, NetworkLoss
<1>1. WaitingInv' /\ StageInv'
  BY <1>0 DEF WaitingInv, StageInv, roundVars, threadVars, clusterVars
\* None of these steps is a callback.
<1>2. ASSUME Confirmed' = Confirmed
      PROVE  TallyInv' /\ GapIsLoss'
  BY <1>0, <1>2 DEF TallyInv, GapIsLoss, roundVars, threadVars, clusterVars
<1>3. CASE Transmit(m) \/ NetworkLoss(m)
  <2> USE <1>3, <1>0 DEF Transmit, NetworkLoss, LoseRequest, LoseAck, roundVars,
                   threadVars, clusterVars
  <2>1. TypeOK'
    BY ClientAssumption, ClusterAssumption DEF TypeOK, ClientTypeOK, Stages
  <2>2. OnceInv' /\ AnsweredInv'
    BY ClusterAssumption DEF OnceInv, AnsweredInv, Holders, TypeOK, ClientTypeOK
  <2>3. Confirmed' = Confirmed
    BY DEF Confirmed, Acked, TypeOK, ClientTypeOK
  <2> QED BY <2>1, <2>2, <2>3, <1>1, <1>2
<1>4. CASE RequestTimeout(m) \/ MessageTimeout(m) \/ AckArrives(m, 1)
  <2> USE <1>4, <1>0 DEF RequestTimeout, MessageTimeout, AckArrives, Settle, roundVars,
                   threadVars, clusterVars
  <2>1. TypeOK'
    BY DEF TypeOK, ClientTypeOK, Stages, Results
  <2>2. OnceInv' /\ AnsweredInv'
    BY DEF OnceInv, AnsweredInv, Holders, TypeOK, ClientTypeOK
  <2>3. Confirmed' = Confirmed
    BY DEF Confirmed, Acked, TypeOK, ClientTypeOK
  <2> QED BY <2>1, <2>2, <2>3, <1>1, <1>2
<1> QED BY <1>3, <1>4 DEF Background, SendInOrder

\* The cluster preserves the invariant.
LEMMA ClusterIInv ==
    ASSUME IInv,
           \/ \E m \in Msgs : LeaderAppend(m) \/ Reply(m)
           \/ \E b \in Brokers : Replicate(b) \/ Elect(b)
    PROVE  IInv'
<1> USE DEF IInv
<1>1. ASSUME NEW m \in Msgs, LeaderAppend(m) PROVE IInv'
  <2> USE <1>1 DEF LeaderAppend, roundVars, threadVars
  <2>0. /\ leader \in Brokers
        /\ \A b \in Brokers : rep[b] \subseteq rep'[b]
        /\ rep'[leader] = rep[leader] \cup {m}
    BY DEF TypeOK
  <2>1. TypeOK'
    BY DEF TypeOK, ClientTypeOK
  <2>2. OnceInv' /\ WaitingInv'
    BY <2>0 DEF OnceInv, WaitingInv
  <2>3. AnsweredInv'
    <3>1. ASSUME NEW n \in Msgs, IsMajority(Holders(n)) PROVE IsMajority(Holders(n)')
      <4>1. Holders(n) \subseteq Holders(n)' /\ Holders(n)' \in SUBSET Brokers
        BY <2>0 DEF Holders
      <4>2. IsMajority(Holders(n)')
        BY <3>1, <4>1, MajorityGrows DEF Holders
      <4> QED BY <4>2
    <3> QED BY <3>1, <2>0 DEF AnsweredInv, IsMajority
  <2>4. StageInv'
    BY DEF StageInv
  \* m is not a confirmed message: its request was still on the way.
  <2>5. GapIsLoss'
    <3>1. m \notin Confirmed /\ Confirmed' = Confirmed
      BY DEF OnceInv, Confirmed, Acked
    <3> QED BY <3>1, <2>0 DEF GapIsLoss
  <2> QED BY <2>1, <2>2, <2>3, <2>4, <2>5, ClientKept
<1>2. ASSUME NEW m \in Msgs, Reply(m) PROVE IInv'
  <2> USE <1>2 DEF Reply, roundVars, threadVars
  <2>1. TypeOK'
    BY OneTry DEF TypeOK, ClientTypeOK
  <2>2. OnceInv' /\ WaitingInv'
    BY DEF OnceInv, WaitingInv
  <2>3. AnsweredInv'
    BY DEF AnsweredInv, MayReply, Holders, WaitingInv
  <2>4. StageInv' /\ GapIsLoss'
    BY ClientKept DEF StageInv, GapIsLoss
  <2> QED BY <2>1, <2>2, <2>3, <2>4, ClientKept
<1>3. ASSUME NEW b \in Brokers, Replicate(b) PROVE IInv'
  <2> USE <1>3 DEF Replicate, clientVars, roundVars, threadVars
  \* A follower never gives up what the leader has.
  <2>0. /\ leader \in Brokers
        /\ rep' \in [Brokers -> SUBSET Msgs]
        /\ rep'[leader] = rep[leader]
        /\ \A d \in Brokers : rep[d] \cap rep[leader] \subseteq rep'[d]
    BY DEF TypeOK
  <2>1. TypeOK'
    BY <2>0 DEF TypeOK, ClientTypeOK
  <2>2. OnceInv' /\ WaitingInv'
    BY <2>0 DEF OnceInv, WaitingInv
  <2>3. AnsweredInv'
    <3>1. ASSUME NEW n \in rep[leader], IsMajority(Holders(n))
          PROVE  IsMajority(Holders(n)')
      <4>1. Holders(n) \subseteq Holders(n)' /\ Holders(n)' \in SUBSET Brokers
        BY <2>0 DEF Holders
      <4>2. IsMajority(Holders(n)')
        BY <3>1, <4>1, MajorityGrows DEF Holders
      <4> QED BY <4>2
    <3> QED BY <3>1, <2>0 DEF AnsweredInv, IsMajority
  <2>4. StageInv' /\ GapIsLoss'
    BY <2>0, ClientKept DEF StageInv, GapIsLoss
  <2> QED BY <2>1, <2>2, <2>3, <2>4, ClientKept
<1>4. ASSUME NEW b \in Brokers, Elect(b) PROVE IInv'
  <2> USE <1>4 DEF Elect, clientVars, roundVars, threadVars
  <2>1. TypeOK'
    BY DEF TypeOK, ClientTypeOK
  <2>2. OnceInv' /\ WaitingInv'
    BY DEF OnceInv, WaitingInv
  <2>3. AnsweredInv'
    <3>1. PICK Q \in SUBSET alive :
             IsMajority(Q) /\ \A d \in Q : rep[d] \subseteq rep[b]
      BY DEF MayLead
    \* The voters and the holders of n share a broker, whose log the winner has.
    <3>2. ASSUME NEW n \in Msgs, IsMajority(Holders(n)) PROVE n \in rep[b]
      <4>1. Q \cap Holders(n) # {}
        BY <3>1, <3>2, MajoritiesMeet DEF Holders, TypeOK
      <4> QED BY <4>1, <3>1 DEF Holders
    <3> QED BY <3>2 DEF AnsweredInv, Holders
  <2>4. StageInv' /\ GapIsLoss'
    BY ClientKept DEF StageInv, GapIsLoss
  <2> QED BY <2>1, <2>2, <2>3, <2>4, ClientKept
<1> QED BY <1>1, <1>2, <1>3, <1>4

LEMMA NextIInv == IInv /\ [Next]_vars => IInv'
<1> SUFFICES ASSUME IInv, [Next]_vars PROVE IInv'
  OBVIOUS
<1>1. CASE UNCHANGED vars
  BY <1>1 DEF IInv, vars, clientVars, roundVars, threadVars, clusterVars, TypeOK,
              ClientTypeOK, OnceInv, WaitingInv, AnsweredInv, Holders, TallyInv,
              Confirmed, Acked, StageInv, GapIsLoss
<1> QED BY <1>1, MainIInv, ThreadIInv, ClientIInv, ClusterIInv DEF Next

-----------------------------------------------------------------------------

\* Where each message is, who holds it and what was counted stay consistent
\* through the kill, the election and the verdict.
THEOREM Invariance == Spec => []IInv
<1> QED BY InitIInv, NextIInv, PTL DEF Spec

\* Type correctness of the round, its thread, the client and the cluster.
THEOREM TypeCorrect == Spec => []TypeOK
<1>1. IInv => TypeOK
  BY DEF IInv
<1> QED BY <1>1, Invariance, PTL

\* acks = "all" (sim_acks_comparison.py:124): every leader, the one elected
\* after the kill included, has every message the client was told is written,
\* for any number of brokers and messages.
THEOREM AcksAllSurvives == Spec => []ConfirmedSurvive
<1>1. IInv => ConfirmedSurvive
  BY DEF IInv, AnsweredInv, ConfirmedSurvive, Acked
<1> QED BY <1>1, Invariance, PTL

\* A positive gap (198-200) is a loss of a message the callback counted, and
\* is never reported in the acks = "all" round.
THEOREM GapIsReal == Spec => []GapIsLoss
<1>1. IInv => GapIsLoss
  BY DEF IInv
<1> QED BY <1>1, Invariance, PTL
=============================================================================
