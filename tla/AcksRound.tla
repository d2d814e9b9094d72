------------------------------ MODULE AcksRound -----------------------------
(***************************************************************************)
(* simulations/sim_acks_comparison.py (S12): one round.  A thread produces *)
(* with retries = 0 until it is told to stop; the main thread kills the    *)
(* leader of the partition, waits, stops the thread, and compares what the *)
(* producer saw confirmed with the high watermark of the new leader.       *)
(*                                                                         *)
(* The partition is replicated on Brokers.  Messages are appended in the   *)
(* order they are produced, so a log is the set of its messages and a      *)
(* follower copies the smallest message it lacks.  The two rounds of main()*)
(* start from a fresh topic and differ in acksSetting only.                *)
(***************************************************************************)
EXTENDS LibrdkafkaProducer

CONSTANTS Brokers, FirstLeader

ASSUME ClusterAssumption ==
    /\ IsFiniteSet(Brokers)
    /\ FirstLeader \in Brokers
    /\ MaxTries = 1

NoBroker == "none"

VARIABLES main,         \* where run_round() is
          acksSetting,  \* 1, or all the in-sync replicas
          victim,       \* the leader that find_leader() returned
          verdict,      \* the line run_round() prints about the gap
          thread,       \* where produce_until_stopped() is
          i,            \* its loop variable
          stop,         \* results["stop"]
          confirmed,    \* its count of successful callbacks
          reported      \* results["confirmed"]

roundVars == <<main, acksSetting, victim, verdict>>
threadVars == <<thread, i, confirmed, reported>>

VARIABLES leader, alive,
          rep,          \* the log of each broker
          waiting       \* messages the leader has not answered yet

clusterVars == <<leader, alive, rep, waiting>>

vars == <<clientVars, roundVars, stop, threadVars, clusterVars>>

TypeOK ==
    /\ ClientTypeOK
    /\ main \in {"setup", "producing", "electing", "joining", "reading",
                 "restarting", "ended", "aborted"}
    /\ acksSetting \in {"1", "all"}
    /\ victim \in Brokers \cup {NoBroker}
    /\ verdict \in {"none", "gap", "no_loss", "unreadable"}
    /\ thread \in {"none", "loop", "poll", "flush", "done"}
    /\ i \in 0 .. Count
    /\ stop \in BOOLEAN
    /\ confirmed \in 0 .. Count /\ reported \in 0 .. Count
    /\ leader \in Brokers \cup {NoBroker}
    /\ alive \subseteq Brokers
    /\ rep \in [Brokers -> SUBSET Msgs]
    /\ waiting \subseteq Msgs

Init ==
    /\ ClientInit
    /\ main = "setup"
    /\ acksSetting \in {"1", "all"}
    /\ victim = NoBroker
    /\ verdict = "none"
    /\ thread = "none"
    /\ i = 0
    /\ stop = FALSE
    /\ confirmed = 0
    /\ reported = 0
    /\ leader = FirstLeader
    /\ alive = Brokers
    /\ rep = [b \in Brokers |-> {}]
    /\ waiting = {}

-----------------------------------------------------------------------------
(* run_round()                                                              *)

\* find_leader() succeeds, and the producer thread is started.
StartThread ==
    /\ main = "setup"
    /\ victim' = leader
    /\ main' = "producing"
    /\ thread' = "loop"
    /\ UNCHANGED <<clientVars, acksSetting, verdict, stop, i, confirmed, reported,
                   clusterVars>>

\* find_leader() finds nothing it can parse: the round is given up.
NoLeaderFound ==
    /\ main = "setup"
    /\ main' = "aborted"
    /\ UNCHANGED <<clientVars, acksSetting, victim, verdict, stop, threadVars,
                   clusterVars>>

\* docker stop: what was on the way to the leader, or not answered, is lost.
KillLeader ==
    /\ main = "producing"
    /\ main' = "electing"
    /\ alive' = alive \ {victim}
    /\ leader' = IF leader = victim THEN NoBroker ELSE leader
    /\ waiting' = {}
    /\ requests' = {}
    /\ UNCHANGED <<stage, result, tries, acks, acksSetting, victim, verdict, stop,
                   threadVars, rep>>

SetStop ==
    /\ main = "electing"
    /\ main' = "joining"
    /\ stop' = TRUE
    /\ UNCHANGED <<clientVars, acksSetting, victim, verdict, threadVars, clusterVars>>

\* join(timeout=10) outlasts the flush(timeout=5) of the thread.
Join ==
    /\ main = "joining"
    /\ thread = "done"
    /\ main' = "reading"
    /\ UNCHANGED <<clientVars, acksSetting, victim, verdict, stop, threadVars,
                   clusterVars>>

\* sleep(2) lets the watermark settle: all live replicas hold the same log.
WatermarkSettled == leader # NoBroker /\ \A b \in alive : rep[b] = rep[leader]

HighWatermark == Cardinality(rep[leader])

Verdict ==
    /\ main = "reading"
    /\ main' = "restarting"
    /\ \/ /\ WatermarkSettled
          /\ verdict' = IF reported - HighWatermark > 0 THEN "gap" ELSE "no_loss"
       \/ verdict' = "unreadable"
    /\ UNCHANGED <<clientVars, acksSetting, victim, stop, threadVars, clusterVars>>

Restart ==
    /\ main = "restarting"
    /\ main' = "ended"
    /\ alive' = alive \cup {victim}
    /\ UNCHANGED <<clientVars, acksSetting, victim, verdict, stop, threadVars, leader,
                   rep, waiting>>

Main == StartThread \/ NoLeaderFound \/ KillLeader \/ SetStop \/ Join \/ Verdict \/ Restart

-----------------------------------------------------------------------------
(* produce_until_stopped()                                                  *)

\* The time the loop runs is bounded: at most Count messages.
Produce ==
    /\ thread = "loop"
    /\ ~stop
    /\ i < Count
    /\ Enqueue(i)
    /\ thread' = "poll"
    /\ UNCHANGED <<roundVars, stop, i, confirmed, reported, clusterVars>>

\* Mutation of OnDelivery: counts every callback.
OnDeliveryAny(S) == confirmed' = confirmed + Cardinality(S)

OnDelivery(S) == confirmed' = confirmed + Cardinality(WithResult(S, "ok"))

Poll ==
    /\ thread = "poll"
    /\ Serve(Settled)
    /\ OnDelivery(Settled)
    /\ i' = i + 1
    /\ thread' = "loop"
    /\ UNCHANGED <<roundVars, stop, reported, clusterVars>>

LeaveLoop ==
    /\ thread = "loop"
    /\ stop
    /\ thread' = "flush"
    /\ UNCHANGED <<clientVars, roundVars, stop, i, confirmed, reported, clusterVars>>

\* Mutation of FlushServe: the callbacks that ran stay in the queue.
FlushServeAgain ==
    /\ thread = "flush"
    /\ Settled # {}
    /\ OnDelivery(Settled)
    /\ UNCHANGED <<clientVars, roundVars, stop, thread, i, reported, clusterVars>>

FlushServe ==
    /\ thread = "flush"
    /\ Settled # {}
    /\ Serve(Settled)
    /\ OnDelivery(Settled)
    /\ UNCHANGED <<roundVars, stop, thread, i, reported, clusterVars>>

\* flush(timeout=5) may return with messages unanswered; the count is handed
\* over and the client goes away with the thread.
FlushReturn ==
    /\ thread = "flush"
    /\ thread' = "done"
    /\ reported' = confirmed
    /\ UNCHANGED <<clientVars, roundVars, stop, i, confirmed, clusterVars>>

Thread == Produce \/ Poll \/ LeaveLoop \/ FlushServe \/ FlushReturn

-----------------------------------------------------------------------------
(* The client and its connection.                                           *)

\* One connection to the leader: messages are sent in order.
SendInOrder(m) ==
    /\ leader # NoBroker
    /\ \A n \in Msgs : n < m => stage[n] # "queued"
    /\ Transmit(m)

Background(m) ==
    /\ thread \in {"loop", "poll", "flush"}
    /\ SendInOrder(m) \/ RequestTimeout(m) \/ MessageTimeout(m) \/ AckArrives(m, 1)
    /\ UNCHANGED <<roundVars, stop, threadVars, clusterVars>>

NetworkLoss(m) ==
    /\ LoseRequest(m, 1) \/ LoseAck(m, 1)
    /\ UNCHANGED <<roundVars, stop, threadVars, clusterVars>>

-----------------------------------------------------------------------------
(* The replicated partition.                                                *)

IsMajority(S) == 2 * Cardinality(S) > Cardinality(Brokers)

\* The leader appends the requests of the connection in order.
LeaderAppend(m) ==
    /\ leader # NoBroker
    /\ <<m, 1>> \in requests
    /\ \A n \in Msgs : n < m => <<n, 1>> \notin requests
    /\ requests' = requests \ {<<m, 1>>}
    /\ rep' = [rep EXCEPT ![leader] = @ \cup {m}]
    /\ waiting' = waiting \cup {m}
    /\ UNCHANGED <<stage, result, tries, acks, roundVars, stop, threadVars, leader, alive>>

\* Mutation of MayReply: acks = all is answered like acks = 1.
MayReplyEarly(m) == TRUE

\* acks = 1 is answered after the leader's append, acks = all when a majority
\* has the message.
MayReply(m) == acksSetting = "1" \/ IsMajority({b \in Brokers : m \in rep[b]})

Reply(m) ==
    /\ m \in waiting
    /\ MayReply(m)
    /\ waiting' = waiting \ {m}
    /\ acks' = acks \cup {<<m, 1>>}
    /\ UNCHANGED <<stage, result, tries, requests, roundVars, stop, threadVars, leader,
                   alive, rep>>

\* A live follower drops what the leader does not have, then copies the next
\* message.
Replicate(b) ==
    /\ leader # NoBroker
    /\ b \in alive \ {leader}
    /\ \/ /\ ~(rep[b] \subseteq rep[leader])
          /\ rep' = [rep EXCEPT ![b] = @ \cap rep[leader]]
       \/ /\ rep[b] \subseteq rep[leader]
          /\ \E m \in rep[leader] \ rep[b] :
                /\ \A n \in rep[leader] \ rep[b] : m <= n
                /\ rep' = [rep EXCEPT ![b] = @ \cup {m}]
    /\ UNCHANGED <<clientVars, roundVars, stop, threadVars, leader, alive, waiting>>

\* A majority votes for a candidate whose log is not behind theirs.
MayLead(w) ==
    /\ w \in alive
    /\ \E Q \in SUBSET alive : IsMajority(Q) /\ \A b \in Q : rep[b] \subseteq rep[w]

Elect(w) ==
    /\ leader = NoBroker
    /\ MayLead(w)
    /\ leader' = w
    /\ UNCHANGED <<clientVars, roundVars, stop, threadVars, alive, rep, waiting>>

Next ==
    \/ Main
    \/ Thread
    \/ \E m \in Msgs : Background(m) \/ NetworkLoss(m) \/ LeaderAppend(m) \/ Reply(m)
    \/ \E b \in Brokers : Replicate(b) \/ Elect(b)

Spec == Init /\ [][Next]_vars

-----------------------------------------------------------------------------
(* Properties                                                               *)

\* The client was told that m is written ...
Acked == {m \in Msgs : result[m] = "ok"}

\* ... and the callback has counted it.
Confirmed == {m \in Acked : stage[m] = "served"}

\* acks = all: whoever leads has every message the client was told is written,
\* through the crash, the election and the truncation of the old leader.
ConfirmedSurvive ==
    acksSetting = "all" /\ leader # NoBroker => Acked \subseteq rep[leader]

\* A reported gap is a real loss: a confirmed message that is not in the log.
\* So the acks = all round never reports one.
GapIsLoss ==
    verdict = "gap" =>
        /\ ~(Confirmed \subseteq rep[leader])
        /\ acksSetting = "1"

-----------------------------------------------------------------------------
(* The parts of the inductive invariant.                                    *)

Holders(m) == {b \in Brokers : m \in rep[b]}

\* Without retries a message is in one place: not sent, on the way, waiting
\* for the answer, answered, or heard of.
OnceInv ==
    \A m \in Msgs :
        /\ tries[m] = 0 => /\ <<m, 1>> \notin requests \cup acks
                           /\ m \notin waiting
                           /\ result[m] # "ok"
        /\ <<m, 1>> \in requests => /\ <<m, 1>> \notin acks
                                    /\ m \notin waiting
                                    /\ result[m] # "ok"

\* Only a leader owes answers, and it has written what it owes them for.
WaitingInv ==
    /\ leader = NoBroker => waiting = {}
    /\ leader # NoBroker => waiting \subseteq rep[leader]

\* acks = all: an answered message is held by a majority and by the leader.
\* The majority is what the next election needs.
AnsweredInv ==
    acksSetting = "all" =>
        \A m \in Msgs :
            <<m, 1>> \in acks \/ result[m] = "ok" =>
                /\ IsMajority(Holders(m))
                /\ leader # NoBroker => m \in rep[leader]

TallyInv == confirmed = Cardinality(Confirmed)

\* When the log is read the thread is over and its count handed over.
StageInv ==
    /\ main = "setup" => leader \in Brokers
    /\ main \notin {"setup", "aborted"} => victim \in Brokers
    /\ thread = "poll" => i < Count
    /\ thread = "done" => reported = confirmed
    /\ main \in {"reading", "restarting", "ended"} => thread = "done"
    /\ verdict # "none" => main \in {"restarting", "ended"}
    /\ verdict = "gap" => leader # NoBroker

IInv == /\ TypeOK /\ OnceInv /\ WaitingInv /\ AnsweredInv /\ TallyInv /\ StageInv
        /\ GapIsLoss
=============================================================================
