---------------------------- MODULE ConsumerGroup ---------------------------
(***************************************************************************)
(* services/consumer.py: processes of one group reading order.created.     *)
(*                                                                         *)
(* A consumer is one process, started at most once; a restarted program is *)
(* another consumer.  enable.auto.commit and enable.auto.offset.store keep *)
(* their defaults: poll() stores the offset of the message it hands out,   *)
(* and a thread of the library commits stored offsets at any time.  The    *)
(* partitions hold LogEnd messages: a consumer that has not polled a       *)
(* message yet cannot tell whether it was published yet.                   *)
(***************************************************************************)
EXTENDS GroupCoordinator

CONSTANTS LogEnd,          \* messages in each partition
          MaxFaults        \* bound: kills, Ctrl+C and stalls in one run

ASSUME GroupAssumption ==
    /\ IsFiniteSet(Partitions)
    /\ LogEnd \in [Partitions -> Nat]
    /\ MaxFaults \in Nat

Messages == UNION {{p} \X (0 .. LogEnd[p] - 1) : p \in Partitions}
NoMessage == <<>>

VARIABLES proc,      \* what each process is doing
          inHand     \* the message its loop body works on

procVars == <<proc, inHand>>

VARIABLES handled,   \* messages that went through some consumer's loop body
          repeated,  \* messages that did so more than once
          dropped    \* messages in hand of a process when it was stopped

seenVars == <<handled, repeated, dropped>>

VARIABLES kills,      \* processes killed
          interrupts, \* processes stopped with Ctrl+C
          stalls      \* live members the coordinator gave up

faultVars == <<kills, interrupts, stalls>>

vars == <<procVars, localVars, groupVars, committed, seenVars, faultVars>>

TypeOK ==
    /\ proc \in [Consumers -> {"new", "poll", "handle", "closing", "gone"}]
    /\ inHand \in [Consumers -> Messages \cup {NoMessage}]
    /\ GroupTypeOK
    /\ handled \subseteq Messages
    /\ repeated \subseteq Messages
    /\ dropped \subseteq Messages
    /\ kills \in Nat /\ interrupts \in Nat /\ stalls \in Nat
    /\ kills + interrupts + stalls <= MaxFaults

Init ==
    /\ proc = [c \in Consumers |-> "new"]
    /\ inHand = [c \in Consumers |-> NoMessage]
    /\ GroupInit
    /\ handled = {}
    /\ repeated = {}
    /\ dropped = {}
    /\ kills = 0
    /\ interrupts = 0
    /\ stalls = 0

FaultsLeft == kills + interrupts + stalls < MaxFaults

Alive(c) == proc[c] \in {"poll", "handle", "closing"}

-----------------------------------------------------------------------------
(* main() of services/consumer.py                                           *)

\* Consumer() and subscribe(): the group is joined by the first poll().
Start(c) ==
    /\ proc[c] = "new"
    /\ proc' = [proc EXCEPT ![c] = "poll"]
    /\ UNCHANGED <<inHand, localVars, groupVars, committed, seenVars, faultVars>>

\* Mutation of PollMessage: reads one message past the end of the log.
PollPastEnd(c) ==
    /\ proc[c] = "poll"
    /\ \E p \in owned[c] :
          /\ pos[c][p] <= LogEnd[p]
          /\ inHand' = [inHand EXCEPT ![c] = <<p, pos[c][p]>>]
          /\ Advance(c, p)
    /\ proc' = [proc EXCEPT ![c] = "handle"]
    /\ UNCHANGED <<owned, groupVars, committed, seenVars, faultVars>>

\* Mutation of PollMessage: stores how far the library has fetched instead of
\* how far the program was given messages.
PollStoresFetched(c) ==
    /\ proc[c] = "poll"
    /\ \E p \in owned[c] :
          /\ pos[c][p] < LogEnd[p]
          /\ inHand' = [inHand EXCEPT ![c] = <<p, pos[c][p]>>]
          /\ pos' = [pos EXCEPT ![c][p] = @ + 1]
          /\ stored' = [stored EXCEPT ![c][p] = LogEnd[p]]
    /\ proc' = [proc EXCEPT ![c] = "handle"]
    /\ UNCHANGED <<owned, groupVars, committed, seenVars, faultVars>>

\* poll() hands out the next message of an assigned partition and stores the
\* offset behind it before the loop body sees the message.
PollMessage(c) ==
    /\ proc[c] = "poll"
    /\ \E p \in owned[c] :
          /\ pos[c][p] < LogEnd[p]
          /\ inHand' = [inHand EXCEPT ![c] = <<p, pos[c][p]>>]
          /\ Advance(c, p)
    /\ proc' = [proc EXCEPT ![c] = "handle"]
    /\ UNCHANGED <<owned, groupVars, committed, seenVars, faultVars>>

Release(c, state) ==
    /\ inHand' = [inHand EXCEPT ![c] = NoMessage]
    /\ proc' = [proc EXCEPT ![c] = state]

\* The loop body: the order is printed; or it has no value, or the
\* deserialiser raises for whatever reason (garbage bytes, an unreachable
\* registry), then a line is logged instead.  Either way the loop goes on.
Handle(c) ==
    /\ proc[c] = "handle"
    /\ handled' = handled \cup {inHand[c]}
    /\ repeated' = repeated \cup (handled \cap {inHand[c]})
    /\ Release(c, "poll")
    /\ UNCHANGED <<localVars, groupVars, committed, dropped, faultVars>>

\* The message a process works on when it is stopped is dropped with it.
Abandon(c, state) ==
    /\ dropped' = IF proc[c] = "handle" THEN dropped \cup {inHand[c]} ELSE dropped
    /\ Release(c, state)

\* Ctrl+C: KeyboardInterrupt leaves the loop, wherever it is ...
Interrupt(c) ==
    /\ proc[c] \in {"poll", "handle"}
    /\ FaultsLeft
    /\ interrupts' = interrupts + 1
    /\ Abandon(c, "closing")
    /\ UNCHANGED <<localVars, groupVars, committed, handled, repeated, kills,
                   stalls>>

\* Mutation of Close: the program ends without consumer.close(), so nothing is
\* committed and the group is left to find out by itself.
EndWithoutClose(c) ==
    /\ proc[c] = "closing"
    /\ proc' = [proc EXCEPT ![c] = "gone"]
    /\ owned' = [owned EXCEPT ![c] = {}]
    /\ UNCHANGED <<inHand, pos, stored, groupVars, committed, seenVars, faultVars>>

\* ... and the finally clause closes the consumer: it commits what is stored
\* and leaves the group.
Close(c) ==
    /\ proc[c] = "closing"
    /\ proc' = [proc EXCEPT ![c] = "gone"]
    /\ LeaveGroup(c)
    /\ UNCHANGED <<inHand, seenVars, faultVars>>

\* SIGTERM or SIGKILL: nothing of the program runs any more.
Kill(c) ==
    /\ Alive(c)
    /\ FaultsLeft
    /\ kills' = kills + 1
    /\ Abandon(c, "gone")
    /\ owned' = [owned EXCEPT ![c] = {}]
    /\ UNCHANGED <<pos, stored, groupVars, committed, handled, repeated,
                   interrupts, stalls>>

-----------------------------------------------------------------------------
(* The library inside each process.                                         *)

\* auto.commit.interval.ms passed, at any point of the loop body.
AutoCommit(c) ==
    /\ Alive(c)
    /\ CommitStored(c)
    /\ UNCHANGED <<procVars, localVars, groupVars, seenVars, faultVars>>

\* Inside poll(): the consumer joins, and joins again for every rebalance.
Join(c) ==
    /\ proc[c] = "poll"
    /\ JoinGroup(c)
    /\ UNCHANGED <<procVars, seenVars, faultVars>>

\* Inside poll(): it is given its partitions.
Sync(c) ==
    /\ proc[c] = "poll"
    /\ SyncGroup(c)
    /\ UNCHANGED <<procVars, seenVars, faultVars>>

-----------------------------------------------------------------------------
(* The group coordinator.                                                   *)

Rebalance == NextGeneration /\ UNCHANGED <<procVars, seenVars, faultVars>>

\* session.timeout.ms: a process that is gone sends no heartbeats.
ExpireDead(c) ==
    /\ c \in members
    /\ proc[c] = "gone"
    /\ Remove(c)
    /\ UNCHANGED <<procVars, localVars, committed, seenVars, faultVars>>

\* session.timeout.ms or max.poll.interval.ms of a process that is alive but
\* slow: it does not know yet and goes on with the partitions it had.
ExpireStalled(c) ==
    /\ c \in members
    /\ Alive(c)
    /\ FaultsLeft
    /\ stalls' = stalls + 1
    /\ Remove(c)
    /\ UNCHANGED <<procVars, localVars, committed, seenVars, kills, interrupts>>

-----------------------------------------------------------------------------

\* What a process does on its own, without being stopped.
Loop(c) == PollMessage(c) \/ Handle(c) \/ Join(c) \/ Sync(c) \/ Close(c)

Next ==
    \/ \E c \in Consumers :
          \/ Start(c) \/ Loop(c) \/ AutoCommit(c)
          \/ Interrupt(c) \/ Kill(c)
          \/ ExpireDead(c) \/ ExpireStalled(c)
    \/ Rebalance

\* The launched processes run, the coordinator completes rebalances and
\* expires the members that are gone.
Fairness ==
    /\ \A c \in Consumers : WF_vars(Start(c)) /\ WF_vars(Loop(c))
    /\ WF_vars(Rebalance)
    /\ WF_vars(\E c \in Consumers : ExpireDead(c))

Spec == Init /\ [][Next]_vars
FairSpec == Spec /\ Fairness

-----------------------------------------------------------------------------
(* Properties                                                               *)

InHand == {inHand[c] : c \in {d \in Consumers : proc[d] = "handle"}}

Accounted == InHand \cup handled \cup dropped

\* Two members never own the same partition: a partition changes hands only
\* after its old owner gave it up or is not a member any more, however joins,
\* departures and expiries interleave with a rebalance.
SingleOwner ==
    \A c, d \in members : c # d => owned[c] \cap owned[d] = {}

\* A message below the committed offset was handled, is in hand of a process,
\* or was in hand of a process that was stopped: each stop loses at most the
\* one message it interrupted, and no rebalance or expiry loses any.
LossOnlyByStops ==
    /\ \A p \in Partitions : \A o \in 0 .. committed[p] - 1 :
          <<p, o>> \in Accounted
    /\ Cardinality(dropped) <= kills + interrupts

\* Without kills and expiries of live members nothing is handled twice:
\* joining, rebalancing and Ctrl+C alone never repeat a message.
RepeatsNeedFailures == repeated # {} => kills + stalls > 0

\* Unless every process is stopped, every message is settled in the end: the
\* partitions of the stopped ones are taken over and read to their end.
AllSettled ==
    <>(\/ Messages \subseteq handled \cup dropped
       \/ \A c \in Consumers : proc[c] = "gone")

-----------------------------------------------------------------------------
(* The parts of the inductive invariant.                                    *)

HandInv == \A c \in Consumers : proc[c] = "handle" => inHand[c] \in Messages

\* Only members of the current generation own partitions, and only those the
\* assignment gives them; who has joined the next generation owns nothing.
OwnInv ==
    /\ joined \subseteq members /\ synced \subseteq members
    /\ stable => joined = {}
    /\ \A c \in members : c \in joined \/ c \notin synced => owned[c] = {}
    /\ \A c \in synced : \A p \in owned[c] : target[p] = c

\* The owner of a partition is never behind its committed offset.
CursorInv ==
    \A c \in synced : \A p \in owned[c] :
        /\ StartOffset(p) <= pos[c][p]
        /\ stored[c][p] \in {NoOffset, pos[c][p]}

\* Nobody has moved past a message that is not accounted for.
AccountedInv ==
    \A p \in Partitions :
        /\ \A o \in 0 .. StartOffset(p) - 1 : <<p, o>> \in Accounted
        /\ \A c \in Consumers : \A o \in 0 .. pos[c][p] - 1 : <<p, o>> \in Accounted

DroppedInv ==
    /\ IsFiniteSet(dropped)
    /\ Cardinality(dropped) <= kills + interrupts

IInv == TypeOK /\ HandInv /\ OwnInv /\ CursorInv /\ AccountedInv /\ DroppedInv

\* While nothing fails: who owns partitions is in the current generation and
\* commits where its owner's position is ...
CalmOwners ==
    \A c \in Consumers :
        /\ proc[c] = "gone" => c \notin members
        /\ c \notin synced \ joined => owned[c] = {}
        /\ \A p \in owned[c] :
              \/ stored[c][p] = NoOffset /\ pos[c][p] = StartOffset(p)
              \/ stored[c][p] = pos[c][p]

\* ... what was taken from a partition is behind its owner, or while it has
\* none behind its committed offset ...
CalmFront ==
    \A p \in Partitions : \A o \in Nat : <<p, o>> \in Accounted =>
        /\ \A c \in Consumers : p \in owned[c] => o < pos[c][p]
        /\ (\A c \in Consumers : p \notin owned[c]) => o < StartOffset(p)

\* ... and a message in hand is in hand of one process and not handled yet.
CalmHands ==
    \A c \in Consumers : proc[c] = "handle" =>
        /\ inHand[c] \notin handled
        /\ \A d \in Consumers \ {c} : proc[d] = "handle" => inHand[d] # inHand[c]

CalmInv ==
    kills + stalls = 0 => CalmOwners /\ CalmFront /\ CalmHands /\ repeated = {}

-----------------------------------------------------------------------------
(* The group implements GroupContract.                                      *)

Contract == INSTANCE GroupContract
                WITH taken <- InHand,
                     cursor <- [p \in Partitions |-> StartOffset(p)]

\* Every step of the processes, their libraries and the coordinator is a step
\* of the contract: in particular no committed offset ever moves back, though
\* commits overwrite and expired members still try to commit.
ImplementsContract == Contract!Spec
=============================================================================
