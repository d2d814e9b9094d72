--------------------------- MODULE RetentionRounds --------------------------
(***************************************************************************)
(* S6 and S7: simulations/sim_segment_roll.py and                          *)
(* simulations/sim_retention_bytes.py.  Both create a topic, produce to    *)
(* it, sleep, and read its watermarks, while the broker's cleaner deletes  *)
(* closed segments when it likes.  S6 does so with large and with tiny     *)
(* segments and retention by time; S7 twice with one topic, whose          *)
(* partitions are capped: with many keys, then with a single one.          *)
(*                                                                         *)
(* A behaviour is a use of one topic.  Sizes are counted in messages.      *)
(***************************************************************************)
EXTENDS PartitionLog, FiniteSets

CONSTANTS Partitions,        \* of the topic of S7
          Messages, Again,   \* messages produced, and once more in S7
          Tiny, Large,       \* messages after which a segment is full
          Cap                \* retention.bytes

ASSUME TopicAssumption ==
    /\ IsFiniteSet(Partitions) /\ Partitions # {}
    /\ Messages \in Nat /\ Again \in Nat
    /\ Tiny \in Nat \ {0} /\ Large \in Nat /\ Large >= Messages
    /\ Cap \in Nat

Unlimited == -1
Unread == [low |-> -1, high |-> -1]

\* Mutation of Topics: round 2 of S6 forgets to make its segments small.
TopicsLarge ==
    [large |-> [size |-> Large, cap |-> Unlimited, flushEach |-> FALSE],
     tiny  |-> [size |-> Large, cap |-> Unlimited, flushEach |-> TRUE],
     bytes |-> [size |-> Tiny, cap |-> Cap, flushEach |-> FALSE]]

\* The topics the two scripts create, and how they produce to them.
Topics ==
    [large |-> [size |-> Large, cap |-> Unlimited, flushEach |-> FALSE],
     tiny  |-> [size |-> Tiny, cap |-> Unlimited, flushEach |-> TRUE],
     bytes |-> [size |-> Tiny, cap |-> Cap, flushEach |-> FALSE]]

VARIABLES topic,       \* the one that is used
          keyed,       \* the partition of b"fixed-key" (S6: the only one)
          log,         \* the log of each partition
          pc,          \* the step main() is at
          round

VARIABLES unsent,      \* messages the loop has not handed to the client
          queued,      \* messages the client holds, per partition
          delivered,
          marks        \* the watermarks each check printed

clientVars == <<unsent, queued, delivered>>
vars == <<topic, keyed, log, pc, round, clientVars, marks>>

Config == Topics[topic]
Used == IF topic = "bytes" THEN Partitions ELSE {keyed}

Init ==
    /\ topic \in DOMAIN Topics
    /\ keyed \in Partitions
    /\ log = [p \in Partitions |-> EmptyLog]
    /\ pc = "produce" /\ round = 1
    /\ unsent = Messages
    /\ queued = [p \in Partitions |-> 0]
    /\ delivered = 0
    /\ marks = [r \in 1 .. 2 |-> [p \in Partitions |-> Unread]]

-----------------------------------------------------------------------------
(* produce_messages() and the client.                                       *)

\* Mutation of Route: the messages of round 2 have keys of their own, too.
RouteByMessage == Used

\* The partitions a message's key may lead to.
Route == IF round = 1 THEN Used ELSE {keyed}

Idle == \A p \in Partitions : queued[p] = 0

Produce ==
    /\ pc = "produce"
    /\ unsent > 0
    /\ Config.flushEach => Idle
    /\ \E p \in Route : queued' = [queued EXCEPT ![p] = @ + 1]
    /\ unsent' = unsent - 1
    /\ UNCHANGED <<topic, keyed, log, pc, round, delivered, marks>>

\* S6 sets linger.ms = 0 and batch.size = 1; S7 lets batches grow.
MaxBatch(p) == IF topic = "bytes" THEN queued[p] ELSE 1

\* A batch is appended, or not, and its messages are reported: as errors also
\* when only the answer was lost.  flush() and the loop's end wait for it.
Settle(p) ==
    /\ queued[p] > 0
    /\ \E n \in 1 .. MaxBatch(p) :
          /\ queued' = [queued EXCEPT ![p] = @ - n]
          /\ \/ /\ log' = [log EXCEPT ![p] = Appended(@, n, Config.size)]
                /\ delivered' \in {delivered, delivered + n}
             \/ UNCHANGED <<log, delivered>>
    /\ UNCHANGED <<topic, keyed, pc, round, unsent, marks>>

Flushed ==
    /\ pc = "produce"
    /\ unsent = 0 /\ Idle
    /\ pc' = "wait"
    /\ UNCHANGED <<topic, keyed, log, round, clientVars, marks>>

-----------------------------------------------------------------------------
(* The wait, the check, and the broker's cleaner.                           *)

\* Mutation of Excess: the cap is taken to hold for the whole topic.
ExcessOfTopic(p) ==
    \/ Config.cap = Unlimited
    \/ \E q \in Partitions \ {p} : Kept(log[p]) + Kept(log[q]) > Config.cap

\* Retention may delete from p: all messages are old, or the cap is exceeded.
Excess(p) == Config.cap = Unlimited \/ Kept(log[p]) > Config.cap

Clean(p) ==
    /\ HasClosed(log[p])
    /\ Excess(p)
    /\ log' = [log EXCEPT ![p] = Trimmed(@)]
    /\ UNCHANGED <<topic, keyed, pc, round, clientVars, marks>>

\* The sleep is over.  rpk prints the watermarks, or nothing.  S7 produces
\* once more, to the topic as it is.
Check ==
    /\ pc = "wait"
    /\ \/ marks' = [marks EXCEPT ![round] = [p \in Partitions |->
              [low |-> LogStart(log[p]), high |-> log[p].end]]]
       \/ UNCHANGED marks
    /\ IF topic = "bytes" /\ round = 1
       THEN pc' = "produce" /\ round' = 2 /\ unsent' = Again
       ELSE pc' = "ended" /\ UNCHANGED <<round, unsent>>
    /\ UNCHANGED <<topic, keyed, log, queued, delivered>>

Next ==
    \/ Produce \/ Flushed \/ Check
    \/ \E p \in Partitions : Settle(p) \/ Clean(p)

\* The scripts produce until all is settled, and the cleaner runs again and again.
Fairness ==
    /\ WF_vars(Produce \/ \E p \in Partitions : Settle(p))
    /\ \A p \in Partitions : WF_vars(Clean(p))

Spec == Init /\ [][Next]_vars
FairSpec == Spec /\ Fairness

-----------------------------------------------------------------------------
(* Properties                                                               *)

\* Retention takes from a partition only what that partition alone brought
\* over the limit: in S6 more than a segment (so never from the large one), in
\* S7 more than the cap, whatever the other partitions hold.
LossNeedsOverflow ==
    \A p \in Partitions : LogStart(log[p]) > 0 =>
        log[p].end > IF Config.cap = Unlimited THEN Config.size ELSE Config.cap

\* The comparison of S7: from the first check to the second the low watermark
\* moves for the keyed partition only, unless the first showed the cleaner
\* behind its work.
OnlyKeyedMoves ==
    \A p \in Partitions \ {keyed} :
        marks[1][p] # Unread /\ marks[2][p].low > marks[1][p].low =>
            marks[1][p].high - marks[1][p].low > Cap

\* The claim of round 2 of S6: of what arrives in small batches retention leaves
\* no more than one small segment.  (In S7 one batch may hold it all, and then
\* nothing is ever trimmed.)
RetentionFires == <>[](topic = "tiny" => Kept(log[keyed]) <= Tiny)

-----------------------------------------------------------------------------
(* The parts of the inductive invariant.                                    *)

TypeOK ==
    /\ topic \in DOMAIN Topics
    /\ keyed \in Partitions
    /\ log \in [Partitions -> [segments : (SUBSET Nat) \ {{}}, end : Nat]]
    /\ pc \in {"produce", "wait", "ended"}
    /\ round \in 1 .. 2
    /\ unsent \in Nat /\ delivered \in Nat
    /\ queued \in [Partitions -> Nat]
    /\ marks \in [1 .. 2 -> [Partitions -> [low : Nat \cup {-1}, high : Nat \cup {-1}]]]

\* A segment but the first was opened behind a full one, for a batch.
SegmentInv ==
    \A p \in Partitions : \A b \in log[p].segments :
        b = 0 \/ (Config.size <= b /\ b < log[p].end)

\* Round 2 finds the client empty, and fills the keyed partition only.
RoundInv ==
    /\ round = 2 => topic = "bytes" /\ \A p \in Partitions \ {keyed} : queued[p] = 0
    /\ pc = "wait" => Idle
    /\ round = 1 => \A p \in Partitions :
          marks[2][p] = Unread /\ (pc # "ended" => marks[1][p] = Unread)

\* In round 2 the other partitions end where they did, and have lost nothing
\* since but for what was over the cap already.
MarkInv ==
    round = 2 => \A p \in Partitions \ {keyed} : marks[1][p] # Unread =>
        /\ marks[1][p].high = log[p].end
        /\ marks[1][p].low <= LogStart(log[p])
        /\ LogStart(log[p]) > marks[1][p].low => marks[1][p].high - marks[1][p].low > Cap

IInv == TypeOK /\ SegmentInv /\ RoundInv /\ MarkInv /\ LossNeedsOverflow /\ OnlyKeyedMoves
=============================================================================
