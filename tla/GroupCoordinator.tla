--------------------------- MODULE GroupCoordinator -------------------------
(***************************************************************************)
(* The group coordinator of the broker and the consumer library that talks *)
(* to it.  External code: it is modelled from how the consumers of the     *)
(* repository configure it (group.id, auto.offset.reset = earliest, the    *)
(* default enable.auto.commit) and rely on it (subscribe, poll, close).    *)
(*                                                                         *)
(* Membership is eager: every change of the group starts a rebalance, for  *)
(* which each member commits, gives up its partitions and joins again; the *)
(* new assignment is made when all have joined.                            *)
(***************************************************************************)
EXTENDS Integers, FiniteSets

CONSTANTS Consumers, Partitions

NoOffset == -1
Nobody == "nobody"

VARIABLES owned,     \* the partitions each consumer's library was assigned
          pos,       \* the next offset it fetches
          stored     \* the offset it would commit

localVars == <<owned, pos, stored>>

VARIABLES members,   \* who the coordinator counts as alive
          stable,    \* FALSE while a rebalance is under way
          joined,    \* members that have asked to join the next generation
          synced,    \* members that have picked up this generation's assignment
          target,    \* the assignment of this generation
          committed  \* the group's offsets, kept by the broker

groupVars == <<members, stable, joined, synced, target>>

GroupTypeOK ==
    /\ owned \in [Consumers -> SUBSET Partitions]
    /\ pos \in [Consumers -> [Partitions -> Nat]]
    /\ stored \in [Consumers -> [Partitions -> Nat \cup {NoOffset}]]
    /\ members \subseteq Consumers
    /\ stable \in BOOLEAN
    /\ joined \subseteq Consumers
    /\ synced \subseteq Consumers
    /\ target \in [Partitions -> Consumers \cup {Nobody}]
    /\ committed \in [Partitions -> Nat \cup {NoOffset}]

GroupInit ==
    /\ owned = [c \in Consumers |-> {}]
    /\ pos = [c \in Consumers |-> [p \in Partitions |-> 0]]
    /\ stored = [c \in Consumers |-> [p \in Partitions |-> NoOffset]]
    /\ members = {}
    /\ stable = FALSE
    /\ joined = {}
    /\ synced = {}
    /\ target = [p \in Partitions |-> Nobody]
    /\ committed = [p \in Partitions |-> NoOffset]

-----------------------------------------------------------------------------
(* Offsets.                                                                 *)

\* Mutation of StartOffset: the start is taken to be behind the first message.
StartOffsetNext(p) == IF committed[p] = NoOffset THEN 1 ELSE committed[p]

\* auto.offset.reset = earliest: without a committed offset, from the start.
StartOffset(p) == IF committed[p] = NoOffset THEN 0 ELSE committed[p]

\* Mutation of Advance: stores the offset of the message handed out.
AdvanceStoresCurrent(c, p) ==
    /\ pos' = [pos EXCEPT ![c][p] = @ + 1]
    /\ stored' = [stored EXCEPT ![c][p] = pos[c][p]]

\* poll() hands out the next message of p and stores the offset behind it.
Advance(c, p) ==
    /\ pos' = [pos EXCEPT ![c][p] = @ + 1]
    /\ stored' = [stored EXCEPT ![c][p] = pos[c][p] + 1]

\* Mutation of CommitStored: commits of former members are accepted.
CommitUnfenced(c) ==
    committed' = [p \in Partitions |->
                     IF p \in owned[c] /\ stored[c][p] # NoOffset
                     THEN stored[c][p] ELSE committed[p]]

\* The broker takes a commit from members of the current generation only,
\* and it overwrites the offset it had.
CommitStored(c) ==
    committed' = IF c \in synced
                 THEN [p \in Partitions |->
                         IF p \in owned[c] /\ stored[c][p] # NoOffset
                         THEN stored[c][p] ELSE committed[p]]
                 ELSE committed

-----------------------------------------------------------------------------
(* Membership.                                                              *)

\* A member leaves or is removed: the others must join again.
Remove(c) ==
    /\ members' = members \ {c}
    /\ joined' = joined \ {c}
    /\ synced' = synced \ {c}
    /\ stable' = FALSE
    /\ UNCHANGED target

\* Inside poll(): a consumer that is not a member, or learns of a rebalance,
\* commits, gives its partitions up and asks to join.
JoinGroup(c) ==
    /\ c \notin members \/ (~stable /\ c \notin joined)
    /\ CommitStored(c)
    /\ owned' = [owned EXCEPT ![c] = {}]
    /\ members' = members \cup {c}
    /\ joined' = joined \cup {c}
    /\ stable' = FALSE
    /\ UNCHANGED <<pos, stored, synced, target>>

\* Inside poll(): the assignment of the new generation arrives, and the
\* committed offsets of its partitions are fetched.
SyncGroup(c) ==
    /\ stable
    /\ c \in members \ synced
    /\ synced' = synced \cup {c}
    /\ owned' = [owned EXCEPT ![c] = {p \in Partitions : target[p] = c}]
    /\ pos' = [pos EXCEPT ![c] = [p \in Partitions |->
                  IF target[p] = c THEN StartOffset(p) ELSE @[p]]]
    /\ stored' = [stored EXCEPT ![c] = [p \in Partitions |-> NoOffset]]
    /\ UNCHANGED <<members, stable, joined, target, committed>>

\* close() commits what is stored and leaves the group.
LeaveGroup(c) ==
    /\ owned' = [owned EXCEPT ![c] = {}]
    /\ CommitStored(c)
    /\ IF c \in members THEN Remove(c) ELSE UNCHANGED groupVars
    /\ UNCHANGED <<pos, stored>>

\* The partitions are spread evenly over the members.
Balanced(t, S) ==
    /\ \A p \in Partitions : t[p] \in S
    /\ \A c, d \in S : Cardinality({p \in Partitions : t[p] = c})
                         <= Cardinality({p \in Partitions : t[p] = d}) + 1

\* Mutation of NextGeneration: members that have not joined are not waited for.
NextGenerationEarly ==
    /\ ~stable
    /\ joined # {}
    /\ \E t \in [Partitions -> members] : Balanced(t, members) /\ target' = t
    /\ stable' = TRUE
    /\ joined' = {}
    /\ synced' = {}
    /\ UNCHANGED <<localVars, members, committed>>

\* All members have joined: a new generation begins.
NextGeneration ==
    /\ ~stable
    /\ members # {}
    /\ joined = members
    /\ \E t \in [Partitions -> members] : Balanced(t, members) /\ target' = t
    /\ stable' = TRUE
    /\ joined' = {}
    /\ synced' = {}
    /\ UNCHANGED <<localVars, members, committed>>
=============================================================================
