------------------------- MODULE ConsumerGroupProofs ------------------------
(***************************************************************************)
(* Proofs about ConsumerGroup for any consumers, partitions, log lengths   *)
(* and number of faults: one owner per partition, losses bounded by stops, *)
(* and the refinement of GroupContract.                                     *)
(***************************************************************************)
EXTENDS ConsumerGroup, FiniteSetTheorems, WellFoundedInduction, TLAPS

LEMMA MessageFacts ==
    ASSUME NEW p \in Partitions, NEW o \in Nat
    PROVE  <<p, o>> \in Messages <=> o < LogEnd[p]
BY GroupAssumption DEF Messages

\* What a commit leaves in the broker, read as positions to start from.
LEMMA CommitFacts ==
    ASSUME IInv, NEW c \in Consumers, CommitStored(c), NEW p \in Partitions
    PROVE  /\ committed' \in [Partitions -> Nat \cup {NoOffset}]
           /\ StartOffset(p) \in Nat /\ StartOffset(p)' \in Nat
           /\ StartOffset(p) <= StartOffset(p)'
           /\ \/ StartOffset(p)' = StartOffset(p)
              \/ c \in synced /\ p \in owned[c] /\ StartOffset(p)' = pos[c][p]
<1> USE DEF IInv, NoOffset
<1>1. CASE c \in synced /\ p \in owned[c] /\ stored[c][p] # NoOffset
  <2>1. stored[c][p] = pos[c][p] /\ StartOffset(p) <= pos[c][p] /\ pos[c][p] \in Nat
    BY <1>1 DEF CursorInv, TypeOK, GroupTypeOK
  <2>2. committed'[p] = pos[c][p]
    BY <1>1, <2>1 DEF CommitStored
  <2>3. committed' \in [Partitions -> Nat \cup {NoOffset}]
    BY DEF CommitStored, TypeOK, GroupTypeOK
  <2> QED BY <1>1, <2>1, <2>2, <2>3 DEF StartOffset, TypeOK, GroupTypeOK
<1>2. CASE ~(c \in synced /\ p \in owned[c] /\ stored[c][p] # NoOffset)
  <2>1. committed'[p] = committed[p]
    BY <1>2 DEF CommitStored, TypeOK, GroupTypeOK
  <2>2. committed' \in [Partitions -> Nat \cup {NoOffset}]
    BY DEF CommitStored, TypeOK, GroupTypeOK
  <2> QED BY <2>1, <2>2 DEF StartOffset, TypeOK, GroupTypeOK
<1> QED BY <1>1, <1>2

-----------------------------------------------------------------------------
(* Type correctness.                                                        *)

LEMMA TypeStep == IInv /\ [Next]_vars => TypeOK'
<1> SUFFICES ASSUME IInv, [Next]_vars PROVE TypeOK'
  OBVIOUS
<1> USE DEF IInv, TypeOK, GroupTypeOK, procVars, localVars, groupVars, seenVars, faultVars
<1>1. ASSUME NEW c \in Consumers, Start(c) PROVE TypeOK'
  BY <1>1 DEF Start
<1>2. ASSUME NEW c \in Consumers, PollMessage(c) PROVE TypeOK'
  <2>1. PICK p \in owned[c] :
          /\ pos[c][p] < LogEnd[p]
          /\ inHand' = [inHand EXCEPT ![c] = <<p, pos[c][p]>>]
          /\ pos' = [pos EXCEPT ![c][p] = @ + 1]
          /\ stored' = [stored EXCEPT ![c][p] = pos[c][p] + 1]
    BY <1>2 DEF PollMessage, Advance
  <2>2. p \in Partitions /\ pos[c][p] \in Nat
    OBVIOUS
  <2>3. <<p, pos[c][p]>> \in Messages
    BY <2>1, <2>2, MessageFacts
  <2>4. pos' \in [Consumers -> [Partitions -> Nat]]
    BY <2>1, <2>2
  <2>5. stored' \in [Consumers -> [Partitions -> Nat \cup {NoOffset}]]
    BY <2>1, <2>2
  <2> QED BY <1>2, <2>1, <2>3, <2>4, <2>5 DEF PollMessage, Advance
<1>3. ASSUME NEW c \in Consumers, Handle(c) PROVE TypeOK'
  BY <1>3 DEF Handle, Release, HandInv
<1>4. ASSUME NEW c \in Consumers, Interrupt(c) \/ Kill(c) PROVE TypeOK'
  <2>1. dropped' \subseteq Messages
    BY <1>4 DEF Interrupt, Kill, Abandon, HandInv
  <2>2. /\ kills' \in Nat /\ interrupts' \in Nat /\ stalls' \in Nat
        /\ kills' + interrupts' + stalls' <= MaxFaults
    BY <1>4, GroupAssumption DEF Interrupt, Kill, FaultsLeft
  <2> QED BY <1>4, <2>1, <2>2 DEF Interrupt, Kill, Abandon, Release
<1>5. ASSUME NEW c \in Consumers, Close(c) \/ AutoCommit(c) \/ Join(c) PROVE TypeOK'
  <2>1. CommitStored(c)
    BY <1>5 DEF Close, LeaveGroup, AutoCommit, Join, JoinGroup
  <2>2. committed' \in [Partitions -> Nat \cup {NoOffset}]
    BY <2>1 DEF CommitStored
  <2> QED BY <1>5, <2>2, ZenonT(60) DEF Close, LeaveGroup, AutoCommit, Join, JoinGroup, Remove
<1>6. ASSUME NEW c \in Consumers, Sync(c) PROVE TypeOK'
  <2>1. \A p \in Partitions : StartOffset(p) \in Nat
    BY DEF StartOffset, NoOffset
  <2> QED BY <1>6, <2>1 DEF Sync, SyncGroup
<1>7. CASE Rebalance
  BY <1>7 DEF Rebalance, NextGeneration
<1>8. ASSUME NEW c \in Consumers, ExpireDead(c) PROVE TypeOK'
  BY <1>8 DEF ExpireDead, Remove
<1>9. ASSUME NEW c \in Consumers, ExpireStalled(c) PROVE TypeOK'
  <2>1. /\ kills' \in Nat /\ interrupts' \in Nat /\ stalls' \in Nat
        /\ kills' + interrupts' + stalls' <= MaxFaults
    BY <1>9, GroupAssumption DEF ExpireStalled, FaultsLeft
  <2> QED BY <1>9, <2>1 DEF ExpireStalled, Remove
<1>10. CASE UNCHANGED vars
  BY <1>10 DEF vars
<1> QED
  BY <1>1, <1>2, <1>3, <1>4, <1>5, <1>6, <1>7, <1>8, <1>9, <1>10 DEF Next, Loop

-----------------------------------------------------------------------------
(* Ownership.                                                               *)

LEMMA HandStep == IInv /\ [Next]_vars => HandInv'
<1> SUFFICES ASSUME IInv, [Next]_vars, NEW d \in Consumers, proc'[d] = "handle"
             PROVE  inHand'[d] \in Messages
  BY DEF HandInv
<1> USE DEF IInv, TypeOK, GroupTypeOK, HandInv, procVars
<1>1. ASSUME NEW c \in Consumers, PollMessage(c) PROVE inHand'[d] \in Messages
  <2>1. PICK p \in owned[c] :
          /\ pos[c][p] < LogEnd[p]
          /\ inHand' = [inHand EXCEPT ![c] = <<p, pos[c][p]>>]
    BY <1>1 DEF PollMessage, Advance
  <2>2. <<p, pos[c][p]>> \in Messages
    BY <2>1, MessageFacts
  <2> QED BY <1>1, <2>1, <2>2 DEF PollMessage, Advance
<1>2. ASSUME NEW c \in Consumers,
             Start(c) \/ Handle(c) \/ Interrupt(c) \/ Close(c) \/ Kill(c)
      PROVE  inHand'[d] \in Messages
  BY <1>2 DEF Start, Handle, Interrupt, Close, LeaveGroup, Kill, Abandon, Release
<1>3. ASSUME UNCHANGED procVars PROVE inHand'[d] \in Messages
  BY <1>3
<1>4. ASSUME NEW c \in Consumers,
             AutoCommit(c) \/ Join(c) \/ Sync(c) \/ ExpireDead(c) \/ ExpireStalled(c)
      PROVE  UNCHANGED procVars
  BY <1>4 DEF AutoCommit, Join, JoinGroup, Sync, SyncGroup, ExpireDead, ExpireStalled
<1> QED BY <1>1, <1>2, <1>3, <1>4 DEF Next, Loop, Rebalance, NextGeneration, vars

LEMMA OwnStep == IInv /\ [Next]_vars => OwnInv'
<1> SUFFICES ASSUME IInv, [Next]_vars PROVE OwnInv'
  OBVIOUS
<1> USE DEF IInv, TypeOK, GroupTypeOK, OwnInv, procVars, localVars, groupVars
<1>1. ASSUME NEW c \in Consumers, Start(c) \/ PollMessage(c) \/ Handle(c)
             \/ Interrupt(c) \/ AutoCommit(c)
      PROVE  OwnInv'
  BY <1>1 DEF Start, PollMessage, Advance, Handle, Interrupt, AutoCommit
<1>2. ASSUME NEW c \in Consumers, Kill(c) PROVE OwnInv'
  BY <1>2 DEF Kill
<1>3. ASSUME NEW c \in Consumers, Close(c) PROVE OwnInv'
  BY <1>3 DEF Close, LeaveGroup, Remove
<1>4. ASSUME NEW c \in Consumers, Join(c) PROVE OwnInv'
  BY <1>4 DEF Join, JoinGroup
<1>5. ASSUME NEW c \in Consumers, Sync(c) PROVE OwnInv'
  BY <1>5 DEF Sync, SyncGroup
<1>6. CASE Rebalance
  BY <1>6 DEF Rebalance, NextGeneration
<1>7. ASSUME NEW c \in Consumers, ExpireDead(c) \/ ExpireStalled(c) PROVE OwnInv'
  BY <1>7 DEF ExpireDead, ExpireStalled, Remove
<1>8. CASE UNCHANGED vars
  BY <1>8 DEF vars
<1> QED
  BY <1>1, <1>2, <1>3, <1>4, <1>5, <1>6, <1>7, <1>8 DEF Next, Loop

\* Two different members of the current generation own different partitions.
LEMMA OwnersDiffer ==
    ASSUME OwnInv, NEW c \in synced, NEW d \in synced, NEW p \in owned[c], p \in owned[d]
    PROVE  c = d
BY DEF OwnInv

LEMMA CursorStep == IInv /\ [Next]_vars => CursorInv'
<1> SUFFICES ASSUME IInv, [Next]_vars PROVE CursorInv'
  OBVIOUS
<1> USE DEF IInv, TypeOK, GroupTypeOK, procVars, localVars, groupVars
<1>1. ASSUME NEW c \in Consumers, PollMessage(c) PROVE CursorInv'
  <2>1. PICK p \in owned[c] :
          /\ pos' = [pos EXCEPT ![c][p] = @ + 1]
          /\ stored' = [stored EXCEPT ![c][p] = pos[c][p] + 1]
    BY <1>1 DEF PollMessage, Advance
  <2>2. UNCHANGED <<synced, owned, committed>>
    BY <1>1 DEF PollMessage, Advance
  <2>3. \A q \in Partitions : StartOffset(q)' = StartOffset(q) /\ StartOffset(q) \in Nat
    BY <2>2 DEF StartOffset, NoOffset
  <2> QED BY <2>1, <2>2, <2>3 DEF CursorInv
<1>2. ASSUME NEW c \in Consumers, Start(c) \/ Handle(c) \/ Interrupt(c)
      PROVE  CursorInv'
  BY <1>2 DEF Start, Handle, Interrupt, CursorInv, StartOffset
<1>3. ASSUME NEW c \in Consumers, Kill(c) PROVE CursorInv'
  BY <1>3 DEF Kill, CursorInv, StartOffset
<1>4. ASSUME NEW c \in Consumers, Close(c) \/ AutoCommit(c) \/ Join(c)
      PROVE  CursorInv'
  <2>1. CommitStored(c) /\ UNCHANGED <<pos, stored>>
    BY <1>4 DEF Close, LeaveGroup, AutoCommit, Join, JoinGroup
  <2>2. synced' \subseteq synced /\ \A d \in synced : owned'[d] \subseteq owned[d]
    BY <1>4 DEF Close, LeaveGroup, AutoCommit, Join, JoinGroup, Remove, OwnInv
  <2>3. SUFFICES ASSUME NEW d \in synced, NEW p \in owned[d]
                 PROVE  StartOffset(p)' <= pos[d][p]
    BY <2>1, <2>2 DEF CursorInv
  <2>4. \/ StartOffset(p)' = StartOffset(p)
        \/ c \in synced /\ p \in owned[c] /\ StartOffset(p)' = pos[c][p]
    BY <2>1, CommitFacts DEF OwnInv
  <2>5. d \in Consumers /\ pos[d][p] \in Nat
    BY DEF OwnInv
  <2> QED BY <2>4, <2>5, OwnersDiffer DEF CursorInv
<1>5. ASSUME NEW c \in Consumers, Sync(c) PROVE CursorInv'
  <2>1. \A q \in Partitions : StartOffset(q)' = StartOffset(q) /\ StartOffset(q) \in Nat
    BY <1>5 DEF Sync, SyncGroup, StartOffset, NoOffset
  <2>2. /\ \A p \in owned'[c] : pos'[c][p] = StartOffset(p) /\ stored'[c][p] = NoOffset
        /\ owned'[c] \subseteq Partitions
    BY <1>5 DEF Sync, SyncGroup
  <2>3. \A d \in synced' : d # c =>
            d \in synced /\ owned'[d] = owned[d] /\ pos'[d] = pos[d] /\ stored'[d] = stored[d]
    BY <1>5 DEF Sync, SyncGroup, OwnInv
  <2>4. SUFFICES ASSUME NEW d \in synced', NEW p \in owned'[d]
                 PROVE  /\ StartOffset(p)' <= pos'[d][p]
                        /\ stored'[d][p] \in {NoOffset, pos'[d][p]}
    BY DEF CursorInv
  <2>5. CASE d = c
    BY <2>1, <2>2, <2>5
  <2>6. CASE d # c
    <3>1. d \in synced /\ p \in owned[d]
      BY <2>3, <2>6
    <3>2. p \in Partitions
      BY <3>1 DEF OwnInv
    <3> QED BY <2>1, <2>3, <2>6, <3>1, <3>2 DEF CursorInv
  <2> QED BY <2>5, <2>6
<1>6. CASE Rebalance
  BY <1>6 DEF Rebalance, NextGeneration, CursorInv
<1>7. ASSUME NEW c \in Consumers, ExpireDead(c) \/ ExpireStalled(c) PROVE CursorInv'
  BY <1>7 DEF ExpireDead, ExpireStalled, Remove, CursorInv, StartOffset
<1>8. CASE UNCHANGED vars
  BY <1>8 DEF vars, CursorInv, StartOffset
<1> QED
  BY <1>1, <1>2, <1>3, <1>4, <1>5, <1>6, <1>7, <1>8 DEF Next, Loop

-----------------------------------------------------------------------------
(* What each step does to the messages in hand.                             *)

\* poll() takes the message at the position of one owned partition.
LEMMA TakeFacts ==
    ASSUME IInv, NEW c \in Consumers, PollMessage(c)
    PROVE  \E p \in owned[c] :
               /\ <<p, pos[c][p]>> \in Messages
               /\ InHand' = InHand \cup {<<p, pos[c][p]>>}
               /\ pos' = [pos EXCEPT ![c][p] = @ + 1]
<1> USE DEF IInv, TypeOK, GroupTypeOK
<1>1. PICK p \in owned[c] :
        /\ pos[c][p] < LogEnd[p]
        /\ inHand' = [inHand EXCEPT ![c] = <<p, pos[c][p]>>]
        /\ pos' = [pos EXCEPT ![c][p] = @ + 1]
  BY DEF PollMessage, Advance
<1>2. <<p, pos[c][p]>> \in Messages
  BY <1>1, MessageFacts
<1>3. InHand' = InHand \cup {<<p, pos[c][p]>>}
  BY <1>1 DEF PollMessage, Advance, InHand
<1> QED BY <1>1, <1>2, <1>3

\* A process lets go of its message; another one may hold the same message.
LEMMA ReleaseFacts ==
    ASSUME IInv, NEW c \in Consumers, NEW state \in {"poll", "closing", "gone"},
           Release(c, state)
    PROVE  IF proc[c] = "handle"
           THEN inHand[c] \in InHand /\ InHand' \in {InHand, InHand \ {inHand[c]}}
           ELSE InHand' = InHand
<1> USE DEF IInv, TypeOK, GroupTypeOK
<1>1. CASE proc[c] = "handle" /\ \E d \in Consumers : /\ d # c
                                                      /\ proc[d] = "handle"
                                                      /\ inHand[d] = inHand[c]
  BY <1>1 DEF Release, InHand
<1>2. CASE proc[c] = "handle" /\ ~\E d \in Consumers : /\ d # c
                                                       /\ proc[d] = "handle"
                                                       /\ inHand[d] = inHand[c]
  BY <1>2 DEF Release, InHand
<1>3. CASE proc[c] # "handle"
  BY <1>3 DEF Release, InHand
<1> QED BY <1>1, <1>2, <1>3

\* All other steps leave the messages in hand, handled and dropped alone.
LEMMA OtherFacts ==
    ASSUME IInv, NEW c \in Consumers,
           \/ Start(c) \/ Close(c) \/ AutoCommit(c) \/ Join(c) \/ Sync(c)
           \/ ExpireDead(c) \/ ExpireStalled(c)
    PROVE  UNCHANGED <<InHand, seenVars, kills, interrupts>>
<1> USE DEF IInv, TypeOK, GroupTypeOK, procVars, faultVars
<1>1. UNCHANGED <<seenVars, kills, interrupts, inHand>>
  BY DEF Start, Close, LeaveGroup, AutoCommit, Join, JoinGroup, Sync, SyncGroup, ExpireDead, ExpireStalled
<1>2. \A d \in Consumers : proc'[d] = "handle" <=> proc[d] = "handle"
  BY DEF Start, Close, LeaveGroup, AutoCommit, Join, JoinGroup, Sync, SyncGroup, ExpireDead, ExpireStalled
<1> QED BY <1>1, <1>2 DEF InHand

\* A message that is accounted for stays accounted for.
LEMMA AccountedGrows == IInv /\ [Next]_vars => Accounted \subseteq Accounted'
<1> SUFFICES ASSUME IInv, [Next]_vars PROVE Accounted \subseteq Accounted'
  OBVIOUS
<1>1. ASSUME NEW c \in Consumers, PollMessage(c) PROVE Accounted \subseteq Accounted'
  BY <1>1, TakeFacts, ZenonT(60) DEF PollMessage, Advance, Accounted, seenVars
<1>2. ASSUME NEW c \in Consumers, Handle(c) PROVE Accounted \subseteq Accounted'
  BY <1>2, ReleaseFacts DEF Handle, Accounted
<1>3. ASSUME NEW c \in Consumers, Interrupt(c) \/ Kill(c)
      PROVE  Accounted \subseteq Accounted'
  <2>1. \/ Abandon(c, "closing")
        \/ Abandon(c, "gone")
    BY <1>3 DEF Interrupt, Kill
  <2>2. UNCHANGED handled
    BY <1>3 DEF Interrupt, Kill
  <2> QED BY <2>1, <2>2, ReleaseFacts DEF Abandon, Accounted
<1>4. ASSUME UNCHANGED <<InHand, seenVars>> PROVE Accounted \subseteq Accounted'
  BY <1>4 DEF Accounted, seenVars
<1>5. CASE Rebalance \/ UNCHANGED vars
  BY <1>4, <1>5 DEF Rebalance, NextGeneration, vars, procVars, InHand
<1> QED BY <1>1, <1>2, <1>3, <1>4, <1>5, OtherFacts DEF Next, Loop

LEMMA AccountedStep == IInv /\ [Next]_vars => AccountedInv'
<1> SUFFICES ASSUME IInv, [Next]_vars PROVE AccountedInv'
  OBVIOUS
<1>0. Accounted \subseteq Accounted'
  BY AccountedGrows
<1> USE DEF IInv, TypeOK, GroupTypeOK, procVars, localVars, groupVars
<1>1. ASSUME NEW c \in Consumers, PollMessage(c) PROVE AccountedInv'
  <2>1. PICK p \in owned[c] :
          /\ InHand' = InHand \cup {<<p, pos[c][p]>>}
          /\ pos' = [pos EXCEPT ![c][p] = @ + 1]
    BY <1>1, TakeFacts
  <2>2. <<p, pos[c][p]>> \in Accounted'
    BY <2>1 DEF Accounted
  <2>3. \A q \in Partitions : StartOffset(q)' = StartOffset(q)
    BY <1>1 DEF PollMessage, Advance, StartOffset
  <2>4. p \in Partitions /\ pos[c][p] \in Nat
    OBVIOUS
  <2>5. \A d \in Consumers, q \in Partitions :
           pos'[d][q] = IF d = c /\ q = p THEN pos[c][p] + 1 ELSE pos[d][q]
    BY <2>1, <2>4
  <2>6. ASSUME NEW d \in Consumers, NEW q \in Partitions, NEW o \in 0 .. pos'[d][q] - 1
        PROVE  <<q, o>> \in Accounted'
    <3>1. CASE d = c /\ q = p /\ o = pos[c][p]
      BY <2>2, <3>1
    <3>2. CASE ~(d = c /\ q = p /\ o = pos[c][p])
      BY <3>2, <2>4, <2>5, <1>0 DEF AccountedInv
    <3> QED BY <3>1, <3>2
  <2> QED BY <2>3, <2>6, <1>0 DEF AccountedInv
<1>2. ASSUME UNCHANGED <<pos, committed>> PROVE AccountedInv'
  BY <1>0, <1>2 DEF AccountedInv, StartOffset
<1>3. ASSUME NEW c \in Consumers, Close(c) \/ AutoCommit(c) \/ Join(c)
      PROVE  AccountedInv'
  <2>1. CommitStored(c) /\ UNCHANGED pos
    BY <1>3 DEF Close, LeaveGroup, AutoCommit, Join, JoinGroup
  <2>2. ASSUME NEW p \in Partitions, NEW o \in 0 .. StartOffset(p)' - 1
        PROVE  <<p, o>> \in Accounted'
    <3>1. StartOffset(p)' = StartOffset(p) \/ StartOffset(p)' = pos[c][p]
      BY <2>1, CommitFacts
    <3> QED BY <3>1, <1>0 DEF AccountedInv
  <2> QED BY <2>1, <2>2, <1>0 DEF AccountedInv
<1>4. ASSUME NEW c \in Consumers, Sync(c) PROVE AccountedInv'
  <2>1. \A q \in Partitions : StartOffset(q)' = StartOffset(q)
    BY <1>4 DEF Sync, SyncGroup, StartOffset
  <2>2. \A d \in Consumers, q \in Partitions : pos'[d][q] \in {pos[d][q], StartOffset(q)}
    BY <1>4 DEF Sync, SyncGroup
  <2>3. ASSUME NEW d \in Consumers, NEW q \in Partitions, NEW o \in 0 .. pos'[d][q] - 1
        PROVE  <<q, o>> \in Accounted'
    BY <2>2, <1>0 DEF AccountedInv
  <2> QED BY <2>1, <2>3, <1>0 DEF AccountedInv
<1>5. ASSUME NEW c \in Consumers,
             \/ Start(c) \/ Handle(c) \/ Interrupt(c) \/ Kill(c)
             \/ ExpireDead(c) \/ ExpireStalled(c)
      PROVE  UNCHANGED <<pos, committed>>
  BY <1>5 DEF Start, Handle, Interrupt, Kill, ExpireDead, ExpireStalled
<1>6. CASE Rebalance \/ UNCHANGED vars
  BY <1>2, <1>6 DEF Rebalance, NextGeneration, vars
<1> QED BY <1>1, <1>2, <1>3, <1>4, <1>5, <1>6 DEF Next, Loop

LEMMA DroppedStep == IInv /\ [Next]_vars => DroppedInv'
<1> SUFFICES ASSUME IInv, [Next]_vars PROVE DroppedInv'
  OBVIOUS
<1> USE DEF IInv, DroppedInv
<1>1. ASSUME NEW c \in Consumers, Interrupt(c) \/ Kill(c) PROVE DroppedInv'
  <2>1. dropped' \in {dropped, dropped \cup {inHand[c]}}
    BY <1>1 DEF Interrupt, Kill, Abandon
  <2>2. \/ interrupts' = interrupts + 1 /\ kills' = kills
        \/ kills' = kills + 1 /\ interrupts' = interrupts
    BY <1>1 DEF Interrupt, Kill
  <2>3. /\ IsFiniteSet(dropped \cup {inHand[c]})
        /\ \/ Cardinality(dropped \cup {inHand[c]}) = Cardinality(dropped)
           \/ Cardinality(dropped \cup {inHand[c]}) = Cardinality(dropped) + 1
    BY FS_AddElement
  <2>4. Cardinality(dropped) \in Nat /\ kills \in Nat /\ interrupts \in Nat
    BY FS_CardinalityType DEF TypeOK, GroupTypeOK
  <2> QED BY <2>1, <2>2, <2>3, <2>4
<1>2. ASSUME UNCHANGED <<dropped, kills, interrupts>> PROVE DroppedInv'
  BY <1>2
<1>3. ASSUME NEW c \in Consumers, PollMessage(c) \/ Handle(c)
      PROVE  UNCHANGED <<dropped, kills, interrupts>>
  BY <1>3 DEF PollMessage, Advance, Handle, seenVars, faultVars
<1>4. ASSUME NEW c \in Consumers,
             \/ Start(c) \/ Close(c) \/ AutoCommit(c) \/ Join(c) \/ Sync(c)
             \/ ExpireDead(c) \/ ExpireStalled(c)
      PROVE  UNCHANGED <<dropped, kills, interrupts>>
  BY <1>4, OtherFacts DEF seenVars
<1>5. CASE Rebalance \/ UNCHANGED vars
  BY <1>2, <1>5 DEF Rebalance, NextGeneration, vars, seenVars, faultVars
<1> QED BY <1>1, <1>2, <1>3, <1>4, <1>5 DEF Next, Loop

-----------------------------------------------------------------------------
(* The theorems.                                                            *)

LEMMA InitIInv == Init => IInv
<1> SUFFICES ASSUME Init PROVE IInv
  OBVIOUS
<1> USE DEF Init, GroupInit
<1>1. TypeOK
  <2>1. /\ owned \in [Consumers -> SUBSET Partitions]
        /\ inHand \in [Consumers -> Messages \cup {NoMessage}]
        /\ target \in [Partitions -> Consumers \cup {Nobody}]
    OBVIOUS
  <2>2. pos \in [Consumers -> [Partitions -> Nat]]
    OBVIOUS
  <2>3. /\ stored \in [Consumers -> [Partitions -> Nat \cup {NoOffset}]]
        /\ committed \in [Partitions -> Nat \cup {NoOffset}]
    OBVIOUS
  <2>4. kills + interrupts + stalls <= MaxFaults
    BY GroupAssumption
  <2> QED BY <2>1, <2>2, <2>3, <2>4 DEF TypeOK, GroupTypeOK
<1>2. HandInv /\ OwnInv /\ CursorInv
  BY DEF HandInv, OwnInv, CursorInv
<1>3. AccountedInv
  BY DEF AccountedInv, StartOffset
<1>4. DroppedInv
  BY FS_EmptySet DEF DroppedInv
<1> QED BY <1>1, <1>2, <1>3, <1>4 DEF IInv

\* The inductive invariant holds in every reachable state.
THEOREM Invariance == Spec => []IInv
<1>1. Init => IInv
  BY InitIInv
<1>2. IInv /\ [Next]_vars => IInv'
  BY TypeStep, HandStep, OwnStep, CursorStep, AccountedStep, DroppedStep DEF IInv
<1> QED BY <1>1, <1>2, PTL DEF Spec

\* Type correctness of the processes, the coordinator and the offsets.
THEOREM TypeCorrect == Spec => []TypeOK
<1>1. IInv => TypeOK
  BY DEF IInv
<1> QED BY <1>1, Invariance, PTL

\* However many consumers start, stop and stall, and whenever the coordinator
\* expires them, no two members own the same partition.
THEOREM OneOwner == Spec => []SingleOwner
<1>1. IInv => SingleOwner
  BY DEF IInv, OwnInv, SingleOwner
<1> QED BY <1>1, Invariance, PTL

\* Committed offsets only skip messages that were in hand of a process when it
\* was stopped, one for each stop (consumer.py:37-69 under auto-commit).
THEOREM LossBounded == Spec => []LossOnlyByStops
<1>1. IInv => LossOnlyByStops
  <2> SUFFICES ASSUME IInv, NEW p \in Partitions, NEW o \in 0 .. committed[p] - 1
               PROVE  <<p, o>> \in Accounted
    BY DEF LossOnlyByStops, IInv, DroppedInv
  <2>1. o \in 0 .. StartOffset(p) - 1
    BY DEF IInv, TypeOK, GroupTypeOK, StartOffset, NoOffset
  <2> QED BY <2>1 DEF IInv, AccountedInv
<1> QED BY <1>1, Invariance, PTL

-----------------------------------------------------------------------------
(* Without failures nothing is handled twice.                               *)

\* A commit of a member in a group without failures moves the offsets of its
\* partitions to its positions, and no other offset.
LEMMA CalmCommit ==
    ASSUME IInv, CalmOwners, NEW c \in Consumers, CommitStored(c), NEW p \in Partitions
    PROVE  StartOffset(p)' = IF p \in owned[c] THEN pos[c][p] ELSE StartOffset(p)
<1> USE DEF IInv, TypeOK, GroupTypeOK, NoOffset
<1>1. CASE p \in owned[c]
  <2>1. c \in synced
    BY <1>1 DEF CalmOwners
  <2>2. committed'[p] = IF stored[c][p] # NoOffset THEN stored[c][p] ELSE committed[p]
    BY <1>1, <2>1 DEF CommitStored
  <2> QED BY <1>1, <2>2 DEF CalmOwners, StartOffset
<1>2. CASE p \notin owned[c]
  BY <1>2 DEF CommitStored, StartOffset
<1> QED BY <1>1, <1>2

LEMMA CalmOneOwner ==
    ASSUME IInv, CalmOwners, NEW c \in Consumers, NEW d \in Consumers,
           NEW p \in owned[c], p \in owned[d]
    PROVE  c = d
BY DEF IInv, CalmOwners, OwnInv

\* Commits keep the parts: what the consumer gives up is behind the offset it
\* has just committed.
LEMMA CalmCommitStep ==
    ASSUME IInv, CalmOwners, CalmFront, NEW c \in Consumers,
           Close(c) \/ AutoCommit(c) \/ Join(c)
    PROVE  CalmOwners' /\ CalmFront'
<1> USE DEF IInv, TypeOK, GroupTypeOK
<1>1. /\ CommitStored(c) /\ UNCHANGED <<pos, stored>>
      /\ owned' \in {owned, [owned EXCEPT ![c] = {}]}
  BY DEF Close, LeaveGroup, AutoCommit, Join, JoinGroup, localVars
<1>2. /\ \A d \in Consumers : owned'[d] \in {owned[d], {}}
      /\ \A d \in Consumers \ {c} : owned'[d] = owned[d]
  BY <1>1
<1>3. \A p \in Partitions :
         StartOffset(p)' = IF p \in owned[c] THEN pos[c][p] ELSE StartOffset(p)
  BY <1>1, CalmCommit
<1>4. \A d \in Consumers : /\ proc'[d] = "gone" => d \notin members'
                           /\ d \notin synced' \ joined' => owned'[d] = {}
  <2>1. CASE AutoCommit(c)
    BY <2>1 DEF AutoCommit, procVars, localVars, groupVars, CalmOwners
  <2>2. CASE Join(c)
    BY <2>2 DEF Join, JoinGroup, procVars, CalmOwners
  <2>3. CASE Close(c)
    BY <2>3 DEF Close, LeaveGroup, Remove, groupVars, CalmOwners, OwnInv
  <2> QED BY <2>1, <2>2, <2>3
<1>5. ASSUME NEW d \in Consumers, NEW p \in owned'[d]
      PROVE  \/ stored[d][p] = NoOffset /\ pos[d][p] = StartOffset(p)'
             \/ stored[d][p] = pos[d][p]
  <2>1. p \in Partitions /\ p \in owned[d]
    BY <1>2, <1>5
  <2>2. CASE d = c
    <3>1. StartOffset(p)' = pos[d][p]
      BY <1>3, <2>1, <2>2
    <3> QED BY <2>1, <3>1 DEF CalmOwners
  <2>3. CASE d # c
    <3>1. StartOffset(p)' = StartOffset(p)
      BY <1>3, <2>1, <2>3, CalmOneOwner
    <3> QED BY <2>1, <3>1 DEF CalmOwners
  <2> QED BY <2>2, <2>3
<1>6. CalmOwners'
  BY <1>1, <1>4, <1>5 DEF CalmOwners
<1>7. Accounted' = Accounted
  BY OtherFacts DEF Accounted, seenVars
<1>8. ASSUME NEW p \in Partitions, NEW o \in Nat, <<p, o>> \in Accounted
      PROVE  /\ \A d \in Consumers : p \in owned'[d] => o < pos[d][p]
             /\ (\A d \in Consumers : p \notin owned'[d]) => o < StartOffset(p)'
  <2>1. \A d \in Consumers : p \in owned'[d] => o < pos[d][p]
    BY <1>2, <1>8 DEF CalmFront
  <2>2. ASSUME \A d \in Consumers : p \notin owned'[d] PROVE o < StartOffset(p)'
    <3>1. CASE p \in owned[c]
      BY <1>3, <1>8, <3>1 DEF CalmFront
    <3>2. CASE p \notin owned[c]
      <4>1. \A d \in Consumers : p \notin owned[d]
        BY <1>2, <2>2, <3>2
      <4> QED BY <1>3, <1>8, <3>2, <4>1 DEF CalmFront
    <3> QED BY <3>1, <3>2
  <2> QED BY <2>1, <2>2
<1>9. CalmFront'
  BY <1>1, <1>7, <1>8 DEF CalmFront
<1> QED BY <1>6, <1>9

\* A new owner starts where the last one's commit put the group's offset.
LEMMA CalmSyncStep ==
    ASSUME IInv, CalmOwners, CalmFront, NEW c \in Consumers, Sync(c)
    PROVE  CalmOwners' /\ CalmFront'
<1> USE DEF IInv, TypeOK, GroupTypeOK
<1> DEFINE New == {p \in Partitions : target[p] = c}
<1>1. /\ stable /\ c \in members \ synced
      /\ synced' = synced \cup {c}
      /\ owned' = [owned EXCEPT ![c] = New]
      /\ pos' = [pos EXCEPT ![c] = [p \in Partitions |->
                    IF target[p] = c THEN StartOffset(p) ELSE @[p]]]
      /\ stored' = [stored EXCEPT ![c] = [p \in Partitions |-> NoOffset]]
      /\ UNCHANGED <<members, joined, target, committed, proc>>
  BY DEF Sync, SyncGroup, procVars
<1>2. \A p \in Partitions : StartOffset(p)' = StartOffset(p)
  BY <1>1 DEF StartOffset
<1>3. /\ owned'[c] = New
      /\ \A d \in Consumers \ {c} : /\ owned'[d] = owned[d] /\ pos'[d] = pos[d]
                                    /\ stored'[d] = stored[d]
      /\ \A p \in New : pos'[c][p] = StartOffset(p) /\ stored'[c][p] = NoOffset
  BY <1>1
<1>4. ASSUME NEW p \in New, NEW d \in Consumers PROVE p \notin owned[d]
  BY <1>1 DEF OwnInv, CalmOwners
<1>5. owned[c] = {} /\ c \notin joined
  BY <1>1 DEF CalmOwners, OwnInv
<1> HIDE DEF New
<1>6. \A d \in Consumers : /\ proc'[d] = "gone" => d \notin members'
                           /\ d \notin synced' \ joined' => owned'[d] = {}
  BY <1>1, <1>3, <1>5 DEF CalmOwners
<1>7. ASSUME NEW d \in Consumers, NEW p \in owned'[d]
      PROVE  \/ stored'[d][p] = NoOffset /\ pos'[d][p] = StartOffset(p)'
             \/ stored'[d][p] = pos'[d][p]
  <2>1. p \in Partitions
    BY <1>3, <1>7 DEF New
  <2>2. CASE d = c
    BY <1>2, <1>3, <1>7, <2>1, <2>2
  <2>3. CASE d # c
    BY <1>2, <1>3, <1>7, <2>1, <2>3 DEF CalmOwners
  <2> QED BY <2>2, <2>3
<1>8. CalmOwners'
  BY <1>6, <1>7 DEF CalmOwners
<1>9. Accounted' = Accounted
  BY OtherFacts DEF Accounted, seenVars
<1>10. ASSUME NEW p \in Partitions, NEW o \in Nat, <<p, o>> \in Accounted
       PROVE  /\ \A d \in Consumers : p \in owned'[d] => o < pos'[d][p]
              /\ (\A d \in Consumers : p \notin owned'[d]) => o < StartOffset(p)'
  <2>1. p \in New => o < pos'[c][p]
    BY <1>3, <1>4, <1>10 DEF CalmFront
  <2>2. \A d \in Consumers : p \in owned'[d] => o < pos'[d][p]
    BY <1>3, <1>10, <2>1 DEF CalmFront
  <2>3. (\A d \in Consumers : p \notin owned'[d]) => \A d \in Consumers : p \notin owned[d]
    BY <1>3, <1>5
  <2> QED BY <1>2, <1>10, <2>2, <2>3 DEF CalmFront
<1>11. CalmFront'
  BY <1>9, <1>10 DEF CalmFront
<1> QED BY <1>8, <1>11

\* The message poll() hands out is a new one.
LEMMA CalmPollStep ==
    ASSUME IInv, CalmOwners, CalmFront, CalmHands, NEW c \in Consumers, PollMessage(c)
    PROVE  CalmOwners' /\ CalmFront' /\ CalmHands'
<1> USE DEF IInv, TypeOK, GroupTypeOK
<1>1. PICK p \in owned[c] :
        /\ inHand' = [inHand EXCEPT ![c] = <<p, pos[c][p]>>]
        /\ pos' = [pos EXCEPT ![c][p] = @ + 1]
        /\ stored' = [stored EXCEPT ![c][p] = pos[c][p] + 1]
  BY DEF PollMessage, Advance
<1> DEFINE m == <<p, pos[c][p]>>
<1>2. /\ proc[c] = "poll" /\ proc' = [proc EXCEPT ![c] = "handle"]
      /\ UNCHANGED <<owned, members, joined, synced, committed, handled, dropped>>
  BY DEF PollMessage, groupVars, seenVars
<1>3. p \in Partitions /\ pos[c][p] \in Nat
  OBVIOUS
<1>4. /\ \A q \in Partitions : StartOffset(q)' = StartOffset(q)
      /\ \A d \in Consumers, q \in Partitions :
            /\ pos'[d][q] = IF d = c /\ q = p THEN pos[d][q] + 1 ELSE pos[d][q]
            /\ stored'[d][q] = IF d = c /\ q = p THEN pos[d][q] + 1 ELSE stored[d][q]
  BY <1>1, <1>2, <1>3 DEF StartOffset
<1>5. m \notin Accounted
  BY <1>1, <1>3 DEF CalmFront
<1>6. Accounted' = Accounted \cup {m}
  <2>1. InHand' = InHand \cup {m}
    BY <1>1, <1>2 DEF InHand
  <2> QED BY <1>2, <2>1 DEF Accounted
<1>7. CalmOwners'
  BY <1>2, <1>3, <1>4 DEF CalmOwners
<1>8. CalmFront'
  <2>1. ASSUME NEW q \in Partitions, NEW o \in Nat, <<q, o>> \in Accounted'
        PROVE  /\ \A d \in Consumers : q \in owned[d] => o < pos'[d][q]
               /\ (\A d \in Consumers : q \notin owned[d]) => o < StartOffset(q)'
    <3>1. CASE <<q, o>> \in Accounted
      BY <1>4, <2>1, <3>1 DEF CalmFront
    <3>2. CASE <<q, o>> = m
      <4>1. q = p /\ o = pos[c][p]
        BY <3>2
      <4> QED BY <1>1, <1>4, <4>1, CalmOneOwner
    <3> QED BY <1>6, <2>1, <3>1, <3>2
  <2> QED BY <1>2, <2>1 DEF CalmFront
<1>9. CalmHands'
  <2>1. \A d \in Consumers \ {c} : proc'[d] = proc[d] /\ inHand'[d] = inHand[d]
    BY <1>1, <1>2
  <2>2. inHand'[c] = m
    BY <1>1
  <2>3. \A d \in Consumers : proc[d] = "handle" => inHand[d] # m
    BY <1>5 DEF Accounted, InHand
  <2>4. m \notin handled'
    BY <1>2, <1>5 DEF Accounted
  <2> HIDE DEF m
  <2> QED BY <1>2, <2>1, <2>2, <2>3, <2>4 DEF CalmHands
<1> QED BY <1>7, <1>8, <1>9

\* What is handled is let go of, and nobody else has it.
LEMMA CalmHandleStep ==
    ASSUME IInv, CalmOwners, CalmFront, CalmHands, NEW c \in Consumers,
           Handle(c) \/ Interrupt(c)
    PROVE  /\ CalmOwners' /\ CalmFront' /\ CalmHands'
           /\ Handle(c) => handled \cap {inHand[c]} = {}
<1> USE DEF IInv, TypeOK, GroupTypeOK
<1>1. /\ UNCHANGED <<owned, pos, stored, members, joined, synced, committed>>
      /\ proc' \in {[proc EXCEPT ![c] = "poll"], [proc EXCEPT ![c] = "closing"]}
      /\ inHand' = [inHand EXCEPT ![c] = NoMessage]
      /\ handled' = handled \/ (proc[c] = "handle" /\ handled' = handled \cup {inHand[c]})
      /\ dropped' = dropped \/ (proc[c] = "handle" /\ dropped' = dropped \cup {inHand[c]})
  BY DEF Handle, Interrupt, Abandon, Release, localVars, groupVars
<1>2. /\ proc'[c] \in {"poll", "closing"}
      /\ \A d \in Consumers \ {c} : proc'[d] = proc[d] /\ inHand'[d] = inHand[d]
  BY <1>1
<1>3. Accounted' \subseteq Accounted
  <2>1. InHand' \subseteq InHand
    BY <1>2 DEF InHand
  <2>2. proc[c] = "handle" => inHand[c] \in InHand
    BY DEF InHand
  <2> QED BY <1>1, <2>1, <2>2 DEF Accounted
<1>4. \A p \in Partitions : StartOffset(p)' = StartOffset(p)
  BY <1>1 DEF StartOffset
<1>5. CalmOwners'
  BY <1>1, <1>2, <1>4 DEF CalmOwners
<1>6. CalmFront'
  BY <1>1, <1>3, <1>4 DEF CalmFront
<1>7. CalmHands'
  BY <1>1, <1>2 DEF CalmHands
<1>8. Handle(c) => handled \cap {inHand[c]} = {}
  BY DEF Handle, CalmHands
<1> QED BY <1>5, <1>6, <1>7, <1>8

LEMMA CalmStep == IInv /\ CalmInv /\ [Next]_vars => CalmInv'
<1> SUFFICES ASSUME IInv, CalmInv, [Next]_vars, kills' + stalls' = 0
             PROVE  CalmOwners' /\ CalmFront' /\ CalmHands' /\ repeated' = {}
  BY DEF CalmInv
<1>0. kills + stalls = 0 /\ kills' = kills /\ stalls' = stalls
  <2>1. kills \in Nat /\ stalls \in Nat
    BY DEF IInv, TypeOK
  <2>2. /\ kills' = kills \/ kills' = kills + 1
        /\ stalls' = stalls \/ stalls' = stalls + 1
    BY OtherFacts DEF Next, Loop, vars, PollMessage, Handle, Start, Join, Sync, Close, AutoCommit,
           Interrupt, Kill, ExpireDead, ExpireStalled, Rebalance, faultVars
  <2> QED BY <2>1, <2>2
<1>1. CalmOwners /\ CalmFront /\ CalmHands /\ repeated = {}
  BY <1>0 DEF CalmInv
<1> USE DEF IInv, TypeOK, GroupTypeOK
<1>2. ASSUME NEW c \in Consumers, PollMessage(c)
      PROVE  CalmOwners' /\ CalmFront' /\ CalmHands' /\ repeated' = {}
  BY <1>1, <1>2, CalmPollStep DEF PollMessage, seenVars
<1>3. ASSUME NEW c \in Consumers, Handle(c) \/ Interrupt(c)
      PROVE  CalmOwners' /\ CalmFront' /\ CalmHands' /\ repeated' = {}
  BY <1>1, <1>3, CalmHandleStep DEF Handle, Interrupt
<1>4. ASSUME UNCHANGED <<InHand, seenVars>>,
             \A d \in Consumers : /\ proc'[d] = "handle" <=> proc[d] = "handle"
                                  /\ inHand'[d] = inHand[d]
      PROVE  CalmHands' /\ repeated' = {}
  BY <1>1, <1>4 DEF CalmHands, seenVars
<1>5. ASSUME NEW c \in Consumers, Close(c) \/ AutoCommit(c) \/ Join(c)
      PROVE  CalmOwners' /\ CalmFront' /\ CalmHands' /\ repeated' = {}
  <2>1. \A d \in Consumers : /\ proc'[d] = "handle" <=> proc[d] = "handle"
                             /\ inHand'[d] = inHand[d]
    BY <1>5 DEF Close, AutoCommit, Join, procVars
  <2> QED BY <1>1, <1>4, <1>5, <2>1, CalmCommitStep, OtherFacts
<1>6. ASSUME NEW c \in Consumers, Sync(c)
      PROVE  CalmOwners' /\ CalmFront' /\ CalmHands' /\ repeated' = {}
  <2>1. UNCHANGED procVars
    BY <1>6 DEF Sync
  <2> QED BY <1>1, <1>4, <1>6, <2>1, CalmSyncStep, OtherFacts DEF procVars
<1>7. ASSUME NEW c \in Consumers, Start(c)
      PROVE  CalmOwners' /\ CalmFront' /\ CalmHands' /\ repeated' = {}
  <2>1. /\ proc' = [proc EXCEPT ![c] = "poll"] /\ proc[c] = "new"
        /\ UNCHANGED <<inHand, owned, pos, stored, members, joined, synced, committed>>
    BY <1>7 DEF Start, localVars, groupVars
  <2>2. Accounted' = Accounted /\ UNCHANGED <<InHand, seenVars>>
    BY <1>7, OtherFacts DEF Accounted, seenVars
  <2>3. CalmHands' /\ repeated' = {}
    BY <1>4, <2>1, <2>2
  <2>4. \A p \in Partitions : StartOffset(p)' = StartOffset(p)
    BY <2>1 DEF StartOffset
  <2>5. CalmOwners' /\ CalmFront'
    BY <1>1, <2>1, <2>2, <2>4 DEF CalmOwners, CalmFront
  <2> QED BY <2>3, <2>5
<1>8. ASSUME NEW c \in Consumers, Kill(c) \/ ExpireStalled(c) PROVE FALSE
  BY <1>0, <1>8 DEF Kill, ExpireStalled
<1>9. ASSUME NEW c \in Consumers, ExpireDead(c) PROVE FALSE
  BY <1>1, <1>9 DEF ExpireDead, CalmOwners
<1>10. CASE Rebalance
  <2>1. /\ joined = members
        /\ UNCHANGED <<proc, inHand, owned, pos, stored, members, committed, handled,
                       dropped, repeated>>
    BY <1>10 DEF Rebalance, NextGeneration, procVars, localVars, seenVars
  <2>2. Accounted' = Accounted
    BY <2>1 DEF Accounted, InHand
  <2>3. \A c \in Consumers : owned[c] = {}
    BY <1>1, <2>1 DEF CalmOwners, OwnInv
  <2>4. \A p \in Partitions : StartOffset(p)' = StartOffset(p)
    BY <2>1 DEF StartOffset
  <2>5. CalmOwners'
    BY <1>1, <2>1, <2>3 DEF CalmOwners
  <2>6. CalmFront'
    BY <1>1, <2>1, <2>2, <2>4 DEF CalmFront
  <2>7. CalmHands'
    BY <1>1, <2>1 DEF CalmHands
  <2> QED BY <1>1, <2>1, <2>5, <2>6, <2>7
<1>11. CASE UNCHANGED vars
  BY <1>1, <1>11 DEF vars, procVars, localVars, groupVars, seenVars, CalmOwners, CalmFront,
                     CalmHands, Accounted, InHand, StartOffset
<1> QED BY <1>2, <1>3, <1>5, <1>6, <1>7, <1>8, <1>9, <1>10, <1>11 DEF Next, Loop

LEMMA CalmInit == Init => CalmInv
BY DEF Init, GroupInit, CalmInv, CalmOwners, CalmFront, CalmHands, Accounted, InHand

\* However processes join, leave and are interrupted, no message goes through the
\* loop body of consumer.py a second time while none is killed or given up.
THEOREM NothingRepeated == Spec => []RepeatsNeedFailures
<1>1. Init => CalmInv
  BY CalmInit
<1>2. IInv /\ CalmInv /\ [Next]_vars => CalmInv'
  BY CalmStep
<1>3. IInv /\ CalmInv => RepeatsNeedFailures
  BY DEF IInv, TypeOK, CalmInv, RepeatsNeedFailures
<1> QED BY <1>1, <1>2, <1>3, Invariance, PTL DEF Spec

-----------------------------------------------------------------------------
(* Nobody waits for ever: what AllSettled says without fairness.            *)

\* t gives the partitions of Q to S, to no member two more than to another.
Share(Q, t, c) == {p \in Q : t[p] = c}
Even(Q, t, S) ==
    \A c, d \in S : Cardinality(Share(Q, t, c)) <= Cardinality(Share(Q, t, d)) + 1

LEMMA LeastExists ==
    ASSUME NEW S \in SUBSET Nat, S # {}
    PROVE  \E n \in S : \A k \in S : n <= k
<1>1. PICK n \in S : \A k \in S : <<k, n>> \notin OpToRel(<, Nat)
  BY NatLessThanWellFounded, WFMin
<1>2. \A k \in S : k \in Nat /\ n \in Nat /\ ~(k < n)
  BY <1>1 DEF OpToRel
<1> QED BY <1>2

\* One partition more goes to a member that has the fewest.
LEMMA EvenExtends ==
    ASSUME NEW Q, IsFiniteSet(Q), NEW q, q \notin Q, NEW S, S # {},
           NEW t \in [Q -> S], Even(Q, t, S)
    PROVE  \E u \in [Q \cup {q} -> S] : Even(Q \cup {q}, u, S)
<1> DEFINE N(c) == Cardinality(Share(Q, t, c))
<1>1. \A c \in S : IsFiniteSet(Share(Q, t, c)) /\ N(c) \in Nat
  <2> SUFFICES ASSUME NEW c \in S PROVE IsFiniteSet(Share(Q, t, c)) /\ N(c) \in Nat
    OBVIOUS
  <2>1. Share(Q, t, c) \in SUBSET Q
    BY DEF Share
  <2>2. IsFiniteSet(Share(Q, t, c))
    BY <2>1, FS_Subset
  <2> QED BY <2>2, FS_CardinalityType
<1>2. PICK c \in S : \A d \in S : N(c) <= N(d)
  <2> DEFINE Ns == {N(d) : d \in S}
  <2>1. Ns \in SUBSET Nat /\ Ns # {}
    BY <1>1
  <2> HIDE DEF Ns
  <2>2. PICK n \in Ns : \A k \in Ns : n <= k
    BY <2>1, LeastExists
  <2> QED BY <2>2 DEF Ns
<1> DEFINE u == [p \in Q \cup {q} |-> IF p = q THEN c ELSE t[p]]
           M(d) == Cardinality(Share(Q \cup {q}, u, d))
<1>3. Share(Q \cup {q}, u, c) = Share(Q, t, c) \cup {q}
  BY DEF Share
<1>4. q \notin Share(Q, t, c)
  BY DEF Share
<1>5. M(c) = N(c) + 1
  BY <1>1, <1>3, <1>4, FS_AddElement
<1>6. \A d \in S \ {c} : Share(Q \cup {q}, u, d) = Share(Q, t, d)
  BY DEF Share
<1>7. \A d \in S \ {c} : M(d) = N(d)
  BY <1>6
<1>8. \A d, e \in S : N(d) <= N(e) + 1
  BY DEF Even
<1>9. u \in [Q \cup {q} -> S]
  OBVIOUS
<1>10. ASSUME NEW d \in S, NEW e \in S PROVE M(d) <= M(e) + 1
  <2> HIDE DEF M, N, u
  <2>1. /\ N(c) \in Nat /\ N(d) \in Nat /\ N(e) \in Nat
        /\ N(c) <= N(e) /\ N(d) <= N(c) + 1 /\ N(d) <= N(e) + 1
    BY <1>1, <1>2, <1>8
  <2>2. /\ M(d) = IF d = c THEN N(c) + 1 ELSE N(d)
        /\ M(e) = IF e = c THEN N(c) + 1 ELSE N(e)
    BY <1>5, <1>7
  <2> QED BY <2>1, <2>2
<1>11. Even(Q \cup {q}, u, S)
  BY <1>10 DEF Even
<1> QED BY <1>9, <1>11

\* An even assignment exists for any members: a smallest set of partitions that
\* cannot be spread would be an extension of one that can.
LEMMA BalancedExists ==
    ASSUME NEW S, S # {}
    PROVE  \E t \in [Partitions -> S] : Balanced(t, S)
<1> DEFINE Spread(Q) == \E t \in [Q -> S] : Even(Q, t, S)
           Bad == {Q \in SUBSET Partitions : ~Spread(Q)}
<1>1. \A Q \in SUBSET Partitions : IsFiniteSet(Q) /\ Cardinality(Q) \in Nat
  BY GroupAssumption, FS_Subset, FS_CardinalityType
<1>2. Bad = {}
  <2> SUFFICES ASSUME Bad # {} PROVE FALSE
    OBVIOUS
  <2> DEFINE Sizes == {Cardinality(Q) : Q \in Bad}
  <2>1. Sizes \in SUBSET Nat /\ Sizes # {}
    BY <1>1
  <2> HIDE DEF Sizes
  <2>2. PICK n \in Sizes : \A k \in Sizes : n <= k
    BY <2>1, LeastExists
  <2>3. PICK Q \in Bad : \A R \in Bad : Cardinality(Q) <= Cardinality(R)
    BY <2>2 DEF Sizes
  <2>4. Q # {}
    <3> SUFFICES ASSUME Q = {} PROVE Spread(Q)
      BY <2>3
    <3> DEFINE t == [p \in Q |-> CHOOSE c \in S : TRUE]
    <3>1. t \in [Q -> S]
      OBVIOUS
    <3>2. \A c \in S : Share(Q, t, c) = {}
      BY DEF Share
    <3> HIDE DEF t
    <3>3. \A c \in S : Cardinality(Share(Q, t, c)) = 0
      BY <3>2, FS_EmptySet
    <3>4. Even(Q, t, S)
      BY <3>3 DEF Even
    <3> QED BY <3>1, <3>4
  <2>5. PICK q \in Q : TRUE
    BY <2>4
  <2> DEFINE R == Q \ {q}
  <2>6. R \in SUBSET Partitions /\ IsFiniteSet(R) /\ R \cup {q} = Q
    BY <1>1
  <2>7. Cardinality(R) < Cardinality(Q)
    <3>1. Cardinality(R) = Cardinality(Q) - 1 /\ Cardinality(Q) \in Nat
      BY <1>1, <2>5, FS_RemoveElement
    <3> QED BY <3>1
  <2>8. Spread(R)
    <3>1. Cardinality(R) \in Nat /\ Cardinality(Q) \in Nat
      BY <1>1
    <3> QED BY <2>3, <2>6, <2>7, <3>1
  <2>9. PICK t \in [R -> S] : Even(R, t, S)
    BY <2>8
  <2>10. \E u \in [R \cup {q} -> S] : Even(R \cup {q}, u, S)
    BY <2>6, <2>9, EvenExtends
  <2> QED BY <2>3, <2>6, <2>10
<1>3. PICK t \in [Partitions -> S] : Even(Partitions, t, S)
  BY <1>2
<1>4. Balanced(t, S)
  BY <1>3 DEF Balanced, Even, Share
<1> QED BY <1>4

\* c's process has a step to take, or the coordinator has to expire it: the
\* guards of Start, Loop and ExpireDead, written out.
Stirs(c) ==
    \/ proc[c] \in {"new", "handle", "closing"}
    \/ /\ proc[c] = "poll"
       /\ \/ c \notin members
          \/ IF stable THEN c \notin synced ELSE c \notin joined
          \/ \E p \in owned[c] : pos[c][p] < LogEnd[p]
    \/ proc[c] = "gone" /\ c \in members

\* Otherwise the coordinator can form the next generation (the guard of
\* Rebalance), or all is done.
NeverStuck ==
    \/ \E c \in Consumers : Stirs(c)
    \/ /\ ~stable /\ members # {} /\ joined = members
       /\ \E t \in [Partitions -> members] : Balanced(t, members)
    \/ Messages \subseteq handled \cup dropped
    \/ \A c \in Consumers : proc[c] = "gone"

\* The assignment of a settled generation gives every partition to a member, and
\* one that still runs and has picked it up owns all it was given.
FullInv ==
    stable => /\ \A p \in Partitions : target[p] \in members
              /\ \A c \in synced : proc[c] # "gone" =>
                    \A p \in Partitions : target[p] = c => p \in owned[c]

LEMMA FullStep == IInv /\ FullInv /\ [Next]_vars => FullInv'
<1> SUFFICES ASSUME IInv, FullInv, [Next]_vars, stable' PROVE FullInv'
  BY DEF FullInv
<1> USE DEF IInv, TypeOK, GroupTypeOK, OwnInv, procVars, localVars, groupVars
<1>1. ASSUME NEW c \in Consumers,
             Start(c) \/ PollMessage(c) \/ Handle(c) \/ AutoCommit(c) \/ Interrupt(c)
      PROVE  FullInv'
  <2>1. UNCHANGED <<owned, members, stable, synced, target>>
    BY <1>1 DEF Start, PollMessage, Handle, AutoCommit, Interrupt
  <2>2. \A d \in Consumers : proc[d] = "gone" => proc'[d] = "gone"
    BY <1>1 DEF Start, PollMessage, Handle, Release, AutoCommit, Interrupt, Abandon
  <2> QED BY <2>1, <2>2 DEF FullInv
<1>2. ASSUME NEW c \in Consumers, Kill(c) PROVE FullInv'
  <2>1. /\ UNCHANGED <<members, stable, synced, target>>
        /\ proc' = [proc EXCEPT ![c] = "gone"] /\ owned' = [owned EXCEPT ![c] = {}]
    BY <1>2 DEF Kill, Abandon, Release
  <2>2. \A d \in Consumers : proc'[d] # "gone" => proc[d] # "gone" /\ owned'[d] = owned[d]
    BY <2>1
  <2> QED BY <2>1, <2>2 DEF FullInv
<1>3. ASSUME NEW c \in Consumers, Close(c) PROVE FullInv'
  <2>1. c \notin members /\ UNCHANGED <<members, stable, synced, target>>
    BY <1>3 DEF Close, LeaveGroup, Remove
  <2>2. /\ \A d \in Consumers \ {c} : owned'[d] = owned[d]
        /\ \A d \in Consumers : proc[d] = "gone" => proc'[d] = "gone"
    BY <1>3 DEF Close, LeaveGroup
  <2>3. \A d \in synced : proc'[d] # "gone" => proc[d] # "gone" /\ owned'[d] = owned[d]
    BY <2>1, <2>2
  <2> QED BY <2>1, <2>3 DEF FullInv
<1>4. ASSUME NEW c \in Consumers, Join(c) \/ ExpireDead(c) \/ ExpireStalled(c) PROVE FALSE
  BY <1>4, Zenon DEF Join, JoinGroup, ExpireDead, ExpireStalled, Remove
<1>5. ASSUME NEW c \in Consumers, Sync(c) PROVE FullInv'
  <2>1. /\ synced' = synced \cup {c} /\ UNCHANGED <<proc, members, stable, target>>
        /\ owned' = [owned EXCEPT ![c] = {p \in Partitions : target[p] = c}]
    BY <1>5 DEF Sync, SyncGroup
  <2> QED BY <2>1 DEF FullInv
<1>6. CASE Rebalance
  <2>1. synced' = {} /\ members' = members /\ target' \in [Partitions -> members]
    BY <1>6 DEF Rebalance, NextGeneration
  <2> QED BY <2>1 DEF FullInv
<1>7. CASE UNCHANGED vars
  BY <1>7 DEF FullInv, vars
<1> QED BY <1>1, <1>2, <1>3, <1>4, <1>5, <1>6, <1>7 DEF Next, Loop

\* Who polls as a member of a settled generation and has nothing left to read
\* leaves nothing unread: however often consumer.py's processes join, are killed
\* or are given up, the group never comes to a halt with a message unsettled.
THEOREM GroupGoesOn == Spec => []NeverStuck
<1>1. IInv /\ FullInv => NeverStuck
  <2> SUFFICES ASSUME IInv, FullInv, \A c \in Consumers : ~Stirs(c),
                      ~(~stable /\ members # {} /\ joined = members),
                      NEW d \in Consumers, proc[d] # "gone"
               PROVE  Messages \subseteq handled \cup dropped
    BY BalancedExists DEF NeverStuck
  <2> USE DEF IInv, TypeOK, GroupTypeOK, OwnInv
  <2>1. \A c \in Consumers : /\ proc[c] \in {"poll", "gone"}
                             /\ proc[c] = "poll" <=> c \in members
    BY DEF Stirs
  <2>2. d \in members
    BY <2>1
  <2>3. stable
    <3>1. CASE ~stable
      <4>1. members \subseteq joined
        BY <2>1, <3>1 DEF Stirs
      <4> QED BY <2>2, <3>1, <4>1
    <3> QED BY <3>1
  <2>4. \A c \in members : /\ c \in synced
                           /\ \A p \in owned[c] : ~(pos[c][p] < LogEnd[p])
    BY <2>1, <2>3 DEF Stirs
  <2>5. InHand = {}
    BY <2>1 DEF InHand
  <2>6. ASSUME NEW p \in Partitions, NEW o \in 0 .. LogEnd[p] - 1
        PROVE  <<p, o>> \in handled \cup dropped
    <3>1. PICK c \in members : target[p] = c
      BY <2>3 DEF FullInv
    <3>2. p \in owned[c]
      BY <2>1, <2>3, <2>4, <3>1 DEF FullInv
    <3>3. pos[c][p] \in Nat /\ LogEnd[p] \in Nat /\ LogEnd[p] <= pos[c][p]
      BY <2>4, <3>2, GroupAssumption
    <3>4. o \in 0 .. pos[c][p] - 1
      BY <3>3
    <3> QED BY <2>5, <3>4 DEF AccountedInv, Accounted
  <2> QED BY <2>6 DEF Messages
<1>2. Init => FullInv
  BY DEF Init, GroupInit, FullInv
<1>3. IInv /\ FullInv /\ [Next]_vars => FullInv'
  BY FullStep
<1> QED BY <1>1, <1>2, <1>3, Invariance, PTL DEF Spec

-----------------------------------------------------------------------------
(* The refinement of GroupContract.                                         *)

LEMMA CommitStep ==
    ASSUME IInv, [Next]_vars, NEW c \in Consumers, CommitStored(c),
           UNCHANGED <<InHand, seenVars, pos>>
    PROVE  Contract!Commit
<1>1. \A p \in Partitions : StartOffset(p)' \in Nat /\ StartOffset(p) <= StartOffset(p)'
  BY CommitFacts
<1>2. \A p \in Partitions : \A o \in 0 .. StartOffset(p)' - 1 : <<p, o>> \in Accounted
  <2>1. AccountedInv'
    BY AccountedStep
  <2>2. Accounted' = Accounted
    BY DEF Accounted, seenVars
  <2> QED BY <2>1, <2>2 DEF AccountedInv
<1> QED
  BY <1>1, <1>2 DEF Contract!Commit, Contract!Advance, Contract!Accounted, Accounted,
                    seenVars

LEMMA ContractStep == IInv /\ [Next]_vars => [Contract!Next]_(Contract!vars)
<1> SUFFICES ASSUME IInv, [Next]_vars PROVE [Contract!Next]_(Contract!vars)
  OBVIOUS
<1> USE DEF Contract!Next, Contract!vars
<1>1. ASSUME NEW c \in Consumers, PollMessage(c) PROVE Contract!Next
  <2>1. PICK m \in Messages : InHand' = InHand \cup {m}
    BY <1>1, TakeFacts
  <2>2. UNCHANGED <<handled, dropped, committed>>
    BY <1>1 DEF PollMessage, Advance, seenVars
  <2>3. Contract!Take(m)
    BY <2>1, <2>2 DEF Contract!Take, StartOffset
  <2>4. m \in Contract!Messages
    BY <2>1 DEF Contract!Messages, Messages
  <2> QED BY <2>3, <2>4
<1>2. ASSUME NEW c \in Consumers, proc[c] = "handle", UNCHANGED committed,
             InHand' \in {InHand, InHand \ {inHand[c]}}, inHand[c] \in InHand,
             \/ handled' = handled \cup {inHand[c]} /\ UNCHANGED dropped
             \/ dropped' = dropped \cup {inHand[c]} /\ UNCHANGED handled
      PROVE  Contract!Next
  <2>1. Contract!Settle(inHand[c])
    BY <1>2 DEF Contract!Settle, StartOffset
  <2>2. inHand[c] \in Contract!Messages
    BY <1>2 DEF IInv, HandInv, Contract!Messages, Messages
  <2> QED BY <2>1, <2>2
<1>3. ASSUME NEW c \in Consumers, Handle(c) PROVE Contract!Next
  <2>1. proc[c] = "handle" /\ Release(c, "poll") /\ UNCHANGED <<committed, dropped>>
        /\ handled' = handled \cup {inHand[c]}
    BY <1>3 DEF Handle
  <2>2. inHand[c] \in InHand /\ InHand' \in {InHand, InHand \ {inHand[c]}}
    BY <2>1, ReleaseFacts
  <2> QED BY <1>2, <2>1, <2>2
<1>4. ASSUME NEW c \in Consumers, NEW state \in {"closing", "gone"}, Abandon(c, state),
             UNCHANGED <<committed, handled>>
      PROVE  [Contract!Next]_(Contract!vars)
  <2>1. IF proc[c] = "handle"
        THEN inHand[c] \in InHand /\ InHand' \in {InHand, InHand \ {inHand[c]}}
        ELSE InHand' = InHand
    BY <1>4, ReleaseFacts DEF Abandon
  <2>2. CASE proc[c] = "handle"
    BY <1>2, <1>4, <2>1, <2>2 DEF Abandon
  <2>3. CASE proc[c] # "handle"
    BY <1>4, <2>1, <2>3 DEF Abandon, StartOffset
  <2> QED BY <2>2, <2>3
<1>5. ASSUME NEW c \in Consumers, Interrupt(c) \/ Kill(c)
      PROVE  [Contract!Next]_(Contract!vars)
  BY <1>4, <1>5 DEF Interrupt, Kill
<1>6. ASSUME NEW c \in Consumers, Close(c) \/ AutoCommit(c) \/ Join(c)
      PROVE  Contract!Next
  <2>1. CommitStored(c) /\ UNCHANGED pos
    BY <1>6 DEF Close, LeaveGroup, AutoCommit, Join, JoinGroup, localVars
  <2> QED BY <1>6, <2>1, OtherFacts, CommitStep
<1>7. ASSUME UNCHANGED <<InHand, seenVars, committed>> PROVE UNCHANGED Contract!vars
  BY <1>7 DEF seenVars, StartOffset
<1>8. ASSUME NEW c \in Consumers, Start(c) \/ Sync(c) \/ ExpireDead(c) \/ ExpireStalled(c)
      PROVE  UNCHANGED Contract!vars
  BY <1>7, <1>8, OtherFacts DEF Start, Sync, SyncGroup, ExpireDead, ExpireStalled
<1>9. CASE Rebalance \/ UNCHANGED vars
  BY <1>7, <1>9 DEF Rebalance, NextGeneration, vars, procVars, InHand
<1> QED BY <1>1, <1>3, <1>5, <1>6, <1>8, <1>9 DEF Next, Loop

\* The group implements the contract: messages are taken, handled or dropped,
\* and committed offsets never move back nor past an untaken message.
THEOREM Refinement == Spec => ImplementsContract
<1>1. Init => Contract!Init
  BY DEF Init, GroupInit, Contract!Init, InHand, StartOffset
<1>2. IInv /\ [Next]_vars => [Contract!Next]_(Contract!vars)
  BY ContractStep
<1> QED BY <1>1, <1>2, Invariance, PTL DEF Spec, Contract!Spec, ImplementsContract
=============================================================================
