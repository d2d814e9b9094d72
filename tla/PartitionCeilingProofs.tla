----------------------- MODULE PartitionCeilingProofs -----------------------
(***************************************************************************)
(* Proofs about PartitionCeiling (S3) for any finite sets of consumers and *)
(* partitions: the partition count is the ceiling of the readers, each     *)
(* record is counted once, and the group's offsets are where the counting  *)
(* stopped; and about CrashRecovery (S5), an instance that has nothing to  *)
(* do with it but that its script, too, prints a sum over a function.      *)
(***************************************************************************)
EXTENDS PartitionCeiling, Sequences, FiniteSetTheorems, WellFoundedInduction, TLAPS

CONSTANTS Topics, Scenarios, Leftovers, Flood

VARIABLES scenario, spec, total_parts, broker, partitions, cache, disk,
          running, pending

Crash == INSTANCE CrashRecovery

-----------------------------------------------------------------------------
(* Sums.                                                                    *)

\* What the sums over a function unfold to.
Pick(s) == CHOOSE x \in s : TRUE
Summing(f, g) ==
    g = [s \in SUBSET DOMAIN f |-> IF s = {} THEN 0 ELSE f[Pick(s)] + g[s \ {Pick(s)}]]

\* g adds f up over the subsets of D.
Adds(f, g, D) ==
    /\ SumFunction(f) = g[D]
    /\ g[{}] = 0
    /\ \A s \in SUBSET D : s # {} => g[s] = f[Pick(s)] + g[s \ {Pick(s)}]

LEMMA PickFacts ==
    ASSUME NEW s, IsFiniteSet(s), s # {}
    PROVE  /\ Pick(s) \in s
           /\ IsFiniteSet(s \ {Pick(s)})
           /\ Cardinality(s) \in Nat \ {0}
           /\ Cardinality(s \ {Pick(s)}) = Cardinality(s) - 1
<1>1. Pick(s) \in s
  BY DEF Pick
<1>2. Cardinality(s) \in Nat /\ Cardinality(s) # 0
  BY FS_CardinalityType, FS_EmptySet
<1> QED BY <1>1, <1>2, FS_RemoveElement

LEMMA LeastNat ==
    ASSUME NEW S \in SUBSET Nat, S # {}
    PROVE  \E b \in S : \A c \in S : b <= c
<1>1. PICK b \in S : \A c \in S : <<c, b>> \notin OpToRel(<, Nat)
  BY NatLessThanWellFounded, WFMin
<1>2. \A c \in S : c \in Nat /\ b \in Nat /\ ~(c < b)
  BY <1>1 DEF OpToRel
<1> QED BY <1>2

\* Induction along Pick over the subsets of a finite set.
LEMMA PickInduction ==
    ASSUME NEW D, IsFiniteSet(D), NEW Good, {} \in Good,
           \A s \in SUBSET D : s # {} /\ s \ {Pick(s)} \in Good => s \in Good
    PROVE  SUBSET D \subseteq Good
<1> DEFINE Bad == {s \in SUBSET D : s \notin Good}
           Sizes == {Cardinality(s) : s \in Bad}
<1> SUFFICES ASSUME Bad # {} PROVE FALSE
  OBVIOUS
<1>1. \A s \in SUBSET D : IsFiniteSet(s) /\ Cardinality(s) \in Nat
  BY FS_Subset, FS_CardinalityType
<1>2. Sizes \in SUBSET Nat /\ Sizes # {}
  BY <1>1
<1>3. PICK n \in Sizes : \A m \in Sizes : n <= m
  <2> HIDE DEF Sizes
  <2> QED BY <1>2, LeastNat
<1>4. PICK s \in Bad : n = Cardinality(s)
  BY <1>3
<1>5. s # {} /\ s \in SUBSET D
  BY <1>4
<1>6. Cardinality(s \ {Pick(s)}) = n - 1 /\ n \in Nat
  BY <1>1, <1>4, <1>5, PickFacts
<1>7. s \ {Pick(s)} \notin Bad
  <2> SUFFICES ASSUME s \ {Pick(s)} \in Bad PROVE FALSE
    OBVIOUS
  <2>1. n - 1 \in Sizes
    BY <1>6
  <2> HIDE DEF Sizes
  <2> QED BY <1>3, <1>6, <2>1
<1>8. s \in Good
  BY <1>5, <1>7
<1> QED BY <1>4, <1>8

\* The recursion of the sum is well founded: it holds of some function.
LEMMA SummingExists ==
    ASSUME NEW D, IsFiniteSet(D), NEW f \in [D -> Nat]
    PROVE  \E g : Summing(f, g)
<1> DEFINE Upto(n) == {s \in SUBSET D : Cardinality(s) <= n}
           Eqn(n, g) == g = [s \in Upto(n) |-> IF s = {} THEN 0
                                               ELSE f[Pick(s)] + g[s \ {Pick(s)}]]
           Bad == {n \in Nat : \A g : ~Eqn(n, g)}
<1>1. \A s \in SUBSET D : IsFiniteSet(s) /\ Cardinality(s) \in Nat
  BY FS_Subset, FS_CardinalityType
<1>2. Bad = {}
  <2> SUFFICES ASSUME Bad # {} PROVE FALSE
    OBVIOUS
  <2>0. Bad \in SUBSET Nat
    OBVIOUS
  <2>1. PICK n \in Bad : \A m \in Bad : n <= m
    <3> HIDE DEF Bad
    <3> QED BY <2>0, LeastNat
  <2>2. CASE n = 0
    <3>1. \A s \in Upto(0) : s = {}
      BY <1>1, FS_EmptySet
    <3> DEFINE g == [s \in Upto(0) |-> 0]
    <3> HIDE DEF Upto
    <3>2. Eqn(0, g)
      BY <3>1
    <3> QED BY <2>2, <3>2
  <2>3. CASE n # 0
    <3>1. n - 1 \in Nat /\ n - 1 \notin Bad
      <4> HIDE DEF Bad
      <4> QED BY <2>0, <2>1, <2>3
    <3>2. PICK g : Eqn(n - 1, g)
      <4> HIDE DEF Eqn
      <4> QED BY <3>1
    <3> DEFINE h == [s \in Upto(n) |-> IF s = {} THEN 0 ELSE f[Pick(s)] + g[s \ {Pick(s)}]]
    <3>3. ASSUME NEW s \in Upto(n), s # {} PROVE h[s \ {Pick(s)}] = g[s \ {Pick(s)}]
      <4> DEFINE r == s \ {Pick(s)}
      <4>1. Cardinality(r) = Cardinality(s) - 1 /\ Cardinality(s) \in Nat
        BY <1>1, <3>3, PickFacts
      <4>2. r \in Upto(n - 1) /\ r \in Upto(n)
        BY <2>1, <3>3, <4>1
      <4> HIDE DEF r, Upto
      <4>3. h[r] = IF r = {} THEN 0 ELSE f[Pick(r)] + g[r \ {Pick(r)}]
        BY <4>2
      <4>4. g[r] = IF r = {} THEN 0 ELSE f[Pick(r)] + g[r \ {Pick(r)}]
        BY <3>2, <4>2
      <4> QED BY <4>3, <4>4 DEF r
    <3> HIDE DEF Upto
    <3>4. Eqn(n, h)
      BY <3>3
    <3> HIDE DEF h
    <3> QED BY <2>1, <3>4
  <2> QED BY <2>2, <2>3
<1>3. Cardinality(D) \in Nat
  BY FS_CardinalityType
<1>4. PICK g : Eqn(Cardinality(D), g)
  <2> HIDE DEF Eqn
  <2> QED BY <1>2, <1>3
<1>5. Upto(Cardinality(D)) = SUBSET DOMAIN f
  BY FS_Subset
<1> QED BY <1>4, <1>5 DEF Summing

LEMMA SumUnfold ==
    ASSUME NEW D, IsFiniteSet(D), NEW f \in [D -> Nat]
    PROVE  \E g : Adds(f, g, D)
<1> DEFINE g == CHOOSE h : Summing(f, h)
<1>1. SumFunction(f) = g[DOMAIN f]
  BY DEF SumFunction, SumFunctionOnSet, FoldFunctionOnSet, MapThenFoldSet, Summing, Pick
<1>2. Summing(f, g)
  BY SummingExists
<1> HIDE DEF g
<1>3. \A s \in SUBSET D : g[s] = IF s = {} THEN 0 ELSE f[Pick(s)] + g[s \ {Pick(s)}]
  BY <1>2 DEF Summing
<1> QED BY <1>1, <1>3 DEF Adds

LEMMA SumOfZeros ==
    ASSUME NEW D, IsFiniteSet(D)
    PROVE  SumFunction([d \in D |-> 0]) = 0
<1> DEFINE f == [d \in D |-> 0]
<1>0. f \in [D -> Nat] /\ \A d \in D : f[d] = 0
  OBVIOUS
<1> HIDE DEF f
<1>1. PICK g : Adds(f, g, D)
  BY <1>0, SumUnfold
<1> DEFINE Good == {s \in SUBSET D : g[s] = 0}
<1>2. ASSUME NEW s \in SUBSET D, s # {}, s \ {Pick(s)} \in Good PROVE s \in Good
  <2>1. Pick(s) \in D
    BY <1>2 DEF Pick
  <2> QED BY <1>0, <1>1, <1>2, <2>1 DEF Adds
<1>3. SUBSET D \subseteq Good
  <2>1. {} \in Good
    BY <1>1 DEF Adds
  <2> HIDE DEF Good
  <2> QED BY <1>2, <2>1, PickInduction
<1> QED BY <1>1, <1>3 DEF Adds, f

\* e is f with k more at d.
Raised(D, f, e, d, k) ==
    /\ f \in [D -> Nat] /\ e \in [D -> Nat]
    /\ d \in D /\ k \in Nat
    /\ \A x \in D : e[x] = IF x = d THEN f[x] + k ELSE f[x]

\* What is added to one entry is added to the sum.
LEMMA SumIncrease ==
    ASSUME NEW D, IsFiniteSet(D), NEW f, NEW e, NEW d, NEW k, Raised(D, f, e, d, k)
    PROVE  SumFunction(f) \in Nat /\ SumFunction(e) = SumFunction(f) + k
<1> USE DEF Raised
<1>1. PICK g : Adds(f, g, D)
  BY SumUnfold
<1>2. PICK h : Adds(e, h, D)
  BY SumUnfold
<1> DEFINE Good == {s \in SUBSET D : g[s] \in Nat /\ h[s] = g[s] + IF d \in s THEN k ELSE 0}
<1>3. ASSUME NEW s \in SUBSET D, s # {}, s \ {Pick(s)} \in Good PROVE s \in Good
  <2>1. Pick(s) \in D /\ Pick(s) \in s /\ f[Pick(s)] \in Nat
    BY <1>3 DEF Pick
  <2>2. g[s] = f[Pick(s)] + g[s \ {Pick(s)}] /\ h[s] = e[Pick(s)] + h[s \ {Pick(s)}]
    BY <1>1, <1>2, <1>3 DEF Adds
  <2>3. /\ g[s \ {Pick(s)}] \in Nat
        /\ h[s \ {Pick(s)}] = g[s \ {Pick(s)}] + IF d \in s \ {Pick(s)} THEN k ELSE 0
    BY <1>3
  <2> QED BY <2>1, <2>2, <2>3
<1>4. SUBSET D \subseteq Good
  <2>1. {} \in Good
    BY <1>1, <1>2 DEF Adds
  <2> HIDE DEF Good
  <2> QED BY <1>3, <2>1, PickInduction
<1>5. D \in Good
  BY <1>4
<1> QED BY <1>1, <1>2, <1>5 DEF Adds

-----------------------------------------------------------------------------
(* Assignments of partitions to members.                                    *)

LEMMA AtMostOne ==
    ASSUME NEW x, NEW y, Cardinality({x, y}) <= 1
    PROVE  x = y
<1> SUFFICES ASSUME x # y PROVE FALSE
  OBVIOUS
<1>1. Cardinality({x} \cup {y}) = Cardinality({x}) + 1
  BY FS_Singleton, FS_AddElement
<1>2. {x} \cup {y} = {x, y} /\ Cardinality({x}) = 1
  BY FS_Singleton
<1> QED BY <1>1, <1>2

SharesOf(t, S) == {c \in S : \E p \in Partitions : t[p] = c}

\* However the partitions are spread, no more members have one than there are
\* partitions.
LEMMA SharesBound ==
    ASSUME NEW S \in SUBSET Consumers, NEW t
    PROVE  /\ IsFiniteSet(SharesOf(t, S))
           /\ Cardinality(SharesOf(t, S)) <= Cardinality(Partitions)
<1> DEFINE D == {p \in Partitions : t[p] \in S}
           f == [p \in D |-> t[p]]
<1>1. f \in Surjection(D, SharesOf(t, S))
  BY DEF Surjection, SharesOf
<1>2. D \subseteq Partitions
  OBVIOUS
<1>3. IsFiniteSet(D) /\ Cardinality(D) <= Cardinality(Partitions)
  BY <1>2, CeilingAssumption, FS_Subset
<1>4. IsFiniteSet(SharesOf(t, S)) /\ Cardinality(SharesOf(t, S)) <= Cardinality(D)
  BY <1>1, <1>3, FS_Surjection
<1>5. /\ Cardinality(D) \in Nat /\ Cardinality(Partitions) \in Nat
      /\ Cardinality(SharesOf(t, S)) \in Nat
  BY <1>3, <1>4, CeilingAssumption, FS_CardinalityType
<1> QED BY <1>3, <1>4, <1>5

\* Spread evenly, they reach as many members as they can.
LEMMA BalancedShares ==
    ASSUME NEW S \in SUBSET Consumers, NEW t \in [Partitions -> Consumers \cup {Nobody}],
           Balanced(t, S)
    PROVE  Cardinality(SharesOf(t, S)) = Least(Cardinality(S), Cardinality(Partitions))
<1> DEFINE L(c) == {p \in Partitions : t[p] = c}
<1>0. /\ IsFiniteSet(S) /\ Cardinality(S) \in Nat
      /\ Cardinality(Partitions) \in Nat
      /\ \A T \in SUBSET Partitions : IsFiniteSet(T) /\ Cardinality(T) \in Nat
      /\ SharesOf(t, S) \subseteq S
      /\ Cardinality(SharesOf(t, S)) \in Nat
      /\ Cardinality(SharesOf(t, S)) <= Cardinality(S)
      /\ Cardinality(SharesOf(t, S)) <= Cardinality(Partitions)
  <2>1. SharesOf(t, S) \subseteq S
    BY DEF SharesOf
  <2>2. IsFiniteSet(S)
    BY CeilingAssumption, FS_Subset
  <2>3. \A T \in SUBSET Partitions : IsFiniteSet(T) /\ Cardinality(T) \in Nat
    BY CeilingAssumption, FS_Subset, FS_CardinalityType
  <2> QED BY <2>1, <2>2, <2>3, CeilingAssumption, SharesBound, FS_Subset,
             FS_CardinalityType
<1>1. CASE SharesOf(t, S) = S
  BY <1>0, <1>1 DEF Least
\* Somebody has none: then nobody has two.
<1>2. CASE SharesOf(t, S) # S
  <2>1. PICK d \in S : L(d) = {}
    BY <1>2 DEF SharesOf
  <2>2. ASSUME NEW p \in Partitions, NEW q \in Partitions, t[p] = t[q] PROVE p = q
    <3>1. t[p] \in S /\ L(t[p]) \in SUBSET Partitions
      BY DEF Balanced
    <3>2. Cardinality(L(d)) = 0
      BY <2>1, FS_EmptySet
    <3>3. Cardinality(L(t[p])) <= Cardinality(L(d)) + 1
      BY <3>1 DEF Balanced
    <3>4. Cardinality(L(t[p])) \in Nat /\ IsFiniteSet(L(t[p]))
      BY <1>0, <3>1
    <3>5. {p, q} \subseteq L(t[p])
      BY <2>2
    <3> HIDE DEF L
    <3>6. Cardinality({p, q}) <= 1
      BY <3>2, <3>3, <3>4, <3>5, FS_Subset, FS_CardinalityType
    <3> QED BY <3>6, AtMostOne DEF L
  <2> DEFINE f == [p \in Partitions |-> t[p]]
  <2>3. f \in Surjection(Partitions, SharesOf(t, S))
    BY DEF Surjection, SharesOf, Balanced
  <2>4. f \in Injection(Partitions, SharesOf(t, S))
    BY <2>2, <2>3 DEF Injection, Surjection, IsInjective
  <2>5. Cardinality(SharesOf(t, S)) = Cardinality(Partitions)
    BY <2>3, <2>4, CeilingAssumption, FS_Surjection
  <2> QED BY <1>0, <2>5 DEF Least
<1> QED BY <1>1, <1>2


-----------------------------------------------------------------------------
(* Records, owners and commits.                                             *)

LEMMA RecordFacts ==
    ASSUME TypeOK, NEW p \in Partitions, NEW o
    PROVE  <<p, o>> \in Records <=> o \in 0 .. logEnd[p] - 1
BY DEF Records

\* Whatever generation it is, a partition has at most one owner.
LEMMA OneOwner ==
    ASSUME OwnInv, NEW c \in Consumers, NEW d \in Consumers,
           NEW p \in owned[c], p \in owned[d]
    PROVE  c = d
BY DEF OwnInv, Load

\* A commit moves the offset of what the consumer owns to its position, and no
\* other offset.
LEMMA CommitFacts ==
    ASSUME TypeOK, OwnInv, CursorInv, NEW c \in Consumers, CommitStored(c)
    PROVE  /\ committed' \in [Partitions -> Nat \cup {NoOffset}]
           /\ \A p \in Partitions :
                 StartOffset(p)' = IF p \in owned[c] THEN pos[c][p] ELSE StartOffset(p)
<1> USE DEF TypeOK, GroupTypeOK, NoOffset
<1>1. committed' \in [Partitions -> Nat \cup {NoOffset}]
  BY DEF CommitStored
<1>2. ASSUME NEW p \in Partitions, p \in owned[c]
      PROVE  StartOffset(p)' = pos[c][p]
  <2>1. c \in synced
    BY <1>2 DEF OwnInv
  <2>2. committed'[p] = IF stored[c][p] # NoOffset THEN stored[c][p] ELSE committed[p]
    BY <1>2, <2>1 DEF CommitStored
  <2> QED BY <1>2, <2>2 DEF CursorInv, StartOffset
<1>3. ASSUME NEW p \in Partitions, p \notin owned[c]
      PROVE  StartOffset(p)' = StartOffset(p)
  BY <1>3 DEF CommitStored, StartOffset
<1> QED BY <1>1, <1>2, <1>3

-----------------------------------------------------------------------------

LEMMA InitIInv == Init => IInv
<1> SUFFICES ASSUME Init PROVE IInv
  OBVIOUS
<1> USE DEF Init, GroupInit
<1>1. TypeOK
  <2>1. GroupTypeOK
    BY DEF GroupTypeOK, NoOffset
  <2> QED BY <2>1 DEF TypeOK, NotPrinted, Records
<1>2. OwnInv /\ CursorInv
  BY DEF OwnInv, CursorInv
<1>3. CountInv
  BY DEF CountInv, CountedTo, StartOffset
<1> QED BY <1>1, <1>2, <1>3 DEF IInv

\* The steps that touch neither the group, nor offsets, nor records.
LEMMA QuietIInv ==
    ASSUME IInv, TypeOK', UNCHANGED <<localVars, groupVars, committed, counted, logEnd>>,
           UNCHANGED assignment_log,
           \A c \in Consumers : thread'[c] \in {"new", "closed"} => thread'[c] = thread[c]
    PROVE  IInv'
<1> USE DEF IInv, localVars, groupVars
<1>1. OwnInv'
  BY DEF OwnInv, Load, Balanced
<1>2. CursorInv'
  BY DEF CursorInv, StartOffset
<1>3. CountInv'
  BY DEF CountInv, CountedTo, StartOffset
<1> QED BY <1>1, <1>2, <1>3

LEMMA MainIInv ==
    ASSUME IInv,
           \/ \E c \in Consumers : CheckStop(c) \/ PollEmpty(c) \/ Launch(c)
           \/ Stop \/ Summarise
    PROVE  IInv'
<1> USE DEF IInv, mainVars
<1>1. ASSUME NEW c \in Consumers, CheckStop(c) \/ PollEmpty(c) \/ Launch(c) PROVE IInv'
  <2> USE <1>1 DEF CheckStop, PollEmpty, Launch
  <2>1. TypeOK'
    BY SMTT(30) DEF TypeOK, GroupTypeOK, localVars, groupVars, Records
  <2>2. \A d \in Consumers : thread'[d] \in {"new", "closed"} => thread'[d] = thread[d]
    BY DEF TypeOK
  <2> QED BY <2>1, <2>2, QuietIInv
<1>2. CASE Stop \/ Summarise
  <2> USE <1>2 DEF Stop, Summarise, threadVars
  <2>1. printed' \in Nat \cup {NotPrinted}
    <3>1. {c \in Consumers : assignment_log[c] # {}} \subseteq Consumers
      OBVIOUS
    <3>2. Cardinality({c \in Consumers : assignment_log[c] # {}}) \in Nat
      BY <3>1, CeilingAssumption, FS_Subset, FS_CardinalityType
    <3> QED BY <3>2 DEF TypeOK
  <2>2. TypeOK'
    BY <2>1 DEF TypeOK, GroupTypeOK, localVars, groupVars, Records
  <2> QED BY <2>2, QuietIInv
<1> QED BY <1>1, <1>2

\* flood_topic(): a record that has just arrived is not counted yet.
LEMMA FloodIInv == ASSUME IInv, NEW p \in Partitions, FloodRecord(p) PROVE IInv'
<1> USE DEF IInv, FloodRecord, localVars, groupVars, threadVars
<1>1. \A q \in Partitions : /\ logEnd[q] \in Nat
                            /\ logEnd'[q] = IF q = p THEN logEnd[q] + 1 ELSE logEnd[q]
  BY DEF TypeOK
<1>2. TypeOK'
  <2>1. Records \subseteq Records'
    BY <1>1 DEF Records
  <2> QED BY <2>1 DEF TypeOK, GroupTypeOK
<1>3. OwnInv' /\ CursorInv'
  BY DEF OwnInv, Load, Balanced, CursorInv, StartOffset
<1>4. ASSUME NEW q \in Partitions, NEW n \in Nat, CountedTo(q, n) PROVE CountedTo(q, n)'
  <2>1. <<q, logEnd[q]>> \notin counted
    BY <1>1, RecordFacts DEF TypeOK
  <2> QED BY <1>1, <1>4, <2>1 DEF CountedTo
<1>5. CountInv'
  <2>1. \A q \in Partitions : StartOffset(q) \in Nat /\ StartOffset(q)' = StartOffset(q)
    BY DEF StartOffset, TypeOK, GroupTypeOK, NoOffset
  <2>2. \A c \in Consumers : \A q \in Partitions : pos[c][q] \in Nat
    BY DEF TypeOK, GroupTypeOK
  <2> QED BY <1>4, <2>1, <2>2 DEF CountInv
<1> QED BY <1>2, <1>3, <1>5

-----------------------------------------------------------------------------
(* run_consumer().                                                          *)

\* poll() hands out a record that nobody has counted.
LEMMA ConsumeFresh ==
    ASSUME IInv, NEW c \in Consumers, NEW p \in owned[c], pos[c][p] < logEnd[p]
    PROVE  <<p, pos[c][p]>> \in Records \ counted
<1>1. p \in Partitions /\ pos[c][p] \in Nat /\ logEnd[p] \in Nat
  BY DEF IInv, TypeOK, GroupTypeOK
<1>2. CountedTo(p, pos[c][p])
  BY <1>1 DEF IInv, CountInv
<1> QED BY <1>1, <1>2, RecordFacts DEF CountedTo, IInv

LEMMA ConsumeIInv == ASSUME IInv, NEW c \in Consumers, Consume(c) PROVE IInv'
<1> USE DEF IInv, groupVars, mainVars
<1>1. PICK p \in owned[c] :
         /\ pos[c][p] < logEnd[p]
         /\ pos' = [pos EXCEPT ![c][p] = @ + 1]
         /\ stored' = [stored EXCEPT ![c][p] = pos[c][p] + 1]
         /\ counted' = counted \cup {<<p, pos[c][p]>>}
  BY DEF Consume, Advance
<1>2. /\ UNCHANGED <<owned, groupVars, committed, assignment_log, logEnd>>
      /\ thread' = [thread EXCEPT ![c] = "check"]
  BY DEF Consume
<1>3. p \in Partitions /\ pos[c][p] \in Nat /\ logEnd[p] \in Nat
  BY DEF TypeOK, GroupTypeOK
<1>4. TypeOK'
  <2>1. counted' \subseteq Records'
    BY <1>1, <1>2, ConsumeFresh DEF TypeOK, Records
  <2>2. pos' \in [Consumers -> [Partitions -> Nat]]
    BY <1>1, <1>3 DEF TypeOK, GroupTypeOK
  <2>3. stored' \in [Consumers -> [Partitions -> Nat \cup {NoOffset}]]
    BY <1>1, <1>3 DEF TypeOK, GroupTypeOK
  <2>4. counters' \in [Consumers -> Nat]
    BY DEF TypeOK, Consume
  <2>5. GroupTypeOK'
    BY <1>2, <2>2, <2>3 DEF TypeOK, GroupTypeOK
  <2> QED BY <1>2, <2>1, <2>4, <2>5 DEF TypeOK, Consume
<1>5. OwnInv'
  BY <1>2 DEF OwnInv, Load, Balanced, TypeOK
<1>6. \A d \in Consumers, q \in Partitions :
         IF d = c /\ q = p
         THEN pos'[d][q] = pos[d][q] + 1 /\ stored'[d][q] = pos[d][q] + 1
         ELSE pos'[d][q] = pos[d][q] /\ stored'[d][q] = stored[d][q]
  BY <1>1, <1>3 DEF TypeOK, GroupTypeOK
<1>7. \A q \in Partitions : StartOffset(q)' = StartOffset(q)
  BY <1>2 DEF StartOffset
<1>8. CursorInv'
  BY <1>2, <1>6, <1>7, SMTT(30) DEF CursorInv, TypeOK, GroupTypeOK
<1>9. CountInv'
  <2>1. \A q \in Partitions \ {p} : \A n : CountedTo(q, n)' = CountedTo(q, n)
    BY <1>1, <1>2 DEF CountedTo
  <2>2. /\ pos[c][p] + 1 <= logEnd[p]
        /\ \A o \in 0 .. logEnd[p] - 1 : <<p, o>> \in counted' <=> o < pos[c][p] + 1
    <3>1. CountedTo(p, pos[c][p])
      BY <1>3 DEF CountInv
    <3> QED BY <1>1, <1>2, <1>3, <3>1 DEF CountedTo
  <2>3. \A d \in Consumers : p \in owned[d] => d = c
    BY OneOwner
  <2>4. ASSUME NEW q \in Partitions, NEW d \in Consumers, q \in owned'[d]
        PROVE  CountedTo(q, pos[d][q])'
    <3>1. CASE q = p
      <4>1. d = c /\ pos'[d][q] = pos[c][p] + 1
        BY <1>2, <1>6, <2>3, <2>4, <3>1
      <4> QED BY <1>2, <2>2, <3>1, <4>1 DEF CountedTo
    <3>2. CASE q # p
      <4>1. pos'[d][q] = pos[d][q] /\ CountedTo(q, pos[d][q])
        BY <1>2, <1>6, <2>4, <3>2 DEF CountInv
      <4> QED BY <2>1, <3>2, <4>1 DEF CountedTo
    <3> QED BY <3>1, <3>2
  <2>5. ASSUME NEW q \in Partitions, \A d \in Consumers : q \notin owned'[d]
        PROVE  CountedTo(q, StartOffset(q))'
    <3>1. q # p /\ CountedTo(q, StartOffset(q))
      BY <1>2, <2>5 DEF CountInv
    <3> QED BY <1>7, <2>1, <3>1 DEF CountedTo
  <2> QED BY <2>4, <2>5 DEF CountInv
<1> QED BY <1>4, <1>5, <1>8, <1>9

-----------------------------------------------------------------------------
(* The group.                                                               *)

\* Commits keep what is known of the offsets of the partitions that stay with
\* their owners, and of those that the committing consumer gives up.
LEMMA CommitKeeps ==
    ASSUME IInv, NEW c \in Consumers, CommitStored(c),
           UNCHANGED <<pos, stored, counted, logEnd>>,
           UNCHANGED owned \/ owned' = [owned EXCEPT ![c] = {}]
    PROVE  CursorInv' /\ CountInv'
<1> USE DEF IInv
<1>0. /\ owned \in [Consumers -> SUBSET Partitions]
      /\ \A d \in Consumers : owned'[d] \subseteq owned[d]
      /\ \A d \in Consumers \ {c} : owned'[d] = owned[d]
      /\ owned'[c] \in {owned[c], {}}
  BY DEF TypeOK, GroupTypeOK
<1>1. \A p \in Partitions :
         StartOffset(p)' = IF p \in owned[c] THEN pos[c][p] ELSE StartOffset(p)
  BY CommitFacts
<1>2. ASSUME NEW d \in Consumers, NEW p \in owned'[d]
      PROVE  \/ stored[d][p] = NoOffset /\ pos[d][p] = StartOffset(p)'
             \/ stored[d][p] = pos[d][p]
  <2>1. p \in Partitions /\ p \in owned[d]
    BY <1>0
  <2>2. CASE d = c
    <3>1. StartOffset(p)' = pos[d][p]
      BY <1>1, <2>1, <2>2
    <3> QED BY <2>1, <3>1 DEF CursorInv
  <2>3. CASE d # c
    <3>1. StartOffset(p)' = StartOffset(p)
      BY <1>1, <2>1, <2>3, OneOwner
    <3> QED BY <2>1, <3>1 DEF CursorInv
  <2> QED BY <2>2, <2>3
<1>3. CursorInv'
  BY <1>2 DEF CursorInv
<1>4. ASSUME NEW p \in Partitions, NEW d \in Consumers, p \in owned'[d]
      PROVE  CountedTo(p, pos[d][p])'
  BY <1>0, <1>4 DEF CountInv, CountedTo
<1>5. ASSUME NEW p \in Partitions, \A d \in Consumers : p \notin owned'[d]
      PROVE  CountedTo(p, StartOffset(p))'
  <2>1. CASE p \in owned[c]
    <3>1. CountedTo(p, pos[c][p]) /\ StartOffset(p)' = pos[c][p]
      BY <1>1, <2>1 DEF CountInv
    <3> QED BY <3>1 DEF CountedTo
  <2>2. CASE p \notin owned[c]
    <3>1. \A d \in Consumers : p \notin owned[d]
      BY <1>0, <1>5, <2>2
    <3>2. CountedTo(p, StartOffset(p)) /\ StartOffset(p)' = StartOffset(p)
      BY <1>1, <2>2, <3>1 DEF CountInv
    <3> QED BY <3>2 DEF CountedTo
  <2> QED BY <2>1, <2>2
<1>6. CountInv'
  BY <1>4, <1>5 DEF CountInv
<1> QED BY <1>3, <1>6

LEMMA MemberIInv ==
    ASSUME IInv, NEW c \in Consumers, AutoCommit(c) \/ Join(c) \/ Close(c)
    PROVE  IInv'
<1> USE DEF IInv, localVars, groupVars, threadVars, mainVars
<1>1. /\ CommitStored(c) /\ UNCHANGED <<pos, stored, counted, logEnd, counters, printed>>
      /\ UNCHANGED <<pc, stop_event, assignment_log>>
      /\ UNCHANGED owned \/ owned' = [owned EXCEPT ![c] = {}]
  BY DEF AutoCommit, Join, JoinGroup, Close, LeaveGroup
<1>2. CursorInv' /\ CountInv'
  BY <1>1, CommitKeeps
<1>3. TypeOK'
  <2>1. committed' \in [Partitions -> Nat \cup {NoOffset}]
    BY <1>1, CommitFacts
  <2>2. GroupTypeOK'
    <3>1. /\ members' \subseteq Consumers /\ joined' \subseteq Consumers
          /\ synced' \subseteq Consumers /\ stable' \in BOOLEAN /\ UNCHANGED target
      <4>1. CASE AutoCommit(c)
        BY <4>1 DEF AutoCommit, TypeOK, GroupTypeOK
      <4>2. CASE Join(c)
        BY <4>2 DEF Join, JoinGroup, TypeOK, GroupTypeOK
      <4>3. CASE Close(c)
        BY <4>3 DEF Close, LeaveGroup, Remove, TypeOK, GroupTypeOK
      <4> QED BY <4>1, <4>2, <4>3
    <3>2. owned' \in [Consumers -> SUBSET Partitions]
      BY <1>1 DEF TypeOK, GroupTypeOK
    <3> QED BY <1>1, <2>1, <3>1, <3>2 DEF TypeOK, GroupTypeOK
  <2>3. thread' \in [Consumers -> {"new", "check", "poll", "closing", "closed"}]
    BY DEF TypeOK, AutoCommit, Join, Close
  <2> QED BY <1>1, <2>2, <2>3 DEF TypeOK, Records
<1>4. OwnInv'
  <2>1. CASE AutoCommit(c)
    BY <2>1 DEF AutoCommit, OwnInv, Load, Balanced
  <2>2. CASE Join(c)
    BY <2>2 DEF Join, JoinGroup, OwnInv, Load, TypeOK, GroupTypeOK
  <2>3. CASE Close(c)
    <3>1. /\ thread' = [thread EXCEPT ![c] = "closed"]
          /\ owned' = [owned EXCEPT ![c] = {}]
          /\ members' = members \ {c} /\ joined' = joined \ {c} /\ synced' = synced \ {c}
          /\ target' = target /\ assignment_log' = assignment_log
          /\ stable' => stable /\ UNCHANGED <<members, joined>>
      BY <2>3 DEF Close, LeaveGroup, Remove, OwnInv
    <3>2. \A d \in Consumers : owned'[d] = IF d = c THEN {} ELSE owned[d]
      BY <3>1 DEF TypeOK, GroupTypeOK
    <3>3. \A d \in Consumers : thread'[d] \in {"new", "closed"} => d \notin members'
      BY <3>1 DEF OwnInv, TypeOK
    <3>4. \A d \in Consumers :
             IF d \in synced' \ joined'
             THEN owned'[d] = Load(d)' /\ assignment_log'[d] = Load(d)'
             ELSE owned'[d] = {}
      BY <3>1, <3>2 DEF OwnInv, Load
    <3>5. stable' => joined' = {} /\ members' # {} /\ Balanced(target, members)'
      BY <3>1 DEF OwnInv, Balanced
    <3>6. joined' \subseteq members' /\ synced' \subseteq members'
      BY <3>1 DEF OwnInv
    <3> QED BY <3>3, <3>4, <3>5, <3>6 DEF OwnInv
  <2> QED BY <2>1, <2>2, <2>3
<1> QED BY <1>2, <1>3, <1>4

\* The new assignment arrives: nobody else has the partitions, which are read
\* from where the last owner's commit put the group's offset.
LEMMA SyncIInv == ASSUME IInv, NEW c \in Consumers, Sync(c) PROVE IInv'
<1> USE DEF IInv, threadVars, mainVars
<1>1. /\ stable /\ joined = {} /\ c \in members \ synced
      /\ synced' = synced \cup {c}
      /\ owned' = [owned EXCEPT ![c] = Load(c)]
      /\ pos' = [pos EXCEPT ![c] = [p \in Partitions |->
                    IF target[p] = c THEN StartOffset(p) ELSE @[p]]]
      /\ stored' = [stored EXCEPT ![c] = [p \in Partitions |-> NoOffset]]
      /\ assignment_log' = [assignment_log EXCEPT ![c] = owned'[c]]
      /\ UNCHANGED <<members, stable, joined, target, committed, counted, logEnd, thread,
                     counters, pc, stop_event, printed>>
  BY DEF Sync, SyncGroup, OnAssign, Load, OwnInv
<1>2. \A p \in Partitions : StartOffset(p) \in Nat /\ StartOffset(p)' = StartOffset(p)
  BY <1>1 DEF StartOffset, TypeOK, GroupTypeOK, NoOffset
<1>3. /\ Load(c) \in SUBSET Partitions /\ owned'[c] = Load(c) /\ assignment_log'[c] = Load(c)
      /\ \A d \in Consumers \ {c} : /\ owned'[d] = owned[d] /\ pos'[d] = pos[d]
                                    /\ stored'[d] = stored[d]
                                    /\ assignment_log'[d] = assignment_log[d]
      /\ \A p \in Load(c) : pos'[c][p] = StartOffset(p) /\ stored'[c][p] = NoOffset
  BY <1>1 DEF TypeOK, GroupTypeOK, Load
<1>4. TypeOK'
  <2>1. pos' \in [Consumers -> [Partitions -> Nat]]
    BY <1>1, <1>2 DEF TypeOK, GroupTypeOK
  <2>2. stored' \in [Consumers -> [Partitions -> Nat \cup {NoOffset}]]
    BY <1>1 DEF TypeOK, GroupTypeOK
  <2>3. GroupTypeOK'
    BY <1>1, <1>3, <2>1, <2>2 DEF TypeOK, GroupTypeOK
  <2>4. assignment_log' \in [Consumers -> SUBSET Partitions]
    BY <1>1, <1>3 DEF TypeOK
  <2> QED BY <1>1, <2>3, <2>4 DEF TypeOK, Records
<1>5. OwnInv'
  BY <1>1, <1>3 DEF OwnInv, Load, Balanced
<1>6. CursorInv'
  <2>1. ASSUME NEW d \in Consumers, NEW p \in owned'[d]
        PROVE  \/ stored'[d][p] = NoOffset /\ pos'[d][p] = StartOffset(p)'
               \/ stored'[d][p] = pos'[d][p]
    <3>1. p \in Partitions
      BY <1>1, <1>3, <2>1 DEF TypeOK, GroupTypeOK
    <3>2. CASE d = c
      BY <1>2, <1>3, <2>1, <3>1, <3>2
    <3>3. CASE d # c
      BY <1>2, <1>3, <2>1, <3>1, <3>3 DEF CursorInv
    <3> QED BY <3>2, <3>3
  <2> QED BY <2>1 DEF CursorInv
<1>7. ASSUME NEW p \in Load(c), NEW d \in Consumers PROVE p \notin owned[d]
  BY <1>1 DEF OwnInv, Load
<1>8. CountInv'
  <2>1. ASSUME NEW p \in Partitions, NEW d \in Consumers, p \in owned'[d]
        PROVE  CountedTo(p, pos[d][p])'
    <3>1. CASE d = c
      <4>1. CountedTo(p, StartOffset(p)) /\ pos'[d][p] = StartOffset(p)
        BY <1>3, <1>7, <2>1, <3>1 DEF CountInv
      <4> QED BY <1>1, <4>1 DEF CountedTo
    <3>2. CASE d # c
      <4>1. CountedTo(p, pos[d][p]) /\ pos'[d][p] = pos[d][p]
        BY <1>3, <2>1, <3>2 DEF CountInv
      <4> QED BY <1>1, <4>1 DEF CountedTo
    <3> QED BY <3>1, <3>2
  <2>2. ASSUME NEW p \in Partitions, \A d \in Consumers : p \notin owned'[d]
        PROVE  CountedTo(p, StartOffset(p))'
    <3>1. \A d \in Consumers : p \notin owned[d]
      BY <1>1, <1>3, <2>2 DEF OwnInv
    <3>2. CountedTo(p, StartOffset(p))
      BY <3>1 DEF CountInv
    <3> QED BY <1>1, <1>2, <3>2 DEF CountedTo
  <2> QED BY <2>1, <2>2 DEF CountInv
<1> QED BY <1>4, <1>5, <1>6, <1>8

\* All members have joined, so nobody owns anything.
LEMMA RebalanceIInv == IInv /\ Rebalance => IInv'
<1> SUFFICES ASSUME IInv, Rebalance PROVE IInv'
  OBVIOUS
<1> USE DEF IInv, Rebalance, NextGeneration, localVars, groupVars, threadVars, mainVars
<1>1. \A c \in Consumers : owned[c] = {}
  BY DEF OwnInv
<1>2. TypeOK'
  BY DEF TypeOK, GroupTypeOK, Records
<1>3. OwnInv'
  BY <1>1 DEF OwnInv, Balanced
<1>4. CursorInv' /\ CountInv'
  BY <1>1 DEF CursorInv, CountInv, CountedTo, StartOffset
<1> QED BY <1>2, <1>3, <1>4

LEMMA NextIInv == IInv /\ [Next]_vars => IInv'
<1> SUFFICES ASSUME IInv, [Next]_vars PROVE IInv'
  OBVIOUS
<1>1. CASE UNCHANGED vars
  <2>1. TypeOK'
    BY <1>1 DEF IInv, vars, TypeOK, GroupTypeOK, localVars, groupVars, threadVars,
                mainVars, Records
  <2> QED BY <1>1, <2>1, QuietIInv DEF vars, threadVars, mainVars
<1> QED
  BY <1>1, MainIInv, FloodIInv, ConsumeIInv, MemberIInv, SyncIInv, RebalanceIInv DEF Next

-----------------------------------------------------------------------------

\* Owners, positions, committed offsets and counted records agree while threads
\* join, read, commit and leave in any order.
THEOREM Invariance == Spec => []IInv
<1> QED BY InitIInv, NextIInv, PTL DEF Spec

\* The ceiling of sim_partition_ceiling.py, for any number of consumers and
\* partitions: the active members are never more than the partitions, and in a
\* settled group as many as the smaller of the two.
THEOREM CeilingProved == Spec => []Ceiling
<1>1. IInv => Ceiling
  <2> SUFFICES ASSUME IInv PROVE Ceiling
    OBVIOUS
  <2> USE DEF IInv
  <2>0. members \in SUBSET Consumers /\ target \in [Partitions -> Consumers \cup {Nobody}]
    BY DEF TypeOK, GroupTypeOK
  <2>1. Active \subseteq SharesOf(target, members)
    BY <2>0 DEF Active, SharesOf, OwnInv, Load
  <2>2. Cardinality(Active) <= Cardinality(Partitions)
    <3>1. /\ IsFiniteSet(SharesOf(target, members))
          /\ Cardinality(SharesOf(target, members)) <= Cardinality(Partitions)
      BY <2>0, SharesBound
    <3>2. /\ IsFiniteSet(Active)
          /\ Cardinality(Active) <= Cardinality(SharesOf(target, members))
      BY <2>1, <3>1, FS_Subset
    <3>3. /\ Cardinality(Active) \in Nat /\ Cardinality(Partitions) \in Nat
          /\ Cardinality(SharesOf(target, members)) \in Nat
      BY <3>1, <3>2, CeilingAssumption, FS_CardinalityType
    <3> QED BY <3>1, <3>2, <3>3
  <2>3. ASSUME stable, synced = members
        PROVE  /\ Cardinality(Active) = Least(Cardinality(members), Cardinality(Partitions))
               /\ Shown = Active
    <3>1. \A c \in members : owned[c] = Load(c) /\ assignment_log[c] = Load(c)
      BY <2>0, <2>3 DEF OwnInv
    <3>2. Active = SharesOf(target, members) /\ Shown = Active
      BY <3>1 DEF Active, Shown, SharesOf, Load
    <3>3. Balanced(target, members)
      BY <2>3 DEF OwnInv
    <3> QED BY <2>0, <3>2, <3>3, BalancedShares
  <2> QED BY <2>2, <2>3 DEF Ceiling
<1> QED BY <1>1, Invariance, PTL

\* run_consumer() closes its consumer: when all have, the committed offsets are
\* behind exactly the records that were counted.
THEOREM HandoverProved == Spec => []CleanHandover
<1>1. IInv => CleanHandover
  <2> SUFFICES ASSUME IInv, \A c \in Consumers : thread[c] = "closed"
               PROVE  counted = UNION {{p} \X (0 .. StartOffset(p) - 1) : p \in Partitions}
    BY DEF CleanHandover
  <2> USE DEF IInv
  <2>1. \A c \in Consumers : owned[c] = {}
    BY DEF OwnInv
  <2>2. ASSUME NEW p \in Partitions, NEW o
        PROVE  <<p, o>> \in counted <=> o \in 0 .. StartOffset(p) - 1
    <3>1. CountedTo(p, StartOffset(p)) /\ StartOffset(p) \in Nat /\ logEnd[p] \in Nat
      BY <2>1 DEF CountInv, StartOffset, TypeOK, GroupTypeOK, NoOffset
    <3>2. <<p, o>> \in counted => o \in 0 .. logEnd[p] - 1
      BY RecordFacts DEF TypeOK
    <3> QED BY <3>1, <3>2 DEF CountedTo
  <2>3. \A r \in counted : \E p \in Partitions : \E o \in Nat : r = <<p, o>>
    BY DEF TypeOK, Records
  <2> QED BY <2>2, <2>3
<1> QED BY <1>1, Invariance, PTL

\* The step that the counters rest on: a thread only ever counts a record that
\* no thread has counted before.
THEOREM NeverTwice ==
    Spec => [][\A c \in Consumers : Consume(c) =>
                  \E r \in Records \ counted : counted' = counted \cup {r}]_vars
<1>1. IInv /\ [Next]_vars =>
         [\A c \in Consumers : Consume(c) =>
             \E r \in Records \ counted : counted' = counted \cup {r}]_vars
  BY ConsumeFresh DEF Consume, Advance
<1> QED BY <1>1, Invariance, PTL DEF Spec

LEMMA SumIncreases ==
    ASSUME IInv, SumInv, NEW c \in Consumers, Consume(c)
    PROVE  SumInv'
<1>1. PICK p \in owned[c] :
         pos[c][p] < logEnd[p] /\ counted' = counted \cup {<<p, pos[c][p]>>}
  BY DEF Consume
<1>2. counters' = [counters EXCEPT ![c] = @ + 1] /\ counters \in [Consumers -> Nat]
  BY DEF Consume, IInv, TypeOK
<1>3. <<p, pos[c][p]>> \notin counted
  BY <1>1, ConsumeFresh
<1>4. IsFiniteSet(counted') /\ Cardinality(counted') = Cardinality(counted) + 1
  BY <1>1, <1>3, FS_AddElement DEF SumInv
<1>5. SumFunction(counters') = SumFunction(counters) + 1
  <2>1. /\ counters' \in [Consumers -> Nat]
        /\ \A d \in Consumers : counters'[d] = IF d = c THEN counters[d] + 1 ELSE counters[d]
    BY <1>2
  <2>2. Raised(Consumers, counters, counters', c, 1)
    BY <1>2, <2>1 DEF Raised
  <2> QED BY <2>2, CeilingAssumption, SumIncrease
<1> QED BY <1>2, <1>4, <1>5 DEF SumInv, CountedOnce

LEMMA SumNext == IInv /\ SumInv /\ [Next]_vars => SumInv'
<1> SUFFICES ASSUME IInv, SumInv, [Next]_vars PROVE SumInv'
  OBVIOUS
<1>1. CASE \E c \in Consumers : Consume(c)
  BY <1>1, SumIncreases
<1>2. CASE UNCHANGED <<counters, counted>>
  BY <1>2 DEF SumInv, CountedOnce
<1>3. ASSUME NEW c \in Consumers,
             \/ CheckStop(c) \/ PollEmpty(c) \/ Close(c)
             \/ Join(c) \/ Sync(c) \/ AutoCommit(c) \/ Launch(c)
      PROVE  UNCHANGED <<counters, counted>>
  BY <1>3 DEF CheckStop, PollEmpty, Close, Join, Sync, AutoCommit, Launch, threadVars
<1>4. ASSUME Rebalance \/ Stop \/ Summarise \/ (\E p \in Partitions : FloodRecord(p))
      PROVE  UNCHANGED <<counters, counted>>
  BY <1>4 DEF Rebalance, Stop, Summarise, FloodRecord, threadVars
<1>5. CASE UNCHANGED vars
  BY <1>2, <1>5 DEF vars, threadVars
<1> QED BY <1>1, <1>2, <1>3, <1>4, <1>5 DEF Next

\* CountedOnce for any number of threads and records: the counters of
\* sim_partition_ceiling.py add up to the records that were counted.
THEOREM CountedProved == Spec => []CountedOnce
<1>1. Init => SumInv
  <2> SUFFICES ASSUME Init PROVE SumInv
    OBVIOUS
  <2>1. counters = [c \in Consumers |-> 0] /\ counted = {}
    BY DEF Init
  <2>2. SumFunction(counters) = 0
    BY <2>1, CeilingAssumption, SumOfZeros
  <2> QED BY <2>1, <2>2, FS_EmptySet DEF SumInv, CountedOnce
<1>2. SumInv => CountedOnce
  BY DEF SumInv
<1> QED BY <1>1, <1>2, SumNext, Invariance, PTL DEF Spec

\* A settled group that has nothing to poll has counted the whole flood: the
\* counters that S3 prints then add up to the records of the topic, however the
\* threads of run_round() came together.
THEOREM SettledHasRead ==
    Spec => [](/\ stable /\ synced = members
               /\ \A c \in Consumers : \A p \in owned[c] : pos[c][p] >= logEnd[p]
               => counted = Records /\ SumFunction(counters) = Cardinality(Records))
<1>1. ASSUME IInv, CountedOnce, stable, synced = members,
             \A c \in Consumers : \A p \in owned[c] : pos[c][p] >= logEnd[p]
      PROVE  counted = Records /\ SumFunction(counters) = Cardinality(Records)
  <2>1. ASSUME NEW p \in Partitions, NEW o \in 0 .. logEnd[p] - 1
        PROVE  <<p, o>> \in counted
    <3>1. PICK c \in members : target[p] = c
      BY <1>1 DEF IInv, OwnInv, Balanced
    <3>2. c \in Consumers /\ c \in synced \ joined
      BY <1>1 DEF IInv, OwnInv, TypeOK, GroupTypeOK
    <3>3. p \in owned[c]
      BY <1>1, <3>1, <3>2 DEF IInv, OwnInv, Load
    <3>4. CountedTo(p, pos[c][p]) /\ pos[c][p] >= logEnd[p]
      BY <1>1, <3>2, <3>3 DEF IInv, CountInv
    <3>5. pos[c][p] \in Nat /\ logEnd[p] \in Nat
      BY <1>1, <3>2 DEF IInv, TypeOK, GroupTypeOK
    <3> QED BY <3>4, <3>5 DEF CountedTo
  <2>2. counted \subseteq Records
    BY <1>1 DEF IInv, TypeOK
  <2>3. counted = Records
    BY <2>1, <2>2 DEF Records
  <2> QED BY <1>1, <2>3 DEF CountedOnce
<1> QED BY <1>1, Invariance, CountedProved, PTL

-----------------------------------------------------------------------------
(* The threads read like one reader.                                        *)

\* An owner is not behind the committed offset.  Inductive together with IInv.
BehindInv == \A c \in Consumers : \A p \in owned[c] : StartOffset(p) <= pos[c][p]

LEMMA OffsetFacts ==
    ASSUME TypeOK
    PROVE  /\ \A p \in Partitions : StartOffset(p) \in Nat
           /\ \A c \in Consumers : \A p \in owned[c] : p \in Partitions /\ pos[c][p] \in Nat
BY DEF TypeOK, GroupTypeOK, StartOffset, NoOffset

\* The steps that move no offset.
LEMMA BehindKept ==
    ASSUME IInv, BehindInv, UNCHANGED <<owned, pos, committed>>
    PROVE  BehindInv'
BY DEF BehindInv, StartOffset

LEMMA BehindConsume ==
    ASSUME IInv, BehindInv, NEW c \in Consumers, Consume(c)
    PROVE  BehindInv'
<1>1. PICK p \in owned[c] : pos' = [pos EXCEPT ![c][p] = @ + 1]
  BY DEF Consume, Advance
<1>2. UNCHANGED <<owned, committed>>
  BY DEF Consume
<1>3. \A d \in Consumers : \A q \in owned[d] :
         pos[d][q] \in Nat /\ pos'[d][q] \in {pos[d][q], pos[d][q] + 1}
  BY <1>1, OffsetFacts DEF IInv, TypeOK, GroupTypeOK
<1>4. \A q \in Partitions : StartOffset(q)' = StartOffset(q) /\ StartOffset(q) \in Nat
  BY <1>2, OffsetFacts DEF StartOffset, IInv
<1> QED BY <1>2, <1>3, <1>4, OffsetFacts DEF BehindInv, IInv

\* A commit moves an offset to its owner's position.
LEMMA BehindMember ==
    ASSUME IInv, BehindInv, NEW c \in Consumers, AutoCommit(c) \/ Join(c) \/ Close(c)
    PROVE  BehindInv'
<1> USE DEF IInv
<1>1. /\ CommitStored(c) /\ UNCHANGED pos
      /\ UNCHANGED owned \/ owned' = [owned EXCEPT ![c] = {}]
  BY DEF AutoCommit, Join, JoinGroup, Close, LeaveGroup, localVars
<1>2. \A d \in Consumers : owned'[d] \subseteq owned[d]
  BY <1>1 DEF TypeOK, GroupTypeOK
<1>3. \A p \in Partitions :
         StartOffset(p)' = IF p \in owned[c] THEN pos[c][p] ELSE StartOffset(p)
  BY <1>1, CommitFacts
<1>4. ASSUME NEW d \in Consumers, NEW p \in owned[d] PROVE StartOffset(p)' <= pos[d][p]
  <2>1. p \in Partitions /\ pos[d][p] \in Nat
    BY OffsetFacts
  <2>2. p \in owned[c] => c = d
    BY OneOwner
  <2> QED BY <1>3, <2>1, <2>2 DEF BehindInv
<1> QED BY <1>1, <1>2, <1>4 DEF BehindInv

\* A new owner starts at the committed offset.
LEMMA BehindSync ==
    ASSUME IInv, BehindInv, NEW c \in Consumers, Sync(c)
    PROVE  BehindInv'
<1> USE DEF IInv, TypeOK, GroupTypeOK
<1>1. /\ owned' = [owned EXCEPT ![c] = {p \in Partitions : target[p] = c}]
      /\ pos' = [pos EXCEPT ![c] = [p \in Partitions |->
                    IF target[p] = c THEN StartOffset(p) ELSE @[p]]]
      /\ UNCHANGED committed
  BY DEF Sync, SyncGroup
<1>2. \A p \in Partitions : StartOffset(p)' = StartOffset(p) /\ StartOffset(p) \in Nat
  BY <1>1, OffsetFacts DEF StartOffset
<1>3. \A p \in owned'[c] : p \in Partitions /\ pos'[c][p] = StartOffset(p)
  BY <1>1
<1>4. \A d \in Consumers \ {c} : owned'[d] = owned[d] /\ pos'[d] = pos[d]
  BY <1>1
<1>5. SUFFICES ASSUME NEW d \in Consumers, NEW p \in owned'[d]
               PROVE  StartOffset(p)' <= pos'[d][p]
  BY DEF BehindInv
<1>6. CASE d = c
  BY <1>2, <1>3, <1>6
<1>7. CASE d # c
  <2>1. p \in owned[d] /\ pos'[d][p] = pos[d][p] /\ p \in Partitions
    BY <1>4, <1>7, OffsetFacts
  <2> QED BY <1>2, <2>1 DEF BehindInv
<1> QED BY <1>6, <1>7

LEMMA BehindNext == IInv /\ BehindInv /\ [Next]_vars => BehindInv'
<1> SUFFICES ASSUME IInv, BehindInv, [Next]_vars PROVE BehindInv'
  OBVIOUS
<1>1. ASSUME NEW c \in Consumers, CheckStop(c) \/ PollEmpty(c) \/ Launch(c)
      PROVE  BehindInv'
  BY <1>1, BehindKept DEF CheckStop, PollEmpty, Launch, localVars
<1>2. ASSUME Rebalance \/ Stop \/ Summarise \/ (\E p \in Partitions : FloodRecord(p))
      PROVE  BehindInv'
  BY <1>2, BehindKept DEF Rebalance, NextGeneration, Stop, Summarise, FloodRecord, localVars
<1>3. CASE UNCHANGED vars
  BY <1>3, BehindKept DEF vars, localVars
<1> QED BY <1>1, <1>2, <1>3, BehindConsume, BehindMember, BehindSync DEF Next

\* Who has read n records of a partition has read no more than all have counted.
LEMMA PrefixBound ==
    ASSUME SumInv, NEW p \in Partitions, NEW n \in Nat,
           \A o \in 0 .. n - 1 : <<p, o>> \in counted
    PROVE  n <= SumFunction(counters)
<1> DEFINE f == [o \in 0 .. n - 1 |-> <<p, o>>]
<1>1. f \in Injection(0 .. n - 1, counted)
  BY DEF Injection, IsInjective
<1> HIDE DEF f
<1>2. Cardinality(0 .. n - 1) <= Cardinality(counted)
  BY <1>1, FS_Injection DEF SumInv
<1>3. Cardinality(0 .. n - 1) = n
  BY FS_Interval
<1> QED BY <1>2, <1>3 DEF SumInv, CountedOnce

\* A counted record is the next one of its partition.
LEMMA ConsumeReads ==
    ASSUME IInv, SumInv, NEW c \in Consumers, Consume(c)
    PROVE  \E p \in Partitions, o \in 0 .. SumFunction(counters) : Contract!Read(p, o)
<1>1. PICK p \in owned[c] :
         pos[c][p] < logEnd[p] /\ counted' = counted \cup {<<p, pos[c][p]>>}
  BY DEF Consume
<1>2. p \in Partitions /\ pos[c][p] \in Nat /\ logEnd[p] \in Nat
  BY DEF IInv, TypeOK, GroupTypeOK
<1>3. \A o \in 0 .. pos[c][p] - 1 : <<p, o>> \in counted
  BY <1>1, <1>2 DEF IInv, CountInv, CountedTo
<1>4. pos[c][p] \in 0 .. SumFunction(counters)
  <2>1. SumFunction(counters) \in Nat
    BY FS_CardinalityType DEF SumInv, CountedOnce
  <2> QED BY <1>2, <1>3, <2>1, PrefixBound
<1>5. <<p, pos[c][p]>> \notin counted
  BY <1>1, ConsumeFresh
<1>6. SumFunction(counters') = SumFunction(counters) + 1
  <2>1. IsFiniteSet(counted) /\ SumInv'
    BY SumIncreases DEF SumInv
  <2>2. Cardinality(counted') = Cardinality(counted) + 1
    BY <1>1, <1>5, <2>1, FS_AddElement
  <2> QED BY <2>1, <2>2 DEF SumInv, CountedOnce
<1>7. [q \in Partitions |-> StartOffset(q)]' = [q \in Partitions |-> StartOffset(q)]
  BY DEF Consume, StartOffset
<1>8. Contract!Read(p, pos[c][p])
  BY <1>1, <1>3, <1>5, <1>6, <1>7 DEF Contract!Read, Contract!ReadTo
<1> QED BY <1>2, <1>4, <1>8

\* A commit of a thread is one of the reader, up to what it has counted.
LEMMA MemberCommits ==
    ASSUME IInv, BehindInv, NEW c \in Consumers, AutoCommit(c) \/ Join(c) \/ Close(c)
    PROVE  Contract!Commit
<1> USE DEF IInv
<1>1. CommitStored(c) /\ UNCHANGED <<counted, counters>>
  BY DEF AutoCommit, Join, JoinGroup, Close, LeaveGroup, threadVars
<1>2. \A p \in Partitions :
         StartOffset(p)' = IF p \in owned[c] THEN pos[c][p] ELSE StartOffset(p)
  BY <1>1, CommitFacts
<1>3. ASSUME NEW p \in Partitions
      PROVE  /\ StartOffset(p)' \in Nat /\ StartOffset(p) <= StartOffset(p)'
             /\ \A o \in 0 .. StartOffset(p)' - 1 : <<p, o>> \in counted
  <2>1. StartOffset(p) \in Nat /\ logEnd[p] \in Nat
    BY OffsetFacts DEF TypeOK
  <2>2. CASE p \in owned[c]
    <3>1. CountedTo(p, pos[c][p]) /\ pos[c][p] \in Nat /\ StartOffset(p) <= pos[c][p]
      BY <2>2, OffsetFacts DEF CountInv, BehindInv
    <3> QED BY <1>2, <2>1, <2>2, <3>1 DEF CountedTo
  <2>3. CASE \E d \in Consumers : p \in owned[d] /\ d # c
    <3>1. PICK d \in Consumers : p \in owned[d] /\ d # c
      BY <2>3
    <3>2. CountedTo(p, pos[d][p]) /\ pos[d][p] \in Nat /\ StartOffset(p) <= pos[d][p]
      BY <3>1, OffsetFacts DEF CountInv, BehindInv
    <3>3. StartOffset(p)' = StartOffset(p)
      BY <1>2, <3>1, OneOwner
    <3> QED BY <2>1, <3>2, <3>3 DEF CountedTo
  <2>4. CASE \A d \in Consumers : p \notin owned[d]
    <3>1. CountedTo(p, StartOffset(p)) /\ StartOffset(p)' = StartOffset(p)
      BY <1>2, <2>4 DEF CountInv
    <3> QED BY <2>1, <3>1 DEF CountedTo
  <2> QED BY <2>2, <2>3, <2>4
<1> DEFINE Cursor == [p \in Partitions |-> StartOffset(p)]
<1>4. /\ Cursor' \in [Partitions -> Nat]
      /\ \A p \in Partitions : Cursor[p] = StartOffset(p) /\ Cursor'[p] = StartOffset(p)'
  BY <1>3
<1>5. \A p \in Partitions : Cursor[p] <= Cursor'[p] /\ Contract!ReadTo(p, Cursor'[p])
  BY <1>3, <1>4 DEF Contract!ReadTo
<1>6. UNCHANGED <<counted, SumFunction(counters)>>
  BY <1>1
<1> QED BY <1>4, <1>5, <1>6 DEF Contract!Commit

\* ReadsInOrder for any numbers of threads, partitions and records: a group
\* whose members join, close and commit in any order (run_consumer()) reads
\* like one reader.
THEOREM Refinement == Spec => ReadsInOrder
<1>1. Init => Contract!Init /\ BehindInv /\ SumInv
  <2> SUFFICES ASSUME Init PROVE Contract!Init /\ BehindInv /\ SumInv
    OBVIOUS
  <2>1. counters = [c \in Consumers |-> 0] /\ counted = {} /\ owned = [c \in Consumers |-> {}]
    BY DEF Init, GroupInit
  <2>2. SumFunction(counters) = 0
    BY <2>1, CeilingAssumption, SumOfZeros
  <2>3. [p \in Partitions |-> StartOffset(p)] = [p \in Partitions |-> 0]
    BY DEF Init, GroupInit, StartOffset
  <2> QED BY <2>1, <2>2, <2>3, FS_EmptySet
          DEF Contract!Init, BehindInv, SumInv, CountedOnce
<1>2. IInv /\ BehindInv /\ SumInv /\ [Next]_vars => [Contract!Next]_(Contract!vars)
  <2> SUFFICES ASSUME IInv, BehindInv, SumInv, [Next]_vars
               PROVE  [Contract!Next]_(Contract!vars)
    OBVIOUS
  <2>1. CASE UNCHANGED <<counted, counters, committed>>
    <3>1. [p \in Partitions |-> StartOffset(p)]' = [p \in Partitions |-> StartOffset(p)]
      BY <2>1 DEF StartOffset
    <3> QED BY <2>1, <3>1 DEF Contract!vars
  <2>2. ASSUME NEW c \in Consumers, CheckStop(c) \/ PollEmpty(c) \/ Launch(c) \/ Sync(c)
        PROVE  UNCHANGED <<counted, counters, committed>>
    BY <2>2 DEF CheckStop, PollEmpty, Launch, Sync, SyncGroup
  <2>3. ASSUME Rebalance \/ Stop \/ Summarise \/ (\E p \in Partitions : FloodRecord(p))
        PROVE  UNCHANGED <<counted, counters, committed>>
    BY <2>3 DEF Rebalance, NextGeneration, Stop, Summarise, FloodRecord, threadVars
  <2>4. CASE UNCHANGED vars
    BY <2>1, <2>4 DEF vars, threadVars
  <2>5. ASSUME NEW c \in Consumers, Consume(c) PROVE Contract!Next
    BY <2>5, ConsumeReads DEF Contract!Next
  <2>6. ASSUME NEW c \in Consumers, AutoCommit(c) \/ Join(c) \/ Close(c) PROVE Contract!Next
    BY <2>6, MemberCommits DEF Contract!Next
  <2> QED BY <2>1, <2>2, <2>3, <2>4, <2>5, <2>6 DEF Next
<1> QED BY <1>1, <1>2, BehindNext, SumNext, Invariance, PTL
        DEF Spec, ReadsInOrder, Contract!Spec

-----------------------------------------------------------------------------
(* CrashRecovery.                                                           *)

\* A scenario has a first spec, and each of them a topic and a partition count.
LEMMA SpecFacts ==
    ASSUME Crash!ScenarioAssumption, NEW n \in 1 .. Len(Scenarios)
    PROVE  /\ Len(Scenarios[n]) \in Nat \ {0} /\ 1 \in 1 .. Len(Scenarios[n])
           /\ \A s \in 1 .. Len(Scenarios[n]) :
                 /\ Scenarios[n][s].topic \in Topics
                 /\ Scenarios[n][s].parts \in Nat
<1> DEFINE R == [topic : Topics, parts : Nat \ {0}]
<1>1. Scenarios \in Seq(Seq(R)) /\ \A s \in DOMAIN Scenarios : Scenarios[s] # <<>>
  BY DEF Crash!ScenarioAssumption
<1>2. Scenarios[n] \in Seq(R) /\ Scenarios[n] # <<>>
  BY <1>1
<1>3. Len(Scenarios[n]) \in Nat \ {0}
  BY <1>2
<1>4. \A s \in 1 .. Len(Scenarios[n]) : Scenarios[n][s] \in R
  <2> HIDE DEF R
  <2> QED BY <1>2
<1> QED BY <1>3, <1>4

\* What the module assumes, at the scenario the script is at.
LEMMA SpecsFacts ==
    ASSUME Crash!ScenarioAssumption, scenario \in 1 .. Len(Scenarios)
    PROVE  /\ Len(Crash!Specs) \in Nat \ {0} /\ 1 \in 1 .. Len(Crash!Specs)
           /\ \A s \in 1 .. Len(Crash!Specs) : /\ Crash!Specs[s].topic \in Topics
                                               /\ Crash!Specs[s].parts \in Nat
BY SpecFacts DEF Crash!Specs

LEMMA CrashInit ==
    ASSUME Crash!ScenarioAssumption
    PROVE  Crash!Init => Crash!IInv
<1> SUFFICES ASSUME Crash!Init PROVE Crash!IInv
  OBVIOUS
<1>1. scenario \in 1 .. Len(Scenarios) /\ spec = 1
  BY DEF Crash!ScenarioAssumption, Crash!Init
<1>2. Crash!TypeOK
  <2>1. spec \in 1 .. Len(Crash!Specs) /\ target \in Topics
    <3>1. 1 \in 1 .. Len(Crash!Specs) /\ Crash!Specs[1].topic \in Topics
      BY <1>1, SpecsFacts
    <3> QED BY <1>1, <3>1 DEF Crash!Init
  <2>2. running \in BOOLEAN
    BY DEF Crash!Init
  <2>3. /\ partitions \in [Topics -> Nat] /\ pending \subseteq Crash!Messages
        /\ cache \in [Topics -> SUBSET Crash!Messages]
    BY DEF Crash!Init, Crash!Nothing, Crash!ScenarioAssumption
  <2>5. disk \in [Topics -> SUBSET Crash!Messages]
    <3>1. <<0, 0>> \in Crash!Messages
      BY <1>1 DEF Crash!ScenarioAssumption, Crash!Messages
    <3> QED BY <3>1 DEF Crash!Init
  <2>4. total_parts \in Nat /\ pc = "create" /\ broker = "up"
    BY DEF Crash!Init
  <2> QED BY <1>1, <2>1, <2>2, <2>3, <2>4, <2>5 DEF Crash!TypeOK
<1>3. Crash!ScriptInv /\ Crash!CreatedInv /\ Crash!NoStrays
  BY <1>1 DEF Crash!Init, Crash!ScriptInv, Crash!CreatedInv, Crash!NoStrays
<1> QED BY <1>2, <1>3 DEF Crash!IInv

\* What the script does to a topic's messages.
LEMMA CrashCreateTopic ==
    ASSUME Crash!ScenarioAssumption, Crash!IInv, Crash!CreateTopic
    PROVE  Crash!IInv'
<1> USE DEF Crash!IInv, Crash!TypeOK
<1> DEFINE s == Crash!Specs[spec]
<1>1. /\ s.topic \in Topics /\ s.parts \in Nat
      /\ Len(Crash!Specs) \in Nat /\ 1 \in 1 .. Len(Crash!Specs)
  BY SpecsFacts
<1>2. /\ pc = "create" /\ ~running
      /\ total_parts' = total_parts + s.parts
      /\ partitions' = [partitions EXCEPT ![s.topic] = s.parts]
      /\ cache' = [cache EXCEPT ![s.topic] = {}]
      /\ disk' = [disk EXCEPT ![s.topic] = {}]
      /\ UNCHANGED <<scenario, broker, running, target, pending>>
      /\ \/ spec < Len(Crash!Specs) /\ spec' = spec + 1 /\ pc' = "create"
         \/ spec = Len(Crash!Specs) /\ spec' = 1 /\ pc' = "seed"
      /\ Crash!Specs' = Crash!Specs
  BY <1>1, SMTT(30) DEF Crash!CreateTopic, Crash!NextSpec, Crash!ScriptInv, Crash!Specs,
                        Crash!floodVars
<1>3. \A t \in Topics : /\ disk'[t] = IF t = s.topic THEN {} ELSE disk[t]
                        /\ cache'[t] = IF t = s.topic THEN {} ELSE cache[t]
  BY <1>1, <1>2
<1> HIDE DEF s
<1>4. Crash!TypeOK'
  <2>1. /\ partitions' \in [Topics -> Nat]
        /\ cache' \in [Topics -> SUBSET Crash!Messages]
        /\ disk' \in [Topics -> SUBSET Crash!Messages]
    BY <1>1, <1>2
  <2>2. spec' \in 1 .. Len(Crash!Specs)'
    <3>1. spec' \in 1 .. Len(Crash!Specs)
      BY <1>1, <1>2, SMTT(30)
    <3> QED BY <1>2, <3>1
  <2>4. total_parts' \in Nat
    BY <1>1, <1>2, SMTT(30)
  <2>3. pc' \in {"create", "seed"}
    BY <1>2
  <2> QED BY <1>2, <2>1, <2>2, <2>3, <2>4 DEF Crash!Messages
<1>5. Crash!ScriptInv'
  BY <1>2 DEF Crash!ScriptInv
<1>6. ASSUME NEW i \in 1 .. spec
      PROVE  disk'[Crash!Specs[i].topic] = {} /\ cache'[Crash!Specs[i].topic] = {}
  <2>1. i \in 1 .. Len(Crash!Specs)
    OBVIOUS
  <2>2. Crash!Specs[i].topic \in Topics
    BY <2>1, SpecsFacts
  <2>3. CASE i = spec
    BY <1>3, <2>2, <2>3 DEF s
  <2>4. CASE i # spec
    <3>1. i \in 1 .. spec - 1
      BY <2>4
    <3>2. disk[Crash!Specs[i].topic] = {} /\ cache[Crash!Specs[i].topic] = {}
      BY <1>2, <3>1 DEF Crash!CreatedInv
    <3> QED BY <1>3, <2>2, <3>2
  <2> QED BY <2>3, <2>4
<1>7. Crash!CreatedInv'
  <2>1. CASE spec' = spec + 1
    <3>1. spec' - 1 = spec
      BY <1>1, <2>1
    <3> QED BY <1>2, <1>6, <3>1 DEF Crash!CreatedInv
  <2>2. CASE pc' = "seed"
    BY <2>2 DEF Crash!CreatedInv
  <2> QED BY <1>2, <2>1, <2>2
<1>8. Crash!NoStrays'
  BY <1>2, <1>6 DEF Crash!NoStrays
<1> QED BY <1>4, <1>5, <1>7, <1>8

LEMMA CrashSeed ==
    ASSUME Crash!ScenarioAssumption, Crash!IInv, Crash!Seed
    PROVE  Crash!IInv'
<1> USE DEF Crash!IInv, Crash!TypeOK
<1> DEFINE t == Crash!Specs[spec].topic
<1>1. t \in Topics /\ Len(Crash!Specs) \in Nat
  BY SpecsFacts
<1>2. /\ pc = "seed" /\ ~running
      /\ UNCHANGED <<scenario, total_parts, broker, partitions, disk, running, target, pending>>
      /\ \/ spec < Len(Crash!Specs) /\ spec' = spec + 1 /\ pc' = "seed"
         \/ spec = Len(Crash!Specs) /\ spec' = 1 /\ pc' = "launch"
      /\ Crash!Specs' = Crash!Specs
  BY <1>1 DEF Crash!Seed, Crash!NextSpec, Crash!ScriptInv, Crash!Specs, Crash!floodVars
<1>3. UNCHANGED cache \/ cache' = [cache EXCEPT ![t] = @ \cup {<<scenario, 0>>}]
  BY DEF Crash!Seed
<1> HIDE DEF t
<1>4. \A u \in Topics : cache'[u] \subseteq cache[u] \cup {<<scenario, 0>>}
  BY <1>1, <1>3
<1>5. <<scenario, 0>> \in Crash!Messages /\ <<scenario, 0>> \in {scenario} \X (0 .. Flood)
  BY DEF Crash!ScenarioAssumption, Crash!Messages
<1>6. Crash!TypeOK'
  <2>1. cache' \in [Topics -> SUBSET Crash!Messages]
    <3>1. cache[t] \cup {<<scenario, 0>>} \subseteq Crash!Messages
      BY <1>1, <1>5
    <3> QED BY <1>1, <1>3, <3>1
  <2>2. spec' \in 1 .. Len(Crash!Specs)'
    BY <1>1, <1>2, SpecsFacts
  <2>3. pc' \in {"seed", "launch"}
    BY <1>2
  <2> QED BY <1>2, <2>1, <2>2, <2>3 DEF Crash!Messages
<1>7. Crash!ScriptInv' /\ Crash!CreatedInv'
  BY <1>2 DEF Crash!ScriptInv, Crash!CreatedInv
<1>8. Crash!NoStrays'
  BY <1>2, <1>4, <1>5, SpecsFacts DEF Crash!NoStrays
<1> QED BY <1>6, <1>7, <1>8

\* The commands that leave the messages where they are; a scenario may end, and
\* the next one begins.
LEMMA CrashCommand ==
    ASSUME Crash!ScenarioAssumption, Crash!IInv,
           \/ Crash!Launch \/ Crash!Start \/ Crash!Healthy \/ Crash!Fail \/ Crash!Join
           \/ Crash!Recover \/ Crash!Exit
    PROVE  Crash!IInv'
<1> USE DEF Crash!IInv, Crash!TypeOK
<1>1. UNCHANGED <<partitions, cache, disk>>
  BY DEF Crash!Launch, Crash!Start, Crash!Healthy, Crash!Fail, Crash!Join,
         Crash!NextScenario, Crash!Recover, Crash!Exit, Crash!brokerVars, Crash!floodVars,
         Crash!scriptVars
<1>2. CASE Crash!Join
  <2>1. /\ ~running /\ UNCHANGED <<running, target, pending, spec, broker>>
        /\ spec = 1
        /\ \/ /\ scenario < Len(Scenarios) /\ pc' = "create"
              /\ scenario' = scenario + 1 /\ total_parts' = 0
           \/ pc = "join" /\ pc' = "ended" /\ UNCHANGED <<scenario, total_parts>>
    BY <1>2 DEF Crash!Join, Crash!NextScenario, Crash!brokerVars, Crash!floodVars,
                Crash!ScriptInv
  <2>2. scenario' \in 1 .. Len(Scenarios)
    BY <2>1
  <2>3. 1 \in 1 .. Len(Crash!Specs)'
    BY <2>2, SpecFacts, SMTT(30) DEF Crash!Specs
  <2>4. Crash!TypeOK'
    BY <1>1, <2>1, <2>2, <2>3, SMTT(30)
  <2>5. Crash!ScriptInv' /\ Crash!CreatedInv'
    BY <2>1 DEF Crash!ScriptInv, Crash!CreatedInv
  <2>6. Crash!NoStrays'
    BY <1>1, <2>1 DEF Crash!NoStrays, Crash!Specs
  <2> QED BY <2>4, <2>5, <2>6
<1>3. CASE Crash!Launch
  <2>1. /\ pc = "launch" /\ pc' = "kill" /\ running' = TRUE
        /\ target' = Crash!Specs[1].topic
        /\ pending' = {scenario} \X (1 .. Flood)
        /\ UNCHANGED <<scenario, spec, total_parts, broker>>
    BY <1>3 DEF Crash!Launch, Crash!brokerVars
  <2>2. /\ 1 \in 1 .. Len(Crash!Specs) /\ Crash!Specs[1].topic \in Topics
        /\ Crash!Specs' = Crash!Specs
    BY <2>1, SpecsFacts DEF Crash!Specs
  <2>3. /\ pending' \subseteq {scenario} \X (0 .. Flood)
        /\ pending' \subseteq Crash!Messages
    BY <2>1, SMTT(30) DEF Crash!Messages
  <2>4. Crash!TypeOK'
    BY <1>1, <2>1, <2>2, <2>3
  <2>5. Crash!ScriptInv' /\ Crash!CreatedInv' /\ Crash!NoStrays'
    BY <1>1, <2>1, <2>2, <2>3 DEF Crash!ScriptInv, Crash!CreatedInv, Crash!NoStrays
  <2> QED BY <2>4, <2>5
<1>4. CASE ~Crash!Join /\ ~Crash!Launch
  <2>1. /\ UNCHANGED <<scenario, spec, total_parts, target, pending>>
        /\ running' = running \/ running' = FALSE
        /\ Crash!Specs' = Crash!Specs
        /\ broker' \in {"up", "recovering", broker}
        /\ \/ pc' = pc
           \/ pc' = "failed"
           \/ pc \in {"start", "health"} /\ pc' \in {"health", "join"}
    BY <1>4 DEF Crash!Start, Crash!Healthy, Crash!Fail, Crash!Recover, Crash!Exit,
                Crash!brokerVars, Crash!floodVars, Crash!scriptVars, Crash!Specs
  <2>2. Crash!TypeOK'
    BY <1>1, <2>1
  <2>3. Crash!ScriptInv'
    <3>1. pc' \in {"create", "seed", "failed"} \/ spec' = 1
      BY <2>1 DEF Crash!ScriptInv
    <3>2. ASSUME running'
          PROVE  /\ pc' \in {"kill", "start", "health", "join", "failed"}
                 /\ pending' \subseteq {scenario'} \X (0 .. Flood)
      <4>1. running
        BY <2>1, <3>2
      <4> QED BY <2>1, <4>1 DEF Crash!ScriptInv
    <3> QED BY <3>1, <3>2 DEF Crash!ScriptInv
  <2>4. Crash!CreatedInv' /\ Crash!NoStrays'
    BY <1>1, <2>1 DEF Crash!CreatedInv, Crash!NoStrays
  <2> QED BY <2>2, <2>3, <2>4
<1> QED BY <1>2, <1>3, <1>4

LEMMA CrashKill ==
    ASSUME Crash!ScenarioAssumption, Crash!IInv, Crash!Kill
    PROVE  Crash!IInv'
<1> USE DEF Crash!IInv, Crash!TypeOK
<1>1. PICK written \in SUBSET {e \in Topics \X Crash!Messages : e[2] \in cache[e[1]]} :
         disk' = [t \in Topics |-> disk[t] \cup {m \in cache[t] : <<t, m>> \in written}]
  BY DEF Crash!Kill
<1>2. /\ pc = "kill" /\ pc' = "start" /\ broker' = "down"
      /\ cache' = [t \in Topics |-> {}]
      /\ UNCHANGED <<scenario, spec, total_parts, partitions, running, target, pending>>
      /\ Crash!Specs' = Crash!Specs
  BY DEF Crash!Kill, Crash!Nothing, Crash!floodVars, Crash!Specs
<1>3. \A t \in Topics : disk'[t] \subseteq disk[t] \cup cache[t] /\ cache'[t] = {}
  BY <1>1, <1>2
<1>4. Crash!TypeOK'
  <2>1. disk' \in [Topics -> SUBSET Crash!Messages]
    BY <1>1
  <2>2. cache' \in [Topics -> SUBSET Crash!Messages]
    BY <1>2
  <2> QED BY <1>2, <2>1, <2>2 DEF Crash!Messages
<1>5. Crash!ScriptInv' /\ Crash!CreatedInv'
  BY <1>2 DEF Crash!ScriptInv, Crash!CreatedInv
<1>6. Crash!NoStrays'
  <2>1. \A i \in 1 .. Len(Crash!Specs) : Crash!Specs[i].topic \in Topics
    BY SpecsFacts
  <2>2. \A t \in Topics : disk'[t] \cup cache'[t] \subseteq disk[t] \cup cache[t]
    BY <1>3
  <2> QED BY <1>2, <2>1, <2>2 DEF Crash!NoStrays
<1> QED BY <1>4, <1>5, <1>6

\* On the broker's own account, what is appended is flushed and nothing else.
LEMMA CrashFlushDisk ==
    ASSUME Crash!ScenarioAssumption, Crash!IInv, Crash!FlushDisk
    PROVE  Crash!IInv'
<1> USE DEF Crash!IInv, Crash!TypeOK
<1>1. /\ disk' = [t \in Topics |-> disk[t] \cup cache[t]]
      /\ cache' = [t \in Topics |-> {}]
      /\ UNCHANGED <<pc, scenario, spec, total_parts, broker, partitions,
                     running, target, pending>>
      /\ Crash!Specs' = Crash!Specs
  BY DEF Crash!FlushDisk, Crash!Nothing, Crash!scriptVars, Crash!floodVars, Crash!Specs
<1>2. \A t \in Topics : disk'[t] = disk[t] \cup cache[t] /\ cache'[t] = {}
  BY <1>1
<1>3. Crash!TypeOK'
  <2>1. /\ disk' \in [Topics -> SUBSET Crash!Messages]
        /\ cache' \in [Topics -> SUBSET Crash!Messages]
    BY <1>1
  <2> QED BY <1>1, <2>1 DEF Crash!Messages
<1>4. Crash!ScriptInv'
  BY <1>1 DEF Crash!ScriptInv
<1>5. Crash!NoStrays'
  BY <1>1, <1>2, SpecsFacts DEF Crash!NoStrays
<1>6. Crash!CreatedInv'
  <2>1. ASSUME pc = "create", NEW i \in 1 .. spec - 1
        PROVE  disk'[Crash!Specs[i].topic] = {} /\ cache'[Crash!Specs[i].topic] = {}
    <3>1. i \in 1 .. Len(Crash!Specs)
      BY SpecsFacts
    <3>2. Crash!Specs[i].topic \in Topics
      BY <3>1, SpecsFacts
    <3> QED BY <1>2, <2>1, <3>2 DEF Crash!CreatedInv
  <2> QED BY <1>1, <2>1 DEF Crash!CreatedInv
<1> QED BY <1>3, <1>4, <1>5, <1>6

\* The client appends, and settles, messages of this scenario only.
LEMMA CrashClient ==
    ASSUME Crash!ScenarioAssumption, Crash!IInv, NEW m \in pending,
           Crash!Send(m) \/ Crash!Settle(m)
    PROVE  Crash!IInv'
<1> USE DEF Crash!IInv, Crash!TypeOK
<1>1. /\ running /\ m \in Crash!Messages /\ m \in {scenario} \X (0 .. Flood)
      /\ UNCHANGED <<pc, scenario, spec, total_parts, broker, partitions, disk,
                     running, target>>
      /\ pending' \subseteq pending
      /\ Crash!Specs' = Crash!Specs
      /\ cache' = cache \/ cache' = [cache EXCEPT ![target] = @ \cup {m}]
  BY DEF Crash!Send, Crash!Settle, Crash!scriptVars, Crash!brokerVars, Crash!floodVars,
         Crash!ScriptInv, Crash!Specs
<1>2. /\ pc \in {"kill", "start", "health", "join", "failed"}
      /\ pending \subseteq {scenario} \X (0 .. Flood)
  BY <1>1 DEF Crash!ScriptInv
<1>3. Crash!TypeOK'
  <2>1. cache[target] \cup {m} \subseteq Crash!Messages
    BY <1>1
  <2>2. cache' \in [Topics -> SUBSET Crash!Messages]
    BY <1>1, <2>1
  <2> QED BY <1>1, <2>2 DEF Crash!Messages
<1>4. Crash!ScriptInv' /\ Crash!CreatedInv'
  BY <1>1, <1>2 DEF Crash!ScriptInv, Crash!CreatedInv
<1>5. Crash!NoStrays'
  <2>1. \A t \in Topics : cache'[t] \subseteq cache[t] \cup {m}
    BY <1>1
  <2>2. ASSUME NEW i \in 1 .. Len(Crash!Specs), pc # "failed"
        PROVE  disk'[Crash!Specs[i].topic] \cup cache'[Crash!Specs[i].topic]
                  \subseteq {scenario} \X (0 .. Flood)
    <3>1. Crash!Specs[i].topic \in Topics
      BY SpecsFacts
    <3>2. disk[Crash!Specs[i].topic] \cup cache[Crash!Specs[i].topic]
             \subseteq {scenario} \X (0 .. Flood)
      BY <1>2, <2>2 DEF Crash!NoStrays
    <3> QED BY <1>1, <2>1, <3>1, <3>2
  <2> QED BY <1>1, <2>2 DEF Crash!NoStrays
<1> QED BY <1>3, <1>4, <1>5

LEMMA CrashNext ==
    ASSUME Crash!ScenarioAssumption
    PROVE  Crash!IInv /\ [Crash!Next]_(Crash!vars) => Crash!IInv'
<1> SUFFICES ASSUME Crash!IInv, [Crash!Next]_(Crash!vars) PROVE Crash!IInv'
  OBVIOUS
<1>1. CASE Crash!CreateTopic
  BY <1>1, CrashCreateTopic
<1>2. CASE Crash!Seed
  BY <1>2, CrashSeed
<1>3. CASE Crash!Kill
  BY <1>3, CrashKill
<1>4. CASE Crash!FlushDisk
  BY <1>4, CrashFlushDisk
<1>5. CASE \E m \in pending : Crash!Send(m) \/ Crash!Settle(m)
  BY <1>5, CrashClient
<1>6. CASE \/ Crash!Launch \/ Crash!Start \/ Crash!Healthy \/ Crash!Fail \/ Crash!Join
           \/ Crash!Recover \/ Crash!Exit
  BY <1>6, CrashCommand
<1>7. CASE UNCHANGED Crash!vars
  BY <1>7 DEF Crash!vars, Crash!scriptVars, Crash!brokerVars, Crash!floodVars, Crash!IInv,
              Crash!TypeOK, Crash!ScriptInv, Crash!CreatedInv, Crash!NoStrays,
              Crash!Specs, Crash!Messages
<1> QED BY <1>1, <1>2, <1>3, <1>4, <1>5, <1>6, <1>7
        DEF Crash!Next, Crash!Script, Crash!Client

\* Spec => []IInv for any scenarios: the background producer of a scenario runs
\* in it alone, and a topic created anew is empty until the seeding.
THEOREM CrashInvariance ==
    ASSUME Crash!ScenarioAssumption
    PROVE  Crash!Spec => []Crash!IInv
<1>1. Crash!Init => Crash!IInv
  BY CrashInit
<1>2. Crash!IInv /\ [Crash!Next]_(Crash!vars) => Crash!IInv'
  BY CrashNext
<1> QED BY <1>1, <1>2, PTL DEF Crash!Spec

\* NoStrays for any scenarios and any flood: the wait at the end of a scenario
\* keeps its background producer out of the topics of the next.
THEOREM StraysProved ==
    ASSUME Crash!ScenarioAssumption
    PROVE  Crash!Spec => []Crash!NoStrays
<1>1. Crash!IInv => Crash!NoStrays
  BY DEF Crash!IInv
<1> QED BY <1>1, CrashInvariance, PTL

\* What is on disk stays there while the background producer runs.
NothingTaken ==
    running => \A t \in Topics : disk[t] \subseteq disk'[t]

\* While the background producer of S5 runs, no step takes anything that is on
\* disk from a topic: not the kill of the broker, nor its recovery, nor the script, which
\* creates topics anew but waits for the producer first
\* (sim_crash_recovery.sh:153).
THEOREM NothingTakenProved ==
    ASSUME Crash!ScenarioAssumption
    PROVE  Crash!Spec => [][NothingTaken]_(Crash!vars)
<1> DEFINE Grows == \A t \in Topics : disk[t] \subseteq disk'[t]
<1>1. ASSUME Crash!IInv, running, Crash!Next PROVE Grows
  <2> USE DEF Crash!IInv, Crash!TypeOK
  <2>1. CASE Crash!CreateTopic
    BY <1>1, <2>1 DEF Crash!CreateTopic, Crash!ScriptInv
  <2>2. CASE Crash!Kill
    <3>1. \A t \in Topics : \E S : disk'[t] = disk[t] \cup S
      BY <2>2 DEF Crash!Kill
    <3> QED BY <3>1
  <2>3. CASE Crash!FlushDisk
    BY <2>3 DEF Crash!FlushDisk
  <2>4. CASE UNCHANGED disk
    BY <2>4
  <2>5. CASE Crash!Client \/ Crash!Recover
    BY <2>4, <2>5 DEF Crash!Client, Crash!Recover, Crash!Send, Crash!Settle, Crash!Exit,
                      Crash!brokerVars
  <2>6. CASE \/ Crash!Seed \/ Crash!Launch \/ Crash!Start \/ Crash!Healthy \/ Crash!Fail
             \/ Crash!Join
    BY <2>4, <2>6 DEF Crash!Seed, Crash!Launch, Crash!Start, Crash!Healthy, Crash!Fail,
                      Crash!Join, Crash!NextScenario, Crash!brokerVars
  <2> QED BY <1>1, <2>1, <2>2, <2>3, <2>5, <2>6 DEF Crash!Next, Crash!Script
<1>2. Crash!IInv /\ [Crash!Next]_(Crash!vars) => [NothingTaken]_(Crash!vars)
  BY <1>1 DEF NothingTaken
<1> QED BY <1>2, CrashInvariance, PTL DEF Crash!Spec

\* The instance sums as this module does.
LEMMA CrashSums ==
    ASSUME NEW f
    PROVE  /\ Crash!SumFunction(f) = SumFunction(f)
           /\ Crash!FoldFunction(+, 0, f) = SumFunction(f)
BY DEF Crash!SumFunction, Crash!SumFunctionOnSet, Crash!FoldFunction, Crash!FoldFunctionOnSet,
       Crash!MapThenFoldSet, SumFunction, SumFunctionOnSet, FoldFunctionOnSet, MapThenFoldSet

LEMMA TopicsFinite == Crash!ScenarioAssumption => IsFiniteSet(Topics)
BY DEF Crash!ScenarioAssumption, Crash!IsFiniteSet, IsFiniteSet

LEMMA SpecsSequence ==
    ASSUME Crash!ScenarioAssumption, NEW n \in 1 .. Len(Scenarios)
    PROVE  n \in DOMAIN Scenarios /\ DOMAIN Scenarios[n] = 1 .. Len(Scenarios[n])
<1> DEFINE R == [topic : Topics, parts : Nat \ {0}]
<1>1. Scenarios \in Seq(Seq(R))
  BY DEF Crash!ScenarioAssumption
<1> HIDE DEF R
<1> QED BY <1>1

\* What is printed counts the partitions of each topic that was created.
LEMMA TotalInit ==
    ASSUME Crash!ScenarioAssumption
    PROVE  Crash!Init => Crash!TotalInv
<1> SUFFICES ASSUME Crash!Init PROVE Crash!TotalInv
  OBVIOUS
<1>1. total_parts = 0 /\ pc = "create" /\ spec = 1 /\ scenario = 1 /\ partitions \in Leftovers
  BY DEF Crash!Init
<1>2. Crash!Earlier = {} /\ Crash!Counted = {}
  BY <1>1 DEF Crash!Earlier, Crash!Counted
<1>3. Crash!PartitionsOf(Crash!Counted) = [t \in Topics |-> 0]
  BY <1>2 DEF Crash!PartitionsOf
<1>4. SumFunction([t \in Topics |-> 0]) = 0
  BY SumOfZeros, TopicsFinite
<1> QED BY <1>1, <1>2, <1>3, <1>4, CrashSums DEF Crash!TotalInv

\* A topic that is created adds its partitions, and was not counted before.
LEMMA TotalCreate ==
    ASSUME Crash!ScenarioAssumption, Crash!CoverAssumption,
           Crash!IInv, Crash!TotalInv, Crash!CreateTopic
    PROVE  Crash!TotalInv'
<1> USE DEF Crash!IInv, Crash!TypeOK
<1> DEFINE s == Crash!Specs[spec]
           C == Crash!PartitionsOf(Crash!Counted)
<1>1. /\ s.topic \in Topics /\ s.parts \in Nat
      /\ Len(Crash!Specs) \in Nat /\ spec \in 1 .. Len(Crash!Specs)
  BY SpecsFacts
<1>2. /\ pc = "create" /\ total_parts' = total_parts + s.parts
      /\ partitions' = [partitions EXCEPT ![s.topic] = s.parts]
      /\ \/ spec < Len(Crash!Specs) /\ spec' = spec + 1 /\ pc' = "create"
         \/ spec = Len(Crash!Specs) /\ spec' = 1 /\ pc' = "seed"
      /\ Crash!Specs' = Crash!Specs /\ scenario' = scenario
  BY <1>1, SMTT(30) DEF Crash!CreateTopic, Crash!NextSpec, Crash!Specs
<1>3. s.topic \notin Crash!Counted
  <2>1. \A i \in 1 .. Len(Crash!Specs) : Crash!Specs[i].topic = s.topic => i = spec
    <3>1. DOMAIN Scenarios[scenario] = 1 .. Len(Scenarios[scenario]) /\ scenario \in DOMAIN Scenarios
      BY SpecsSequence
    <3> QED BY <1>1, <3>1 DEF Crash!CoverAssumption, Crash!Specs
  <2>2. \A i \in 1 .. spec - 1 : i \in 1 .. Len(Crash!Specs) /\ i # spec
    BY <1>1
  <2> HIDE DEF s
  <2> QED BY <1>2, <2>1, <2>2 DEF Crash!Counted
<1>4. Crash!Counted' = Crash!Counted \cup {s.topic}
  <2>1. Crash!Counted' = {Crash!Specs[i].topic : i \in 1 .. spec}
    <3>1. CASE pc' = "create"
      <4>1. spec' - 1 = spec
        BY <1>1, <1>2, <3>1
      <4> QED BY <1>2, <3>1, <4>1 DEF Crash!Counted
    <3>2. CASE pc' = "seed"
      BY <1>2, <3>2 DEF Crash!Counted
    <3> QED BY <1>2, <3>1, <3>2
  <2>2. Crash!Counted = {Crash!Specs[i].topic : i \in 1 .. spec - 1}
    BY <1>2 DEF Crash!Counted
  <2>3. 1 .. spec = (1 .. spec - 1) \cup {spec}
    BY <1>1
  <2> QED BY <2>1, <2>2, <2>3
<1>5. Raised(Topics, C, C', s.topic, s.parts)
  <2>1. /\ C \in [Topics -> Nat] /\ C' = [t \in Topics |-> C'[t]]
        /\ \A t \in Topics : /\ C[t] = IF t \in Crash!Counted THEN partitions[t] ELSE 0
                             /\ C'[t] = IF t \in Crash!Counted' THEN partitions'[t] ELSE 0
    BY DEF Crash!PartitionsOf
  <2>2. \A t \in Topics : partitions'[t] = IF t = s.topic THEN s.parts ELSE partitions[t]
    BY <1>1, <1>2
  <2> HIDE DEF C, s
  <2>3. C[s.topic] = 0 /\ C'[s.topic] = s.parts
    <3>1. C[s.topic] = 0
      BY <1>1, <1>3, <2>1
    <3>2. C'[s.topic] = partitions'[s.topic]
      BY <1>1, <1>4, <2>1
    <3>3. partitions'[s.topic] = s.parts
      BY <1>1, <2>2
    <3> QED BY <3>1, <3>2, <3>3
  <2>4. ASSUME NEW t \in Topics, t # s.topic PROVE C'[t] = C[t]
    <3>1. t \in Crash!Counted' <=> t \in Crash!Counted
      BY <1>4, <2>4
    <3> QED BY <2>1, <2>2, <2>4, <3>1
  <2>5. C' \in [Topics -> Nat]
    <3>1. ASSUME NEW t \in Topics PROVE C'[t] \in Nat
      BY <1>1, <2>1, <2>3, <2>4
    <3> QED BY <2>1, <3>1
  <2>6. ASSUME NEW t \in Topics
        PROVE  C'[t] = IF t = s.topic THEN C[t] + s.parts ELSE C[t]
    <3>1. CASE t = s.topic
      <4>1. 0 + s.parts = s.parts
        BY <1>1
      <4>2. C'[t] = s.parts /\ C[t] = 0
        BY <2>3, <3>1
      <4> QED BY <3>1, <4>1, <4>2
    <3>2. CASE t # s.topic
      BY <2>4, <3>2
    <3> QED BY <3>1, <3>2
  <2> QED BY <1>1, <2>1, <2>5, <2>6 DEF Raised
<1>6. SumFunction(C') = SumFunction(C) + s.parts
  <2> HIDE DEF C, s
  <2> QED BY <1>5, TopicsFinite, SumIncrease
<1>7. total_parts' = SumFunction(C')
  BY <1>2, <1>6, CrashSums DEF Crash!TotalInv
<1>8. Crash!Earlier' = Crash!Earlier /\ Crash!Listed(scenario)' = Crash!Listed(scenario)
  BY <1>2 DEF Crash!Earlier, Crash!Listed
<1>9. \E l \in Leftovers : \A t \in Topics \ Crash!Created' : partitions'[t] = l[t]
  <2>1. PICK l \in Leftovers : \A t \in Topics \ Crash!Created : partitions[t] = l[t]
    BY DEF Crash!TotalInv
  <2>2. Crash!Created' = Crash!Created \cup {s.topic}
    BY <1>4, <1>8 DEF Crash!Created
  <2>3. \A t \in Topics : t # s.topic => partitions'[t] = partitions[t]
    BY <1>2
  <2>4. ASSUME NEW t \in Topics \ Crash!Created' PROVE partitions'[t] = l[t]
    <3>1. t \in Topics \ Crash!Created /\ t # s.topic
      BY <2>2, <2>4
    <3> QED BY <2>1, <2>3, <3>1
  <2> QED BY <2>4
<1> QED BY <1>7, <1>8, <1>9, CrashSums DEF Crash!TotalInv

\* The next scenario lists the topics of this one, and has created none yet.
LEMMA TotalJoin ==
    ASSUME Crash!ScenarioAssumption, Crash!CoverAssumption,
           Crash!IInv, Crash!TotalInv, Crash!Join
    PROVE  Crash!TotalInv'
<1> USE DEF Crash!IInv, Crash!TypeOK
<1>1. /\ pc = "join" /\ spec = 1 /\ spec' = 1 /\ partitions' = partitions
      /\ \/ /\ scenario < Len(Scenarios) /\ pc' = "create"
            /\ scenario' = scenario + 1 /\ total_parts' = 0
         \/ pc' = "ended" /\ scenario' = scenario
  BY DEF Crash!Join, Crash!NextScenario, Crash!brokerVars, Crash!ScriptInv
<1>2. CASE pc' = "ended"
  <2>1. /\ Crash!Earlier' = Crash!Earlier /\ Crash!Counted' = Crash!Counted
        /\ Crash!Listed(scenario)' = Crash!Listed(scenario)
    <3>0. scenario' = scenario
      BY <1>1, <1>2
    <3>1. Crash!Earlier' = Crash!Earlier /\ Crash!Listed(scenario)' = Crash!Listed(scenario)
      <4>1. Crash!Earlier' = Crash!Earlier
        BY <3>0 DEF Crash!Earlier, Crash!Listed
      <4>2. Crash!Listed(scenario)' = Crash!Listed(scenario)
        BY <3>0 DEF Crash!Listed
      <4> QED BY <4>1, <4>2
    <3>2. Crash!Specs' = Crash!Specs /\ pc # "create" /\ pc' # "create"
      BY <1>1, <1>2 DEF Crash!Specs
    <3>3. Crash!Counted' = Crash!Counted
      BY <3>2 DEF Crash!Counted
    <3> QED BY <3>1, <3>3
  <2> QED BY <1>1, <1>2, <2>1 DEF Crash!TotalInv, Crash!Created
<1>3. CASE pc' = "create"
  <2>1. scenario \in 1 .. Len(Scenarios) - 1 /\ scenario' = scenario + 1 /\ total_parts' = 0
    BY <1>1, <1>3
  <2>2. Crash!Counted = Crash!Listed(scenario)
    BY <1>1, SpecsSequence DEF Crash!Counted, Crash!Listed, Crash!Specs
  <2>3. Crash!Earlier' = Crash!Earlier \cup Crash!Listed(scenario)
    <3>1. 1 .. scenario' - 1 = (1 .. scenario - 1) \cup {scenario}
      BY <2>1
    <3>2. /\ Crash!Earlier = UNION {Crash!Listed(n) : n \in 1 .. scenario - 1}
          /\ Crash!Earlier' = UNION {Crash!Listed(n) : n \in 1 .. scenario' - 1}
      BY DEF Crash!Earlier, Crash!Listed
    <3> QED BY <3>1, <3>2
  <2>4. Crash!Listed(scenario) \subseteq Crash!Listed(scenario + 1)
    <3>1. \A i \in DOMAIN Scenarios[scenario] : \E j \in DOMAIN Scenarios[scenario + 1] :
             Scenarios[scenario + 1][j].topic = Scenarios[scenario][i].topic
      BY <2>1 DEF Crash!CoverAssumption
    <3>2. /\ \A t \in Crash!Listed(scenario) : \E i \in DOMAIN Scenarios[scenario] :
                Scenarios[scenario][i].topic = t
          /\ \A j \in DOMAIN Scenarios[scenario + 1] :
                Scenarios[scenario + 1][j].topic \in Crash!Listed(scenario + 1)
      BY DEF Crash!Listed
    <3>3. ASSUME NEW t \in Crash!Listed(scenario) PROVE t \in Crash!Listed(scenario + 1)
      <4>1. PICK i \in DOMAIN Scenarios[scenario] : Scenarios[scenario][i].topic = t
        BY <3>2
      <4>2. PICK j \in DOMAIN Scenarios[scenario + 1] :
               Scenarios[scenario + 1][j].topic = Scenarios[scenario][i].topic
        BY <3>1
      <4>3. Scenarios[scenario + 1][j].topic = t
        BY <4>1, <4>2
      <4>4. Scenarios[scenario + 1][j].topic \in Crash!Listed(scenario + 1)
        BY <3>2, <4>2
      <4> QED BY <4>3, <4>4
    <3> QED BY <3>3
  <2>5. Crash!Counted' = {}
    BY <1>1, <1>3 DEF Crash!Counted
  <2>6. SumFunction(Crash!PartitionsOf(Crash!Counted)') = 0
    <3>1. Crash!PartitionsOf(Crash!Counted)' = [t \in Topics |-> 0]
      BY <2>5 DEF Crash!PartitionsOf
    <3> QED BY <3>1, SumOfZeros, TopicsFinite
  <2>7. Crash!Created' = Crash!Created
    BY <2>2, <2>3, <2>5 DEF Crash!Created
  <2>8. Crash!Earlier' \subseteq Crash!Listed(scenario)'
    <3>1. Crash!Listed(scenario)' = Crash!Listed(scenario + 1)
      BY <2>1 DEF Crash!Listed
    <3> QED BY <2>3, <2>4, <3>1 DEF Crash!TotalInv
  <2>9. \E l \in Leftovers : \A t \in Topics \ Crash!Created' : partitions'[t] = l[t]
    BY <1>1, <2>7 DEF Crash!TotalInv
  <2>10. total_parts' = Crash!SumFunction(Crash!PartitionsOf(Crash!Counted)')
    BY <2>1, <2>6, CrashSums
  <2> QED BY <2>8, <2>9, <2>10 DEF Crash!TotalInv
<1> QED BY <1>1, <1>2, <1>3

\* Nothing else creates a topic or counts one.
LEMMA TotalKept ==
    ASSUME Crash!ScenarioAssumption, Crash!IInv, Crash!TotalInv,
           UNCHANGED <<partitions, total_parts, scenario>>,
           \/ UNCHANGED <<pc, spec>>
           \/ pc # "create" /\ pc' # "create"
              /\ (pc' \in {"seed", "launch", "kill", "start"} =>
                     pc \in {"seed", "launch", "kill", "start"})
           \/ pc' = "failed"
    PROVE  Crash!TotalInv'
<1>1. /\ Crash!Specs' = Crash!Specs /\ Crash!Earlier' = Crash!Earlier
      /\ Crash!Listed(scenario)' = Crash!Listed(scenario)
  BY DEF Crash!Specs, Crash!Earlier, Crash!Listed
<1>2. CASE pc' = "failed"
  <2>1. Crash!Counted \subseteq Crash!Counted'
    <3>1. 1 .. spec - 1 \subseteq 1 .. Len(Crash!Specs)
      BY SpecsFacts DEF Crash!IInv, Crash!TypeOK
    <3> QED BY <1>1, <1>2, <3>1 DEF Crash!Counted
  <2>2. Crash!Created \subseteq Crash!Created'
    BY <1>1, <2>1 DEF Crash!Created
  <2> QED BY <1>1, <1>2, <2>2 DEF Crash!TotalInv
<1>3. CASE pc' # "failed"
  <2>1. Crash!Counted' = Crash!Counted
    BY <1>1, <1>3 DEF Crash!Counted
  <2>2. Crash!PartitionsOf(Crash!Counted)' = Crash!PartitionsOf(Crash!Counted)
    BY <2>1 DEF Crash!PartitionsOf
  <2>3. Crash!Created' = Crash!Created
    BY <1>1, <2>1 DEF Crash!Created
  <2> QED BY <1>1, <1>3, <2>2, <2>3, CrashSums DEF Crash!TotalInv
<1> QED BY <1>2, <1>3

LEMMA TotalNext ==
    ASSUME Crash!ScenarioAssumption, Crash!CoverAssumption
    PROVE  Crash!IInv /\ Crash!TotalInv /\ [Crash!Next]_(Crash!vars) => Crash!TotalInv'
<1> SUFFICES ASSUME Crash!IInv, Crash!TotalInv, [Crash!Next]_(Crash!vars)
             PROVE  Crash!TotalInv'
  OBVIOUS
<1> USE DEF Crash!scriptVars, Crash!brokerVars, Crash!floodVars
<1>1. CASE Crash!Seed
  BY <1>1, TotalKept DEF Crash!Seed, Crash!NextSpec
<1>2. CASE Crash!Launch \/ Crash!Kill \/ Crash!Start \/ Crash!Healthy \/ Crash!Fail
  BY <1>2, TotalKept DEF Crash!Launch, Crash!Kill, Crash!Start, Crash!Healthy, Crash!Fail
<1>3. CASE Crash!Client \/ Crash!Recover \/ Crash!FlushDisk \/ UNCHANGED Crash!vars
  BY <1>3, TotalKept DEF Crash!Client, Crash!Recover, Crash!FlushDisk, Crash!vars, Crash!Exit,
                         Crash!Send, Crash!Settle
<1> QED BY <1>1, <1>2, <1>3, TotalCreate, TotalJoin DEF Crash!Next, Crash!Script

\* CreatedAreCounted for any scenarios of which each lists its topics once and
\* those of the one before (as sim_crash_recovery.sh:174-197 does), and whatever
\* an earlier run left: the number printed is that of the partitions of all
\* topics this run has created, although the count starts anew with every
\* scenario; and no step creates or deletes a topic before its turn.
THEOREM TotalProved ==
    ASSUME Crash!ScenarioAssumption, Crash!CoverAssumption
    PROVE  Crash!Spec => []Crash!CreatedAreCounted
<1>1. Crash!Init => Crash!TotalInv
  BY TotalInit
<1>2. Crash!IInv /\ Crash!TotalInv /\ [Crash!Next]_(Crash!vars) => Crash!TotalInv'
  BY TotalNext
<1>3. Crash!IInv /\ Crash!TotalInv => Crash!CreatedAreCounted
  <2> SUFFICES ASSUME Crash!IInv, Crash!TotalInv, pc = "start"
               PROVE  Crash!CreatedAreCounted
    BY DEF Crash!CreatedAreCounted
  <2>1. Crash!Counted = Crash!Listed(scenario)
    BY SpecsSequence DEF Crash!Counted, Crash!Listed, Crash!Specs, Crash!IInv, Crash!TypeOK
  <2>2. Crash!Created = Crash!Counted
    BY <2>1 DEF Crash!Created, Crash!TotalInv
  <2> QED BY <2>2, CrashSums DEF Crash!TotalInv, Crash!CreatedAreCounted
<1> QED BY <1>1, <1>2, <1>3, CrashInvariance, PTL DEF Crash!Spec
=============================================================================
