-------------------------- MODULE SimulationProofs --------------------------
(***************************************************************************)
(* Proofs about the simulations in which one program uses a topic:         *)
(* BackwardCompat (S1), which this module extends, and AutoCreate (S2) as  *)
(* an instance.  They have nothing to do with each other.                  *)
(***************************************************************************)
EXTENDS BackwardCompat, FiniteSetTheorems, TLAPS

CONSTANT Count

VARIABLES autoCreate, exists, stored, pc, round, unsent, queued, delivered,
          errors, existed

Create == INSTANCE AutoCreate

-----------------------------------------------------------------------------
(* BackwardCompat.                                                          *)

LEMMA CompatInit == Init => IInv
<1> SUFFICES ASSUME Init PROVE IInv
  OBVIOUS
<1>1. \A f \in Offsets : f \in [Partitions -> Nat]
  BY TopicAssumption DEF Offsets
<1>2. /\ turn \in {"v1", "ten"} /\ logEnd \in [Partitions -> Nat]
      /\ committed \in [Consumers -> [Partitions -> Nat]]
      /\ member = FALSE /\ left = FALSE /\ assigned = {} /\ eof_partitions = {} /\ drained = {}
      /\ from = committed /\ goal = [c \in Consumers |-> logEnd]
      /\ results = [c \in Consumers |-> {}]
  BY <1>1 DEF Init
<1>3. TypeOK
  <2>1. /\ pos \in [Partitions -> Nat] /\ fetched \in [Partitions -> Nat]
        /\ mark \in [Partitions -> {"none", "queued", "said"}]
    BY DEF Init
  <2>2. turn \in Consumers
    BY <1>2 DEF Consumers, Drainers
  <2>3. taken \in [Consumers -> Nat] /\ expiries \in Nat
    BY DEF Init
  <2>4. /\ from \in [Consumers -> [Partitions -> Nat]]
        /\ goal \in [Consumers -> [Partitions -> Nat]]
        /\ results \in [Consumers -> SUBSET (Partitions \X Nat)]
    BY <1>2
  <2>5. member \in BOOLEAN /\ left \in BOOLEAN
    BY <1>2
  <2> QED BY <1>2, <2>1, <2>2, <2>3, <2>4, <2>5 DEF TypeOK
<1>4. \A c \in Consumers : Missing(c, committed[c]) = {}
  <2> SUFFICES ASSUME NEW c \in Consumers, NEW p \in Partitions
               PROVE  from[c][p] .. committed[c][p] - 1 = {}
    BY DEF Missing
  <2> QED BY <1>2
<1>5. SkipInv
  BY <1>2, <1>4 DEF SkipInv, AtMostOne
<1>6. GoalInv
  BY <1>2 DEF GoalInv
<1>7. EofInv /\ DrainComplete
  BY <1>2 DEF EofInv, DrainComplete
<1> QED BY <1>3, <1>5, <1>6, <1>7 DEF IInv

\* What is missing depends on the group's start and the consumer's results only.
LEMMA MissingSame ==
    ASSUME UNCHANGED <<from, results>>, NEW c, NEW f
    PROVE  Missing(c, f)' = Missing(c, f')
BY DEF Missing

LEMMA NothingMissing ==
    ASSUME NEW c \in Consumers, NEW f, Missing(c, f) = {},
           NEW p \in Partitions, NEW o \in from[c][p] .. f[p] - 1
    PROVE  <<p, o>> \in results[c]
<1>1. <<p, o>> \in {p} \X (from[c][p] .. f[p] - 1)
  OBVIOUS
<1>2. <<p, o>> \in UNION {{q} \X (from[c][q] .. f[q] - 1) : q \in Partitions}
  BY <1>1
<1>3. (UNION {{q} \X (from[c][q] .. f[q] - 1) : q \in Partitions}) \ results[c] = {}
  BY DEF Missing
<1> QED BY <1>2, <1>3

\* The converse, for any start g, end f and results R.
LEMMA AllRead ==
    ASSUME NEW f, NEW g, NEW R,
           \A p \in Partitions : \A o \in g[p] .. f[p] - 1 : <<p, o>> \in R
    PROVE  (UNION {{p} \X (g[p] .. f[p] - 1) : p \in Partitions}) \ R = {}
<1> SUFFICES ASSUME NEW x, x \in UNION {{p} \X (g[p] .. f[p] - 1) : p \in Partitions}
             PROVE  x \in R
  OBVIOUS
<1>1. PICK p \in Partitions : x \in {p} \X (g[p] .. f[p] - 1)
  OBVIOUS
<1>2. x[2] \in g[p] .. f[p] - 1 /\ x = <<p, x[2]>>
  BY <1>1
<1>3. <<p, x[2]>> \in R
  BY <1>2
<1> QED BY <1>2, <1>3

\* A commit brings the group's offset to the positions given, or leaves it.
LEMMA CompatCommit ==
    ASSUME TypeOK, turn \in Consumers, NEW f \in [Partitions -> Nat], Commit(f)
    PROVE  /\ committed' \in [Consumers -> [Partitions -> Nat]]
           /\ \A c \in Consumers : \/ committed'[c] = committed[c]
                                   \/ c = turn /\ member /\ committed'[c] = f
BY DEF TypeOK, Commit

\* The library and the order producer.
LEMMA CompatBackground ==
    ASSUME IInv, \/ AutoCommit \/ Expire
                 \/ \E p \in Partitions : Fetch(p) \/ Publish(p)
    PROVE  IInv'
<1> USE DEF IInv
<1>1. /\ UNCHANGED <<turn, left, from, goal, results, drained, eof_partitions, assigned, pos, taken>>
  BY DEF AutoCommit, Expire, Fetch, Publish, libraryVars, loopVars, historyVars
<1>2. /\ committed' \in [Consumers -> [Partitions -> Nat]]
      /\ \A c \in Consumers : \/ committed'[c] = committed[c]
                              \/ c = turn /\ assigned # {} /\ committed'[c] = pos
  <2>1. CASE AutoCommit
    BY <2>1, CompatCommit DEF AutoCommit, TypeOK
  <2>2. CASE UNCHANGED committed
    BY <2>2 DEF TypeOK
  <2> QED BY <2>1, <2>2 DEF Expire, Fetch, Publish
<1>3. SkipInv'
  <2>1. \A c \in Consumers : Missing(c, committed[c])' = Missing(c, committed'[c])
    BY <1>1, MissingSame
  <2>2. Missing(turn, pos)' = Missing(turn, pos)
    BY <1>1, MissingSame
  <2>3. ASSUME NEW c \in Consumers
        PROVE  /\ AtMostOne(Missing(c, committed'[c]))
               /\ Missing(c, committed'[c]) # {} => turn \in Final \/ (turn = "ten" /\ left)
    BY <1>2 DEF SkipInv
  <2> QED BY <1>1, <2>1, <2>2, <2>3 DEF SkipInv, AtMostOne
<1>4. GoalInv' /\ TypeOK'
  <2>1. CASE AutoCommit
    <3>1. UNCHANGED <<logEnd, member, fetched, mark, expiries>>
      BY <2>1 DEF AutoCommit, libraryVars, historyVars
    <3>2. TypeOK'
      BY <1>1, <1>2, <3>1 DEF TypeOK
    <3>3. GoalInv'
      BY <1>1, <3>1 DEF GoalInv
    <3> QED BY <3>2, <3>3
  <2>2. CASE Expire
    <3>1. member' = FALSE /\ expiries' = expiries + 1 /\ UNCHANGED <<logEnd, fetched, mark>>
      BY <2>2 DEF Expire
    <3>2. member' \in BOOLEAN
      BY <3>1, Zenon
    <3>3. TypeOK'
      BY <1>1, <1>2, <3>1, <3>2 DEF TypeOK
    <3>4. GoalInv'
      BY <1>1, <3>1 DEF GoalInv
    <3> QED BY <3>3, <3>4
  <2>3. ASSUME NEW p \in Partitions, Fetch(p) PROVE GoalInv' /\ TypeOK'
    <3>1. /\ turn \in Consumers
          /\ fetched' = [fetched EXCEPT ![p] = logEnd[p]]
          /\ UNCHANGED <<logEnd, member, expiries>>
          /\ \A q \in Partitions \ {p} : mark'[q] = mark[q]
          /\ mark' \in [Partitions -> {"none", "queued", "said"}]
      BY <2>3 DEF Fetch, historyVars, TypeOK
    <3>2. TypeOK'
      BY <1>1, <1>2, <3>1 DEF TypeOK
    <3>3. \A q \in Partitions : fetched'[q] = IF q = p THEN logEnd[q] ELSE fetched[q]
      BY <3>1 DEF TypeOK
    <3>4. \A q \in assigned : q \in Partitions
      BY DEF TypeOK
    <3>5. GoalInv'
      BY <1>1, <3>1, <3>3, <3>4 DEF GoalInv
    <3> QED BY <3>2, <3>5
  <2>4. ASSUME NEW p \in Partitions, Publish(p) PROVE GoalInv' /\ TypeOK'
    BY <1>1, <1>2, <2>4 DEF Publish, libraryVars, historyVars, GoalInv, TypeOK
  <2> QED BY <2>1, <2>2, <2>3, <2>4
<1>5. EofInv' /\ DrainComplete'
  BY <1>1 DEF EofInv, ToGoal, DrainComplete
<1> QED BY <1>3, <1>4, <1>5

LEMMA CompatAssign == ASSUME IInv, Assign PROVE IInv'
<1> USE DEF IInv
<1>1. /\ turn \in Consumers /\ ~left
      /\ member' = TRUE /\ assigned' = Partitions
      /\ pos' = committed[turn] /\ fetched' = committed[turn]
      /\ mark' = [p \in Partitions |-> "none"]
      /\ UNCHANGED <<turn, logEnd, committed, left, eof_partitions, results, taken, drained,
                     from, goal, expiries>>
  BY DEF Assign, loopVars, historyVars
<1>2. TypeOK'
  BY <1>1 DEF TypeOK
<1>3. SkipInv'
  <2>1. \A c \in Consumers : Missing(c, committed[c])' = Missing(c, committed[c])
    BY <1>1, MissingSame
  <2>2. Missing(turn, pos)' = Missing(turn, committed[turn])
    BY <1>1, MissingSame
  <2>3. Missing(turn, committed[turn]) = {}
    BY <1>1 DEF SkipInv, Consumers, Drainers, Final
  <2> QED BY <1>1, <2>1, <2>2, <2>3 DEF SkipInv, AtMostOne
<1>4. GoalInv'
  <2>1. Partitions # {}
    BY TopicAssumption
  <2> QED BY <1>1, <2>1 DEF GoalInv
<1>5. EofInv' /\ DrainComplete'
  BY <1>1 DEF EofInv, ToGoal, DrainComplete
<1> QED BY <1>2, <1>3, <1>4, <1>5

\* The message handed out goes to the results.
LEMMA CompatMessage ==
    ASSUME IInv, NEW p \in Partitions, PollMessage(p) PROVE IInv'
<1> USE DEF IInv
<1> DEFINE m == <<p, pos[p]>>
<1>1. /\ turn \in Consumers /\ ~left /\ p \in assigned
      /\ pos' = [pos EXCEPT ![p] = @ + 1]
      /\ results' = [results EXCEPT ![turn] = @ \cup {m}]
      /\ taken' = [taken EXCEPT ![turn] = @ + 1]
      /\ left' \in BOOLEAN
      /\ left' => turn = "ten"
      /\ UNCHANGED <<turn, logEnd, committed, member, assigned, fetched, mark,
                     eof_partitions, drained, from, goal, expiries>>
  <2>1. left' \in BOOLEAN
    BY Zenon DEF PollMessage
  <2> QED BY <2>1 DEF PollMessage, Looping, historyVars
<1>2. m \in Partitions \X Nat
  BY DEF TypeOK
<1>3. \A c \in Consumers : /\ results[c] \subseteq results'[c]
                           /\ c = turn => results'[c] = results[c] \cup {m}
                           /\ c # turn => results'[c] = results[c]
  BY <1>1 DEF TypeOK
<1>9. \A q \in Partitions : pos'[q] = IF q = p THEN pos[p] + 1 ELSE pos[q]
  BY <1>1 DEF TypeOK
<1>4. TypeOK'
  <2>1. results' \in [Consumers -> SUBSET (Partitions \X Nat)]
    BY <1>1, <1>2 DEF TypeOK
  <2>2. pos' \in [Partitions -> Nat] /\ taken' \in [Consumers -> Nat]
    BY <1>1 DEF TypeOK
  <2> QED BY <1>1, <2>1, <2>2 DEF TypeOK
<1>6. SkipInv'
  <2>1. \A c \in Consumers : Missing(c, committed[c])' \subseteq Missing(c, committed[c])
    BY <1>1, <1>3 DEF Missing
  <2>2. Missing(turn, pos) = {} /\ \A c \in Consumers : Missing(c, committed[c]) = {}
    BY <1>1 DEF SkipInv, Final, Consumers, Drainers
  <2>3. Missing(turn, pos)' = {}
    <3>0. Missing(turn, pos)' =
            (UNION {{q} \X (from[turn][q] .. pos'[q] - 1) : q \in Partitions}) \ results'[turn]
      BY <1>1 DEF Missing
    <3> SUFFICES ASSUME NEW q \in Partitions, NEW o \in from[turn][q] .. pos'[q] - 1
                 PROVE  <<q, o>> \in results'[turn]
      BY <3>0, AllRead
    <3>1. CASE q = p /\ o = pos[p]
      BY <1>1, <1>3, <3>1
    <3>2. CASE ~(q = p /\ o = pos[p])
      <4>0. from[turn][q] \in Nat /\ pos[q] \in Nat
        BY <1>1 DEF TypeOK
      <4>1. o \in from[turn][q] .. pos[q] - 1
        BY <1>9, <3>2, <4>0
      <4>2. <<q, o>> \in results[turn]
        BY <1>1, <2>2, <4>1, NothingMissing
      <4> QED BY <1>1, <1>3, <4>2
    <3> QED BY <3>1, <3>2
  <2> QED BY <1>1, <2>1, <2>2, <2>3 DEF SkipInv, AtMostOne
<1>7. GoalInv'
  BY <1>1 DEF GoalInv
<1>8. EofInv' /\ DrainComplete'
  BY <1>1, <1>3 DEF EofInv, ToGoal, DrainComplete, TypeOK
<1> QED BY <1>4, <1>6, <1>7, <1>8

\* The end of a partition is noted when everything before it is in the results;
\* with the last one the drain is complete.
LEMMA CompatEof ==
    ASSUME IInv, NEW p \in Partitions, PollEof(p) PROVE IInv'
<1> USE DEF IInv
<1>1. /\ turn \in Consumers /\ ~left /\ p \in assigned
      /\ pos[p] = fetched[p] /\ mark[p] = "queued"
      /\ mark' = [mark EXCEPT ![p] = "said"]
      /\ eof_partitions' = eof_partitions \cup {p}
      /\ left' = (assigned # {} /\ assigned \subseteq eof_partitions')
      /\ drained' = IF left' THEN drained \cup {turn} ELSE drained
      /\ UNCHANGED <<turn, logEnd, committed, member, assigned, pos, fetched,
                     results, taken, from, goal, expiries>>
  BY DEF PollEof, Looping, AllEnded, historyVars
<1>2. assigned = Partitions /\ left' \in BOOLEAN
  BY <1>1 DEF TypeOK
<1>3. Missing(turn, pos) = {} /\ \A c \in Consumers : Missing(c, committed[c]) = {}
  BY <1>1 DEF SkipInv, Final, Consumers, Drainers
<1>4. ToGoal(turn, p)
  <2>1. goal[turn][p] <= pos[p]
    BY <1>1 DEF GoalInv
  <2> SUFFICES ASSUME NEW o \in from[turn][p] .. goal[turn][p] - 1
               PROVE  <<p, o>> \in results[turn]
    BY DEF ToGoal
  <2>2. o \in from[turn][p] .. pos[p] - 1
    BY <1>1, <2>1 DEF TypeOK
  <2> QED BY <1>1, <1>3, <2>2, NothingMissing
<1>5. TypeOK'
  BY <1>1, <1>2 DEF TypeOK
<1>6. SkipInv'
  <2>1. \A c \in Consumers : Missing(c, committed[c])' = Missing(c, committed[c])
    BY <1>1, MissingSame
  <2>2. Missing(turn, pos)' = Missing(turn, pos)
    BY <1>1, MissingSame
  <2> QED BY <1>1, <1>3, <2>1, <2>2 DEF SkipInv, AtMostOne
<1>7. GoalInv'
  BY <1>1 DEF GoalInv, TypeOK
<1>8. \A q \in eof_partitions' : ToGoal(turn, q)
  BY <1>1, <1>4 DEF EofInv
<1>9. EofInv'
  BY <1>1, <1>8 DEF EofInv, ToGoal
<1>10. DrainComplete'
  <2>1. left' => \A q \in Partitions : ToGoal(turn, q)
    BY <1>1, <1>2, <1>8
  <2> QED BY <1>1, <2>1 DEF DrainComplete, ToGoal
<1> QED BY <1>5, <1>6, <1>7, <1>9, <1>10

\* An exception or Ctrl+C: all that can be missing is the message in hand.
LEMMA CompatStop ==
    ASSUME IInv, NEW p \in Partitions, Stop(p) PROVE IInv'
<1> USE DEF IInv
<1> DEFINE m == <<p, pos[p]>>
<1>1. /\ turn \in Consumers /\ ~left
      /\ UNCHANGED <<logEnd, member, assigned, fetched, mark, eof_partitions,
                     results, taken, drained, from, goal, expiries>>
      /\ \/ p \in assigned /\ pos' = [pos EXCEPT ![p] = @ + 1]
         \/ pos' = pos
      /\ \/ turn = "ten" /\ left' = TRUE /\ turn' = turn /\ committed' = committed
         \/ turn' = "died" /\ left' = left /\ (Commit(pos') \/ committed' = committed)
  BY DEF Stop, Looping, historyVars
<1>2. pos' \in [Partitions -> Nat] /\ left' \in BOOLEAN /\ turn' \in {turn, "died"}
  <2>1. pos' \in [Partitions -> Nat]
    BY <1>1 DEF TypeOK
  <2>2. left' \in BOOLEAN
    BY <1>1, Zenon DEF TypeOK
  <2> QED BY <1>1, <2>1, <2>2
<1>3. /\ committed' \in [Consumers -> [Partitions -> Nat]]
      /\ \A c \in Consumers : \/ committed'[c] = committed[c]
                              \/ c = turn /\ member /\ committed'[c] = pos'
  BY <1>1, <1>2, CompatCommit DEF TypeOK
<1>4. TypeOK'
  <2>1. turn' \in Consumers \cup Final
    BY <1>1 DEF Final
  <2> QED BY <1>1, <1>2, <1>3, <2>1 DEF TypeOK
<1>5. \A c \in Consumers : Missing(c, committed[c]) = {}
  BY <1>1 DEF SkipInv, Final, Consumers, Drainers
<1>6. ASSUME assigned # {} PROVE Missing(turn, pos') \subseteq {m}
  <2>1. Missing(turn, pos) = {}
    BY <1>1, <1>6 DEF SkipInv
  <2>2. ASSUME NEW q \in Partitions, NEW o \in from[turn][q] .. pos'[q] - 1
        PROVE  <<q, o>> \in results[turn] \cup {m}
    <3>1. CASE q = p /\ o = pos[p]
      BY <3>1
    <3>2. CASE ~(q = p /\ o = pos[p])
      <4>1. /\ from[turn][q] \in Nat /\ pos[q] \in Nat
            /\ pos'[q] = pos[q] \/ (q = p /\ pos'[q] = pos[q] + 1)
        BY <1>1 DEF TypeOK
      <4>2. o \in from[turn][q] .. pos[q] - 1
        BY <3>2, <4>1
      <4> QED BY <1>1, <2>1, <4>2, NothingMissing
    <3> QED BY <3>1, <3>2
  <2>3. (UNION {{q} \X (from[turn][q] .. pos'[q] - 1) : q \in Partitions})
             \ (results[turn] \cup {m}) = {}
    BY <2>2, AllRead
  <2> QED BY <2>3 DEF Missing
<1> HIDE DEF m
<1>7. SkipInv'
  <2>1. \A c \in Consumers : Missing(c, committed[c])' = Missing(c, committed'[c])
    BY <1>1, MissingSame
  <2>2. turn' = turn => Missing(turn, pos)' = Missing(turn, pos')
    BY <1>1 DEF Missing
  <2>3. \A c \in Consumers : Missing(c, committed'[c]) \subseteq {m}
    BY <1>3, <1>5, <1>6 DEF GoalInv
  <2>4. turn' \in Final \/ (turn' = "ten" /\ left')
    BY <1>1 DEF Final
  <2>5. turn' \in Consumers => turn' = turn /\ turn' = "ten" /\ left'
    BY <1>1 DEF Consumers, Drainers
  <2>6. ASSUME turn' \in Consumers, assigned' # {}
        PROVE  /\ AtMostOne(Missing(turn, pos)')
               /\ turn' = "ten" /\ left'
    BY <1>1, <1>6, <2>2, <2>5, <2>6 DEF AtMostOne
  <2> QED BY <2>1, <2>3, <2>4, <2>6 DEF SkipInv, AtMostOne
<1>8. GoalInv'
  BY <1>1 DEF GoalInv, Consumers, Drainers
<1>9. EofInv' /\ DrainComplete'
  BY <1>1 DEF EofInv, ToGoal, DrainComplete, Consumers, Drainers
<1> QED BY <1>4, <1>7, <1>8, <1>9

\* close() ends one consumer's use of the group, and the next drain begins.
LEMMA CompatClose == ASSUME IInv, Close PROVE IInv'
<1> USE DEF IInv
<1>1. /\ turn \in Consumers /\ left
      /\ Commit(pos)
      /\ turn' = IF turn = "v1" THEN "v2" ELSE "ended"
      /\ member' = FALSE /\ assigned' = {} /\ left' = FALSE /\ eof_partitions' = {}
      /\ goal' = IF turn = "v1" THEN [goal EXCEPT !["v2"] = logEnd] ELSE goal
      /\ UNCHANGED <<logEnd, pos, fetched, mark, results, taken, drained, from, expiries>>
  BY DEF Close
<1>2. /\ committed' \in [Consumers -> [Partitions -> Nat]]
      /\ \A c \in Consumers : \/ committed'[c] = committed[c]
                              \/ c = turn /\ member /\ committed'[c] = pos
  BY <1>1, CompatCommit DEF TypeOK
<1>3. \A c \in Consumers : goal'[c] = goal[c] \/ (turn = "v1" /\ c = "v2" /\ goal'[c] = logEnd)
  BY <1>1 DEF TypeOK
<1>4. TypeOK'
  <2>1. turn' \in Consumers \cup Final
    BY <1>1 DEF Final, Consumers, Drainers
  <2>2. goal' \in [Consumers -> [Partitions -> Nat]]
    BY <1>1 DEF TypeOK
  <2>3. member' \in BOOLEAN /\ left' \in BOOLEAN
    BY <1>1, Zenon
  <2> QED BY <1>1, <1>2, <2>1, <2>2, <2>3 DEF TypeOK
<1>5. SkipInv'
  <2>1. \A c \in Consumers : Missing(c, committed[c])' = Missing(c, committed'[c])
    BY <1>1, MissingSame
  <2>2. ASSUME NEW c \in Consumers
        PROVE  /\ AtMostOne(Missing(c, committed'[c]))
               /\ Missing(c, committed'[c]) # {} => turn = "ten"
    BY <1>1, <1>2 DEF SkipInv, GoalInv, Final, Consumers, Drainers
  <2>3. turn = "ten" => turn' \in Final
    BY <1>1 DEF Final
  <2> QED BY <1>1, <2>1, <2>2, <2>3 DEF SkipInv, AtMostOne
<1>6. GoalInv'
  BY <1>1, <1>3 DEF GoalInv, TypeOK
<1>7. EofInv'
  BY <1>1 DEF EofInv
<1>8. DrainComplete'
  <2>1. \A c \in drained : c \in Consumers /\ goal'[c] = goal[c]
    BY <1>3 DEF EofInv, TypeOK
  <2> QED BY <1>1, <2>1 DEF DrainComplete
<1> QED BY <1>4, <1>5, <1>6, <1>7, <1>8

\* Spec => []IInv for any topic, any appends and any number of expired sessions:
\* what a consumer has behind it is in its results, and an end it has noted is
\* never before its goal.
THEOREM CompatInvariance == Spec => []IInv
<1>1. Init => IInv
  BY CompatInit
<1>2. IInv /\ [Next]_vars => IInv'
  <2> SUFFICES ASSUME IInv, [Next]_vars PROVE IInv'
    OBVIOUS
  <2>1. CASE Next
    BY <2>1, CompatBackground, CompatAssign, CompatMessage, CompatEof, CompatStop,
       CompatClose DEF Next, Program
  <2>2. CASE UNCHANGED vars
    <3> USE DEF IInv
    <3>1. UNCHANGED <<turn, logEnd, committed, member, assigned, pos, fetched, mark, left,
                      eof_partitions, results, taken, drained, from, goal, expiries>>
      BY <2>2 DEF vars, libraryVars, loopVars, historyVars
    <3>2. TypeOK'
      BY <3>1 DEF TypeOK
    <3>3. SkipInv'
      <4>1. \A c \in Consumers : Missing(c, committed[c])' = Missing(c, committed[c])
        BY <3>1 DEF Missing
      <4>2. Missing(turn, pos)' = Missing(turn, pos)
        BY <3>1 DEF Missing
      <4> QED BY <3>1, <4>1, <4>2 DEF SkipInv, AtMostOne
    <3>4. GoalInv'
      BY <3>1 DEF GoalInv
    <3>5. EofInv' /\ DrainComplete'
      BY <3>1 DEF EofInv, ToGoal, DrainComplete
    <3> QED BY <3>2, <3>3, <3>4, <3>5
  <2> QED BY <2>1, <2>2
<1> QED BY <1>1, <1>2, PTL DEF Spec

\* drain() (sim_backward_compat.py:40-73) returns only with everything that was
\* in the topic when it began, although eof_partitions is never cleared.
THEOREM DrainProved == Spec => []DrainComplete
<1>1. IInv => DrainComplete
  BY DEF IInv
<1> QED BY <1>1, CompatInvariance, PTL

\* What a group's offset covers was read, except one message: that on which an
\* exception or Ctrl+C stopped the loop.
THEOREM InHandProved == Spec => []SkipsOnlyInHand
<1>1. IInv => SkipsOnlyInHand
  <2> SUFFICES ASSUME IInv, NEW c \in Consumers
               PROVE  /\ Cardinality(Missing(c, committed[c])) <= 1
                      /\ Missing(c, committed[c]) # {} => turn \in Final \/ left
    BY DEF SkipsOnlyInHand, Missing
  <2> DEFINE S == Missing(c, committed[c])
  <2>1. PICK m : S \subseteq {m}
    BY DEF IInv, SkipInv, AtMostOne
  <2>2. S # {} => turn \in Final \/ left
    BY DEF IInv, SkipInv
  <2> HIDE DEF S
  <2>3. IsFiniteSet({m}) /\ Cardinality({m}) = 1
    BY FS_Singleton
  <2>4. Cardinality(S) <= Cardinality({m})
    BY <2>1, <2>3, FS_Subset
  <2>5. Cardinality(S) <= 1
    BY <2>3, <2>4
  <2> QED BY <2>2, <2>5 DEF S
<1> QED BY <1>1, CompatInvariance, PTL

\* Every turn of a loop (sim_backward_compat.py:51, consumer_v2.py:39) has
\* something to wait for: poll() will join, fetch, hand out a message or an end,
\* unless the reader of a fixed number has read all there is.  The guards of
\* Program, written out.
NeverStuck ==
    turn \in Consumers =>
        \/ left
        \/ ~member
        \/ \E p \in assigned :
              \/ mark[p] = "none" \/ (mark[p] = "said" /\ fetched[p] < logEnd[p])
              \/ pos[p] < fetched[p]
              \/ pos[p] = fetched[p] /\ mark[p] = "queued"
        \/ Starved

\* Offsets come in their order: the group's or the next one, what was fetched,
\* the end of the log.
OrderInv ==
    turn \in Consumers =>
        /\ \A c \in Consumers, p \in Partitions : committed[c][p] <= logEnd[p]
        /\ \A p \in assigned : pos[p] <= fetched[p] /\ fetched[p] <= logEnd[p]

\* A loop that goes on lacks an end or a message; no end it was told is forgotten.
WaitingInv ==
    /\ turn \in Drainers =>
          /\ \A p \in assigned : mark[p] = "said" => p \in eof_partitions
          /\ ~left => ~(Partitions \subseteq eof_partitions)
    /\ turn = "ten" /\ ~left => taken["ten"] < Want

LEMMA OrderInit == Init => OrderInv /\ WaitingInv
<1> SUFFICES ASSUME Init PROVE OrderInv /\ WaitingInv
  OBVIOUS
<1>1. \A f \in Offsets : f \in [Partitions -> Nat]
  BY TopicAssumption DEF Offsets
<1>2. assigned = {} /\ eof_partitions = {} /\ Partitions # {} /\ Want > 0
  BY TopicAssumption DEF Init
<1>3. taken["ten"] = 0
  BY DEF Init, Consumers
<1>4. \A c \in Consumers, p \in Partitions : committed[c][p] <= logEnd[p]
  <2> SUFFICES ASSUME NEW c \in Consumers, NEW p \in Partitions
               PROVE  committed[c][p] <= logEnd[p]
    OBVIOUS
  <2>1. committed[c][p] \in Nat /\ logEnd[p] \in Nat
    BY <1>1 DEF Init
  <2>2. committed[c][p] <= logEnd[p] \/ committed[c][p] <= 0
    BY DEF Init
  <2> QED BY <2>1, <2>2
<1>5. OrderInv
  BY <1>2, <1>4 DEF OrderInv
<1>6. WaitingInv
  BY <1>2, <1>3 DEF WaitingInv
<1> QED BY <1>5, <1>6

LEMMA OrderStep ==
    ASSUME IInv, OrderInv, [Next]_vars
    PROVE  OrderInv'
<1>1. TypeOK /\ (member => assigned # {}) /\ (assigned # {} => assigned = Partitions)
  BY DEF IInv, GoalInv, TypeOK
<1>2. ASSUME NEW f \in [Partitions -> Nat], turn \in Consumers, Commit(f),
             member => \A p \in Partitions : f[p] <= logEnd[p]
      PROVE  \A c \in Consumers, p \in Partitions : committed'[c][p] <= logEnd[p]
  BY <1>1, <1>2, CompatCommit DEF OrderInv
<1>3. pos \in [Partitions -> Nat]
      /\ (turn \in Consumers /\ member => \A p \in Partitions : pos[p] <= logEnd[p])
  BY <1>1 DEF TypeOK, OrderInv
<1>4. CASE AutoCommit
  BY <1>2, <1>3, <1>4 DEF AutoCommit, OrderInv, libraryVars
<1>5. CASE Expire
  BY <1>5 DEF Expire, OrderInv
<1>6. ASSUME NEW p \in Partitions, Fetch(p) PROVE OrderInv'
  BY <1>1, <1>6 DEF Fetch, OrderInv, TypeOK
<1>7. ASSUME NEW p \in Partitions, Publish(p) PROVE OrderInv'
  <2>1. \A q \in Partitions : logEnd[q] \in Nat /\ logEnd[q] <= logEnd'[q] /\ logEnd'[q] \in Nat
    BY <1>1, <1>7 DEF Publish, TypeOK
  <2>2. UNCHANGED <<turn, committed, assigned, pos, fetched>>
    BY <1>7 DEF Publish, libraryVars
  <2>3. /\ \A c \in Consumers, q \in Partitions : committed[c][q] \in Nat
        /\ \A q \in Partitions : fetched[q] \in Nat /\ pos[q] \in Nat
        /\ \A q \in assigned : q \in Partitions
    BY <1>1 DEF TypeOK
  <2> QED BY <2>1, <2>2, <2>3 DEF OrderInv
<1>8. CASE Assign
  <2>1. /\ turn' = turn /\ turn \in Consumers /\ committed' = committed /\ logEnd' = logEnd
        /\ pos' = committed[turn] /\ fetched' = committed[turn] /\ assigned' = Partitions
    BY <1>8 DEF Assign
  <2>2. \A p \in Partitions : committed[turn][p] \in Nat /\ committed[turn][p] <= logEnd[p]
    BY <1>1, <2>1 DEF TypeOK, OrderInv
  <2> QED BY <2>1, <2>2 DEF OrderInv
<1>9. ASSUME NEW p \in Partitions, PollMessage(p) PROVE OrderInv'
  BY <1>1, <1>9 DEF PollMessage, OrderInv, TypeOK
<1>10. ASSUME NEW p \in Partitions, PollEof(p) PROVE OrderInv'
  <2>1. UNCHANGED <<turn, committed, logEnd, assigned, pos, fetched>>
    BY <1>10 DEF PollEof
  <2> QED BY <2>1 DEF OrderInv
<1>11. ASSUME NEW p \in Partitions, Stop(p) PROVE OrderInv'
  <2>1. CASE turn = "ten"
    <3>1. /\ turn \in Consumers
          /\ UNCHANGED <<turn, committed, logEnd, assigned, fetched>>
          /\ \/ p \in assigned /\ pos[p] < fetched[p] /\ pos' = [pos EXCEPT ![p] = @ + 1]
             \/ UNCHANGED pos
      BY <1>11, <2>1 DEF Stop, Looping
    <3>2. CASE UNCHANGED pos
      BY <3>1, <3>2 DEF OrderInv
    <3>3. CASE p \in assigned /\ pos[p] < fetched[p] /\ pos' = [pos EXCEPT ![p] = @ + 1]
      <4>1. \A q \in assigned : /\ pos[q] \in Nat /\ fetched[q] \in Nat
                                /\ pos'[q] = IF q = p THEN pos[q] + 1 ELSE pos[q]
        BY <1>1, <3>3 DEF TypeOK
      <4>2. \A q \in assigned : pos'[q] <= fetched[q]
        BY <3>1, <3>3, <4>1 DEF OrderInv
      <4> QED BY <3>1, <4>2 DEF OrderInv
    <3> QED BY <3>1, <3>2, <3>3
  <2>2. CASE turn # "ten"
    BY <1>11, <2>2 DEF Stop, OrderInv, Consumers, Drainers
  <2> QED BY <2>1, <2>2
<1>12. CASE Close
  <2>1. turn \in Consumers /\ Commit(pos) /\ assigned' = {} /\ logEnd' = logEnd
    BY <1>12 DEF Close
  <2>2. \A c \in Consumers, p \in Partitions : committed'[c][p] <= logEnd[p]
    BY <1>2, <1>3, <2>1
  <2> QED BY <2>1, <2>2 DEF OrderInv
<1>13. CASE UNCHANGED vars
  BY <1>13 DEF vars, libraryVars, OrderInv
<1> QED BY <1>4, <1>5, <1>6, <1>7, <1>8, <1>9, <1>10, <1>11, <1>12, <1>13 DEF Next, Program

LEMMA WaitingStep ==
    ASSUME IInv, WaitingInv, [Next]_vars
    PROVE  WaitingInv'
<1>1. TypeOK /\ (assigned # {} => assigned = Partitions) /\ Partitions # {}
  BY TopicAssumption DEF IInv, TypeOK
<1>2. CASE UNCHANGED <<turn, left, assigned, mark, eof_partitions, taken>>
  BY <1>2 DEF WaitingInv
<1>3. ASSUME NEW p \in Partitions, Fetch(p) PROVE WaitingInv'
  <2>1. /\ UNCHANGED <<turn, left, assigned, eof_partitions, taken>>
        /\ turn \in Drainers => mark' = [mark EXCEPT ![p] = "queued"]
    BY <1>3 DEF Fetch, loopVars
  <2> QED BY <1>1, <2>1 DEF WaitingInv, TypeOK
<1>4. CASE Assign
  BY <1>4 DEF Assign, loopVars, WaitingInv
<1>5. ASSUME NEW p \in Partitions, PollMessage(p) PROVE WaitingInv'
  <2>1. /\ turn \in Consumers /\ ~left /\ UNCHANGED <<turn, assigned, mark, eof_partitions>>
        /\ taken' = [taken EXCEPT ![turn] = @ + 1]
        /\ left' = (turn = "ten" /\ taken[turn] + 1 = Want)
    BY <1>5 DEF PollMessage, Looping
  <2>2. turn = "ten" => taken["ten"] \in Nat /\ taken'["ten"] = taken["ten"] + 1
    BY <1>1, <2>1 DEF TypeOK, Consumers
  <2>3. turn = "ten" => taken["ten"] < Want
    BY <2>1 DEF WaitingInv
  <2>4. turn = "ten" /\ taken["ten"] + 1 # Want => taken'["ten"] < Want
    BY <2>2, <2>3, TopicAssumption
  <2>5. turn = "ten" /\ ~left' => taken["ten"] + 1 # Want
    BY <2>1, Zenon
  <2> QED BY <2>1, <2>4, <2>5 DEF WaitingInv
<1>6. ASSUME NEW p \in Partitions, PollEof(p) PROVE WaitingInv'
  <2>1. /\ p \in assigned /\ ~left /\ UNCHANGED <<turn, assigned, taken>>
        /\ mark' = [mark EXCEPT ![p] = "said"]
        /\ eof_partitions' = eof_partitions \cup {p}
        /\ left' = (assigned # {} /\ assigned \subseteq eof_partitions')
    BY <1>6 DEF PollEof, Looping, AllEnded
  <2>2. turn # "ten" \/ taken["ten"] < Want
    BY <2>1 DEF WaitingInv
  <2>3. ~left' => ~(Partitions \subseteq eof_partitions')
    BY <1>1, <2>1
  <2>4. turn \in Drainers => \A q \in assigned : mark'[q] = "said" => q \in eof_partitions'
    BY <1>1, <2>1 DEF WaitingInv, TypeOK
  <2> QED BY <2>1, <2>2, <2>3, <2>4 DEF WaitingInv
<1>7. ASSUME NEW p \in Partitions, Stop(p) PROVE WaitingInv'
  <2>1. \/ turn = "ten" /\ left' = TRUE /\ turn' = turn
        \/ turn' = "died"
    BY <1>7 DEF Stop
  <2> QED BY <2>1 DEF WaitingInv, Drainers
<1>8. CASE Close
  <2>1. turn' \in {"v2", "ended"} /\ assigned' = {} /\ eof_partitions' = {}
    BY <1>8 DEF Close
  <2> QED BY <1>1, <2>1 DEF WaitingInv
<1> QED BY <1>2, <1>3, <1>4, <1>5, <1>6, <1>7, <1>8
        DEF Next, Program, AutoCommit, Expire, Publish, libraryVars, loopVars, vars

\* Without any fairness: no state of a loop is a dead end but that of a reader
\* of a fixed number that has read the whole topic.
THEOREM NeverStuckProved == Spec => []NeverStuck
<1>1. IInv /\ OrderInv /\ WaitingInv => NeverStuck
  <2> SUFFICES ASSUME IInv, OrderInv, WaitingInv, turn \in Consumers, ~left, member,
                      \A p \in assigned :
                         /\ mark[p] # "none" /\ ~(mark[p] = "said" /\ fetched[p] < logEnd[p])
                         /\ ~(pos[p] < fetched[p])
                         /\ ~(pos[p] = fetched[p] /\ mark[p] = "queued")
               PROVE  Starved
    BY DEF NeverStuck
  <2>1. assigned = Partitions /\ TypeOK
    BY DEF IInv, GoalInv, TypeOK
  <2>2. \A p \in Partitions : mark[p] = "said" /\ pos[p] = logEnd[p]
    <3> SUFFICES ASSUME NEW p \in Partitions
                 PROVE  mark[p] = "said" /\ pos[p] = logEnd[p]
      OBVIOUS
    <3>1. /\ pos[p] \in Nat /\ fetched[p] \in Nat /\ logEnd[p] \in Nat
          /\ mark[p] \in {"none", "queued", "said"}
      BY <2>1 DEF TypeOK
    <3>2. pos[p] <= fetched[p] /\ fetched[p] <= logEnd[p]
      BY <2>1 DEF OrderInv
    <3>3. pos[p] = fetched[p]
      BY <2>1, <3>1, <3>2
    <3>4. mark[p] = "said"
      BY <2>1, <3>1, <3>3
    <3> QED BY <2>1, <3>1, <3>2, <3>3, <3>4
  <2>3. turn \notin Drainers
    BY <2>1, <2>2 DEF WaitingInv
  <2>4. turn = "ten" /\ taken["ten"] < Want
    BY <2>3 DEF WaitingInv, Consumers
  <2>5. pos = logEnd
    BY <2>1, <2>2 DEF TypeOK
  <2> QED BY <2>4, <2>5 DEF Starved
<1>2. IInv /\ OrderInv /\ WaitingInv /\ [Next]_vars => OrderInv' /\ WaitingInv'
  BY OrderStep, WaitingStep
<1>3. Init => OrderInv /\ WaitingInv
  BY OrderInit
<1> QED BY <1>1, <1>2, <1>3, CompatInvariance, PTL DEF Spec

-----------------------------------------------------------------------------
(* AutoCreate.                                                              *)

LEMMA CreateInit ==
    ASSUME Create!CountAssumption
    PROVE  Create!Init => Create!IInv
<1> SUFFICES ASSUME Create!Init PROVE Create!IInv
  OBVIOUS
<1> USE DEF Create!CountAssumption, Create!Init, Create!Rounds
<1>1. Create!TypeOK
  <2>1. autoCreate \in BOOLEAN /\ exists \in BOOLEAN /\ existed \in BOOLEAN
    BY Zenon
  <2>2. /\ stored \in Nat /\ unsent \in Nat /\ queued \in Nat /\ round \in 1 .. 2
        /\ delivered \in [1 .. 2 -> Nat] /\ errors \in [1 .. 2 -> Nat]
    OBVIOUS
  <2> QED BY <2>1, <2>2, Zenon DEF Create!TypeOK
<1>2. Create!CountInv
  BY DEF Create!CountInv
<1>3. Create!TopicInv
  BY DEF Create!TopicInv
<1> QED BY <1>1, <1>2, <1>3 DEF Create!IInv

\* One step per action; the two counts of a round change by EXCEPT only.
LEMMA CreateNext ==
    ASSUME Create!CountAssumption
    PROVE  Create!IInv /\ [Create!Next]_(Create!vars) => Create!IInv'
<1> SUFFICES ASSUME Create!IInv, [Create!Next]_(Create!vars) PROVE Create!IInv'
  OBVIOUS
<1> USE DEF Create!IInv, Create!TypeOK, Create!CountInv, Create!TopicInv,
            Create!CountAssumption, Create!Rounds, Create!brokerVars, Create!produceVars
<1>1. CASE Create!SetAutoCreate
  <2>1. autoCreate' \in BOOLEAN
    <3>1. (round = 1) \in BOOLEAN /\ autoCreate \in BOOLEAN
      OBVIOUS
    <3> QED BY <1>1, <3>1, Zenon DEF Create!SetAutoCreate
  <2>2. /\ pc = "config" /\ pc' = "produce" /\ existed' = exists
        /\ UNCHANGED <<exists, stored, round, unsent, queued, delivered, errors>>
    BY <1>1 DEF Create!SetAutoCreate
  <2>3. Create!TypeOK'
    BY <2>1, <2>2
  <2>4. Create!CountInv' /\ Create!TopicInv'
    BY <2>2
  <2> QED BY <2>3, <2>4
<1>2. CASE Create!DeleteTopic
  BY <1>2 DEF Create!DeleteTopic
<1>3. CASE Create!Restore
  BY <1>3 DEF Create!Restore
<1>4. CASE Create!Produce
  BY <1>4 DEF Create!Produce
<1>5. CASE Create!SerializerRaises
  BY <1>5 DEF Create!SerializerRaises
<1>6. CASE Create!Settle
  BY <1>6 DEF Create!Settle
<1>7. CASE Create!Flushed
  BY <1>7 DEF Create!Flushed
<1>8. CASE Create!Metadata
  BY <1>8 DEF Create!Metadata
<1>9. CASE UNCHANGED Create!vars
  BY <1>9 DEF Create!vars
<1> QED BY <1>1, <1>2, <1>3, <1>4, <1>5, <1>6, <1>7, <1>8, <1>9 DEF Create!Next

\* Spec => []IInv for any number of payments: the payments of a round are with
\* the loop, with the client or counted, and within a round the topic stays.
THEOREM AutoCreateInvariance ==
    ASSUME Create!CountAssumption
    PROVE  Create!Spec => []Create!IInv
<1>1. Create!Init => Create!IInv
  BY CreateInit
<1>2. Create!IInv /\ [Create!Next]_(Create!vars) => Create!IInv'
  BY CreateNext
<1> QED BY <1>1, <1>2, PTL DEF Create!Spec

\* AllAccounted for any number of payments: produce_to() counts each payment as
\* delivered or as an error, and none twice.
THEOREM AccountedProved ==
    ASSUME Create!CountAssumption
    PROVE  Create!Spec => []Create!AllAccounted
<1>1. Create!IInv => Create!AllAccounted
  BY DEF Create!IInv, Create!TypeOK, Create!CountInv, Create!AllAccounted,
         Create!Printed, Create!Rounds
<1> QED BY <1>1, AutoCreateInvariance, PTL

\* QuietMeansExisted for any number of payments: a second round that is silent
\* found the topic of the first, or its setting did not take effect.
THEOREM QuietProved ==
    ASSUME Create!CountAssumption
    PROVE  Create!Spec => []Create!QuietMeansExisted
<1>1. Create!IInv => Create!QuietMeansExisted
  BY DEF Create!IInv, Create!TypeOK, Create!CountInv, Create!TopicInv,
         Create!QuietMeansExisted, Create!Rounds
<1> QED BY <1>1, AutoCreateInvariance, PTL
=============================================================================
