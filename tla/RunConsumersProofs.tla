------------------------- MODULE RunConsumersProofs -------------------------
(***************************************************************************)
(* Proofs about RunConsumers for every number of consumers and of signals: *)
(* the script ends without leaving a process behind, and its kill loop     *)
(* reaches every consumer it has recorded.                                  *)
(***************************************************************************)
EXTENDS RunConsumers, TLAPS

LEMMA InitIInv == Init => IInv
BY ScriptAssumption
DEF Init, IInv, TypeOK, ProcStates, RecordInv, KillInv, ExitLeavesNobody, Ids

\* A consumer changes state: nothing is unsignalled that was signalled, and
\* only Launch starts one.
LEMMA ChildrenIInv ==
    ASSUME IInv, \/ \E i \in Ids : ConsumerDies(i) \/ ConsumerCrashes(i)
                 \/ TailDies
    PROVE  IInv'
<1> USE DEF IInv, Over
<1>1. ASSUME NEW i \in Ids, ConsumerDies(i) \/ ConsumerCrashes(i) PROVE IInv'
  <2> USE <1>1 DEF ConsumerDies, ConsumerCrashes
  <2>1. TypeOK'
    BY DEF TypeOK, ProcStates
  <2>2. RecordInv'
    BY ScriptAssumption DEF RecordInv, TypeOK, Ids
  <2>3. KillInv' /\ ExitLeavesNobody'
    BY ScriptAssumption DEF KillInv, ExitLeavesNobody, TypeOK, Ids
  <2> QED BY <2>1, <2>2, <2>3
<1>2. CASE TailDies
  BY <1>2 DEF TailDies, TypeOK, ProcStates, RecordInv, KillInv, ExitLeavesNobody
<1> QED BY <1>1, <1>2

\* The body of the script.
LEMMA BodyIInv ==
    ASSUME IInv, Launch \/ Record \/ LaunchTail \/ Wait \/ KillTail
    PROVE  IInv'
<1> USE ScriptAssumption DEF IInv, Ids
<1>1. CASE Launch
  <2> USE <1>1 DEF Launch
  <2>1. TypeOK'
    BY DEF TypeOK, ProcStates
  <2>2. RecordInv'
    BY DEF RecordInv, TypeOK
  <2> QED BY <2>1, <2>2 DEF KillInv, ExitLeavesNobody
<1>2. CASE Record \/ LaunchTail
  <2> USE <1>2 DEF Record, LaunchTail
  <2>1. TypeOK'
    BY DEF TypeOK, ProcStates, RecordInv
  <2>2. RecordInv'
    BY DEF RecordInv, TypeOK
  <2> QED BY <2>1, <2>2 DEF KillInv, ExitLeavesNobody
<1>3. CASE Wait
  BY <1>3 DEF Wait, TypeOK, RecordInv, KillInv, ExitLeavesNobody
<1>4. CASE KillTail
  BY <1>4 DEF KillTail, TypeOK, ProcStates, RecordInv, KillInv, ExitLeavesNobody,
              Over, Terminated
<1> QED BY <1>1, <1>2, <1>3, <1>4

\* The trap.
LEMMA CleanupIInv ==
    ASSUME IInv, Signal \/ CleanupKill \/ CleanupKilled \/ CleanupWait
    PROVE  IInv'
<1> USE ScriptAssumption DEF IInv, Ids
<1>1. CASE Signal
  BY <1>1 DEF Signal, TypeOK, RecordInv, KillInv, ExitLeavesNobody
<1>2. CASE CleanupKill
  <2> USE <1>2 DEF CleanupKill, Terminated
  <2>1. TypeOK'
    BY DEF TypeOK, ProcStates
  <2>2. RecordInv'
    BY DEF RecordInv, TypeOK
  <2>3. KillInv' /\ ExitLeavesNobody'
    BY DEF KillInv, ExitLeavesNobody, TypeOK
  <2> QED BY <2>1, <2>2, <2>3
<1>3. CASE CleanupKilled
  BY <1>3 DEF CleanupKilled, TypeOK, RecordInv, KillInv, ExitLeavesNobody
<1>4. CASE CleanupWait
  BY <1>4 DEF CleanupWait, TypeOK, RecordInv, KillInv, ExitLeavesNobody, Over
<1> QED BY <1>1, <1>2, <1>3, <1>4

\* Which processes run, which are recorded and how far the trap has come stay
\* consistent whatever command the signals interrupt.
THEOREM Invariance == Spec => []IInv
<1>1. IInv /\ [Next]_vars => IInv'
  <2> SUFFICES ASSUME IInv, [Next]_vars PROVE IInv'
    OBVIOUS
  <2>1. CASE UNCHANGED vars
    BY <2>1 DEF vars, IInv, TypeOK, RecordInv, KillInv, ExitLeavesNobody
  <2> QED BY <2>1, ChildrenIInv, BodyIInv, CleanupIInv DEF Next, Shell
<1> QED BY InitIInv, <1>1, PTL DEF Spec

\* Type correctness of the script and its children.
THEOREM TypeCorrect == Spec => []TypeOK
<1>1. IInv => TypeOK
  BY DEF IInv
<1> QED BY <1>1, Invariance, PTL

\* However the script ends (run_consumers.sh:19 or after line 42), no consumer
\* and no tail is left running unsignalled.
THEOREM NobodyLeft == Spec => []ExitLeavesNobody
<1>1. IInv => ExitLeavesNobody
  BY DEF IInv
<1> QED BY <1>1, Invariance, PTL

\* The kill loop (run_consumers.sh:14-16) reaches every recorded consumer
\* before cleanup waits, also when a second signal starts it over.
THEOREM KillLoopComplete ==
    Spec => [](pc = "cleanup_wait" => \A i \in 1 .. recorded : consumer[i] # "running")
<1>1. IInv => (pc = "cleanup_wait" => \A i \in 1 .. recorded : consumer[i] # "running")
  BY DEF IInv, KillInv
<1> QED BY <1>1, Invariance, PTL
=============================================================================
