---------------------------- MODULE RunConsumers ----------------------------
(***************************************************************************)
(* run_consumers.sh: launches NumConsumers consumers in the background,    *)
(* follows their logs with `tail -f' and waits for them; a trap on SIGINT  *)
(* and SIGTERM stops them.  Bash runs the trap between two commands, or at *)
(* once when it interrupts `wait'.  The children of a script ignore SIGINT *)
(* (it starts them with `&'), so Ctrl+C reaches the shell alone.           *)
(***************************************************************************)
EXTENDS Integers

CONSTANTS NumConsumers,
          MaxSignals     \* bound: how often Ctrl+C is pressed

ASSUME ScriptAssumption == NumConsumers \in Nat /\ MaxSignals \in Nat

Ids == 1 .. NumConsumers

VARIABLES pc,         \* the command the shell is at
          consumer,   \* the state of each consumer process
          tail,       \* the state of the tail process
          recorded,   \* PIDS holds consumers 1 .. recorded
          k,          \* the position of cleanup's loop in PIDS
          signals     \* signals delivered to the shell

vars == <<pc, consumer, tail, recorded, k, signals>>

ProcStates == {"none", "running", "signalled", "dead"}

TypeOK ==
    /\ pc \in {"launch", "record", "wait", "kill_tail",
               "cleanup_kill", "cleanup_wait", "exited"}
    /\ consumer \in [Ids -> ProcStates]
    /\ tail \in ProcStates
    /\ recorded \in 0 .. NumConsumers
    /\ k \in 1 .. NumConsumers + 1
    /\ signals \in 0 .. MaxSignals

Init ==
    /\ pc = "launch"
    /\ consumer = [i \in Ids |-> "none"]
    /\ tail = "none"
    /\ recorded = 0
    /\ k = 1
    /\ signals = 0

\* kill sends SIGTERM; a process that has ended already takes no notice.
Terminated(state) == IF state = "running" THEN "signalled" ELSE state

Over(state) == state \in {"none", "dead"}

-----------------------------------------------------------------------------
(* The body of the script.                                                  *)

\* python services/consumer.py ... &
Launch ==
    /\ pc = "launch"
    /\ recorded < NumConsumers
    /\ consumer' = [consumer EXCEPT ![recorded + 1] = "running"]
    /\ pc' = "record"
    /\ UNCHANGED <<tail, recorded, k, signals>>

\* PIDS+=($!)
Record ==
    /\ pc = "record"
    /\ recorded' = recorded + 1
    /\ pc' = "launch"
    /\ UNCHANGED <<consumer, tail, k, signals>>

\* tail -f ... &
LaunchTail ==
    /\ pc = "launch"
    /\ recorded = NumConsumers
    /\ tail' = "running"
    /\ pc' = "wait"
    /\ UNCHANGED <<consumer, recorded, k, signals>>

\* Mutation of Wait: `wait' without arguments.
WaitForAll ==
    /\ pc = "wait"
    /\ \A i \in Ids : Over(consumer[i])
    /\ Over(tail)
    /\ pc' = "kill_tail"
    /\ UNCHANGED <<consumer, tail, recorded, k, signals>>

\* wait "${PIDS[@]}": with an empty PIDS it waits for every child.
Wait ==
    /\ pc = "wait"
    /\ \A i \in 1 .. recorded : Over(consumer[i])
    /\ recorded = 0 => Over(tail)
    /\ pc' = "kill_tail"
    /\ UNCHANGED <<consumer, tail, recorded, k, signals>>

KillTail ==
    /\ pc = "kill_tail"
    /\ tail' = Terminated(tail)
    /\ pc' = "exited"
    /\ UNCHANGED <<consumer, recorded, k, signals>>

-----------------------------------------------------------------------------
(* cleanup()                                                                *)

Signal ==
    /\ pc # "exited"
    /\ signals < MaxSignals
    /\ signals' = signals + 1
    /\ k' = 1
    /\ pc' = "cleanup_kill"
    /\ UNCHANGED <<consumer, tail, recorded>>

\* Mutation of CleanupKill: "$PIDS" is the first element of the array only.
CleanupKillFirst ==
    /\ pc = "cleanup_kill"
    /\ k <= recorded
    /\ consumer' = [consumer EXCEPT ![1] = Terminated(@)]
    /\ k' = k + 1
    /\ UNCHANGED <<pc, tail, recorded, signals>>

CleanupKill ==
    /\ pc = "cleanup_kill"
    /\ k <= recorded
    /\ consumer' = [consumer EXCEPT ![k] = Terminated(@)]
    /\ k' = k + 1
    /\ UNCHANGED <<pc, tail, recorded, signals>>

CleanupKilled ==
    /\ pc = "cleanup_kill"
    /\ k > recorded
    /\ pc' = "cleanup_wait"
    /\ UNCHANGED <<consumer, tail, recorded, k, signals>>

\* Mutation of CleanupWait: only the processes of PIDS are waited for.
CleanupWaitRecorded ==
    /\ pc = "cleanup_wait"
    /\ \A i \in 1 .. recorded : Over(consumer[i])
    /\ pc' = "exited"
    /\ UNCHANGED <<consumer, tail, recorded, k, signals>>

\* wait, without arguments: every child of the shell, tail included.
CleanupWait ==
    /\ pc = "cleanup_wait"
    /\ \A i \in Ids : Over(consumer[i])
    /\ Over(tail)
    /\ pc' = "exited"
    /\ UNCHANGED <<consumer, tail, recorded, k, signals>>

Shell == \/ Launch \/ Record \/ LaunchTail \/ Wait \/ KillTail
         \/ CleanupKill \/ CleanupKilled \/ CleanupWait

-----------------------------------------------------------------------------
(* The children.                                                            *)

\* SIGTERM ends a consumer at once: python has no handler for it.
ConsumerDies(i) ==
    /\ consumer[i] = "signalled"
    /\ consumer' = [consumer EXCEPT ![i] = "dead"]
    /\ UNCHANGED <<pc, tail, recorded, k, signals>>

\* A consumer ends by itself: an exception nothing catches.
ConsumerCrashes(i) ==
    /\ consumer[i] = "running"
    /\ consumer' = [consumer EXCEPT ![i] = "dead"]
    /\ UNCHANGED <<pc, tail, recorded, k, signals>>

\* tail -f never ends by itself.
TailDies ==
    /\ tail = "signalled"
    /\ tail' = "dead"
    /\ UNCHANGED <<pc, consumer, recorded, k, signals>>

Next ==
    \/ Shell
    \/ Signal
    \/ \E i \in Ids : ConsumerDies(i) \/ ConsumerCrashes(i)
    \/ TailDies

\* The shell goes on, and a process that was sent SIGTERM ends.
Fairness ==
    /\ WF_vars(Shell)
    /\ \A i \in Ids : WF_vars(ConsumerDies(i))
    /\ WF_vars(TailDies)

Spec == Init /\ [][Next]_vars
FairSpec == Spec /\ Fairness

-----------------------------------------------------------------------------
(* Properties                                                               *)

\* When the script has ended, on its own or by the trap, none of its processes
\* is left behind: each has ended or has been sent SIGTERM.
ExitLeavesNobody ==
    pc = "exited" => /\ \A i \in Ids : consumer[i] # "running"
                     /\ tail # "running"

\* After a signal every consumer whose pid is recorded ends, also when the
\* signal meets the script in the middle of its launch loop.
RecordedAreStopped ==
    signals > 0 ~> \A i \in 1 .. recorded : consumer[i] = "dead"

\* When all consumers end by themselves the script ends too, and takes tail
\* with it, unless a signal comes first.
EndsWithConsumers ==
    pc = "wait" /\ (\A i \in Ids : consumer[i] = "dead")
        ~> signals > 0 \/ (pc = "exited" /\ tail = "dead")

-----------------------------------------------------------------------------
(* The parts of the inductive invariant.                                    *)

\* PIDS is complete when the script waits for it; in the launch loop at most
\* one process is running without being recorded.
RecordInv ==
    /\ pc = "record" => recorded < NumConsumers
    /\ pc \in {"wait", "kill_tail"} => recorded = NumConsumers
    /\ pc = "launch" => \A i \in Ids : i > recorded => consumer[i] = "none"
    /\ \A i \in Ids : i > recorded + 1 => consumer[i] = "none"

\* Once the kill loop is over no recorded consumer runs on unsignalled.
KillInv ==
    /\ pc = "kill_tail" => \A i \in Ids : Over(consumer[i])
    /\ pc = "cleanup_kill" => \A i \in 1 .. recorded : i < k => consumer[i] # "running"
    /\ pc = "cleanup_wait" => \A i \in 1 .. recorded : consumer[i] # "running"

IInv == TypeOK /\ RecordInv /\ KillInv /\ ExitLeavesNobody
=============================================================================
