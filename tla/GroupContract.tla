---------------------------- MODULE GroupContract ---------------------------
(***************************************************************************)
(* What a consumer group promises about a topic, whoever its members are:  *)
(* messages are taken and settled (handled or dropped by a process that    *)
(* stopped), and the committed cursor of a partition only moves forward,   *)
(* never past a message that nobody has taken.                              *)
(***************************************************************************)
EXTENDS Integers

CONSTANTS Partitions,
          LogEnd         \* messages in each partition

Messages == UNION {{p} \X (0 .. LogEnd[p] - 1) : p \in Partitions}

VARIABLES taken,     \* messages some consumer is working on
          handled,   \* messages a consumer printed or rejected
          dropped,   \* messages whose consumer stopped while working on them
          cursor     \* the offset each partition would be resumed from

vars == <<taken, handled, dropped, cursor>>

Accounted == taken \cup handled \cup dropped

Init ==
    /\ taken = {}
    /\ handled = {}
    /\ dropped = {}
    /\ cursor = [p \in Partitions |-> 0]

Take(m) ==
    /\ taken' = taken \cup {m}
    /\ UNCHANGED <<handled, dropped, cursor>>

\* Another consumer may be working on m too.
Settle(m) ==
    /\ m \in taken
    /\ taken' \in {taken, taken \ {m}}
    /\ \/ handled' = handled \cup {m} /\ UNCHANGED dropped
       \/ dropped' = dropped \cup {m} /\ UNCHANGED handled
    /\ UNCHANGED cursor

Advance(p, n) ==
    /\ cursor[p] <= n
    /\ \A o \in 0 .. n - 1 : <<p, o>> \in Accounted

Commit ==
    /\ cursor' \in [Partitions -> Nat]
    /\ \A p \in Partitions : Advance(p, cursor'[p])
    /\ UNCHANGED <<taken, handled, dropped>>

Next == (\E m \in Messages : Take(m) \/ Settle(m)) \/ Commit

Spec == Init /\ [][Next]_vars
=============================================================================
