--------------------------- MODULE ReadingContract --------------------------
(***************************************************************************)
(* What a consumer group promises as long as none of its members fails: it *)
(* reads like one reader.  Each partition is read in order, a record once, *)
(* and the committed cursors follow behind what was read.                   *)
(***************************************************************************)
EXTENDS Integers

CONSTANT Partitions

VARIABLES read,     \* the records that were read
          total,    \* how many readings there were
          cursor    \* the offset each partition would be resumed from

vars == <<read, total, cursor>>

Init ==
    /\ read = {}
    /\ total = 0
    /\ cursor = [p \in Partitions |-> 0]

ReadTo(p, n) == \A o \in 0 .. n - 1 : <<p, o>> \in read

Read(p, o) ==
    /\ ReadTo(p, o) /\ <<p, o>> \notin read
    /\ read' = read \cup {<<p, o>>}
    /\ total' = total + 1
    /\ UNCHANGED cursor

Commit ==
    /\ cursor' \in [Partitions -> Nat]
    /\ \A p \in Partitions : cursor[p] <= cursor'[p] /\ ReadTo(p, cursor'[p])
    /\ UNCHANGED <<read, total>>

\* An offset that can be read next is at most the number of records read.
Next == Commit \/ \E p \in Partitions, o \in 0 .. total : Read(p, o)

Spec == Init /\ [][Next]_vars
=============================================================================
