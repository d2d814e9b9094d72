-------------------------- MODULE PublishContract ---------------------------
(***************************************************************************)
(* What publishing a batch with delivery callbacks promises, without the   *)
(* client's queues, retries and timeouts: each message is accepted, may    *)
(* become durable at any time after that, and is reported at most once.  A *)
(* success is reported for durable messages only; a failure says nothing,  *)
(* the message may be durable or become so later.  The program returns     *)
(* normally only when nothing accepted is left unreported.                 *)
(***************************************************************************)
CONSTANT Msgs

VARIABLES status,    \* what the application knows of each message
          durable,   \* the messages in the broker's log
          outcome    \* whether the program runs, returned or died

vars == <<status, durable, outcome>>

Pending == {m \in Msgs : status[m] = "pending"}

Init ==
    /\ status = [m \in Msgs |-> "idle"]
    /\ durable = {}
    /\ outcome = "running"

Accept(m) ==
    /\ outcome = "running"
    /\ status[m] = "idle"
    /\ status' = [status EXCEPT ![m] = "pending"]
    /\ UNCHANGED <<durable, outcome>>

Persist(m) ==
    /\ status[m] # "idle"
    /\ durable' = durable \cup {m}
    /\ UNCHANGED <<status, outcome>>

\* One poll() or flush() may report several messages at once.
Report(D, F) ==
    /\ outcome = "running"
    /\ status' = [m \in Msgs |-> IF m \in D THEN "delivered"
                                 ELSE IF m \in F THEN "failed" ELSE status[m]]
    /\ UNCHANGED <<durable, outcome>>

Return ==
    /\ outcome = "running"
    /\ Pending = {}
    /\ outcome' = "returned"
    /\ UNCHANGED <<status, durable>>

Die ==
    /\ outcome = "running"
    /\ outcome' = "died"
    /\ UNCHANGED <<status, durable>>

Next ==
    \/ \E m \in Msgs : Accept(m) \/ Persist(m)
    \/ \E D \in SUBSET (Pending \cap durable) :
          \E F \in SUBSET (Pending \ D) : Report(D, F)
    \/ Return
    \/ Die

Spec == Init /\ [][Next]_vars
=============================================================================
