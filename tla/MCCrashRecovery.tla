--------------------------- MODULE MCCrashRecovery --------------------------
(***************************************************************************)
(* CrashRecovery with the three scenarios of the script, which share       *)
(* topics, and a small flood, on a broker an earlier run may have used.    *)
(***************************************************************************)
EXTENDS CrashRecovery

Topic(t, n) == [topic |-> t, parts |-> n]

MCScenarios ==
    << <<Topic("processed", 3)>>,
       <<Topic("processed", 4), Topic("refunds", 4), Topic("failures", 4)>>,
       <<Topic("processed", 6), Topic("refunds", 4), Topic("failures", 4),
         Topic("chargebacks", 4), Topic("disputes", 4), Topic("audit", 2)>> >>

\* The topics of one scenario and no others.
After(n) ==
    [t \in Topics |-> IF t \in Listed(n)
                      THEN (CHOOSE s \in Range(MCScenarios[n]) : s.topic = t).parts ELSE 0]

\* The first run, or one after a run that ended in scenario 1, 2 or 3; or after
\* one more that failed when it had deleted its first topic.
MCLeftovers ==
    {[t \in Topics |-> 0], [After(3) EXCEPT !["processed"] = 0]} \cup {After(n) : n \in 1 .. 3}
=============================================================================
