-------------------------- MODULE SurfaceInstances --------------------------
(* The small instances of the election that TLC checks.                      *)
EXTENDS SurfaceElection, TLC

CONSTANTS n1, n2, n3

TwoNodes == {n1, n2}
ThreeNodes == {n1, n2, n3}

Rank == [n \in Node |-> IF n = n1 THEN 1 ELSE IF n = n2 THEN 2 ELSE 3]
SameBuild == [n \in Node |-> 1]
Upgrade == [n \in Node |-> IF n = n2 THEN 2 ELSE 1]

Balanced == [v \in Node |-> [n \in Node |-> 0]]
Overloaded == [v \in Node |-> [n \in Node |-> IF n = n2 THEN 2 ELSE 0]]

(* How often each fault happens: b gives the ones that happen at all.        *)
Budget(b) == [f \in Fault |-> IF f \in DOMAIN b THEN b[f] ELSE 0]

Boots == {Budget([boot |-> 2])}
ThreeBoots == {Budget([boot |-> 3])}
Departures == {Budget([boot |-> 3, shutdown |-> 1, withdraw |-> 1])}
NetworkAndCrash == {Budget([boot |-> 2, crash |-> 1, split |-> 1, lose |-> 1])}
Setbacks == NetworkAndCrash
            \cup {Budget([boot |-> 2, sleep |-> 1]),
                  Budget([boot |-> 3, crash |-> 1, conflict |-> 1])}
OneShutdown == {Budget([boot |-> 2, shutdown |-> 1])}
ConflictSleepShutdown ==
    {Budget([boot |-> 2, conflict |-> 1, sleep |-> 1, shutdown |-> 1])}

=============================================================================
