---------------------------- MODULE ClusterTiming ----------------------------
(***************************************************************************)
(* The intervals of the election, derived from the three an operator sets  *)
(* (deriveClusterTiming, cluster/timing.ts).  The unit is a tick, which    *)
(* stands for the lower ends of the code's clamps (50 to 500 ms); their    *)
(* upper ends, which only shorten an interval further, are left out.       *)
(***************************************************************************)
EXTENDS Integers

CONSTANTS
    HeartbeatPeriod,    \* heartbeatMs
    MasterTimeout,      \* masterTimeoutMs
    BootProbe           \* bootProbeMs

ASSUME TimingAssumption ==
    /\ HeartbeatPeriod \in Nat \ {0}
    /\ MasterTimeout \in Nat /\ MasterTimeout >= 2 * HeartbeatPeriod
    /\ BootProbe \in 1..MasterTimeout

AtLeastATick(d) == IF d < 1 THEN 1 ELSE d

ElectionWindow   == AtLeastATick(MasterTimeout \div 4)
ResignWindow     == ElectionWindow
ClaimSettle      == AtLeastATick(ElectionWindow \div 2)

(* A slip: no grace for the stop of a preempted holder. *)
NoPreemptGrace == 0

PreemptGrace     == AtLeastATick(MasterTimeout \div 3)
WatchdogPeriod   == IF HeartbeatPeriod < MasterTimeout \div 3
                    THEN HeartbeatPeriod ELSE AtLeastATick(MasterTimeout \div 3)
SuspendThreshold == AtLeastATick(MasterTimeout \div 2)
ConflictBackoff  == AtLeastATick(MasterTimeout \div 6)
CandidacyPeriod  == MasterTimeout
YieldPeriod      == MasterTimeout

=============================================================================
