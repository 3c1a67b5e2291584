--------------------------- MODULE SurfaceService ---------------------------
(***************************************************************************)
(* What the election is for, measured in time: how long two nodes read one *)
(* surface at once before they notice, and how long a surface that a node  *)
(* could serve is read by nobody.  Two counters are added to the election; *)
(* they observe its ticks and change none of its steps.                    *)
(***************************************************************************)
EXTENDS SurfaceElection

(* The worse of two readers stops at the other's next heartbeat.             *)
OverlapBound == HeartbeatPeriod + MaxDelay + MaxStart + MaxStop

(* A holder that announced itself and died at once is timed out first.       *)
UnreadBound ==
    BootProbe + MasterTimeout + WatchdogPeriod + ElectionWindow + ClaimSettle + MaxStart

VARIABLES
    overlap,    \* ticks since the last event of the environment or, if later,
                \* since there were fewer than two readers in reach
    unread      \* the same, since the surface was read or nobody could serve it

serviceVars == <<vars, overlap, unread>>

Readers == {n \in Node : Reading(n) /\ st[n].gate = "on"}

(* Counted on from c while the condition lasts, and no further than a bound. *)
Counted(c, holds, bound) == IF ~holds THEN 0 ELSE IF c > bound THEN c ELSE c + 1

ServiceInit == Init /\ overlap = 0 /\ unread = 0

ServiceNext ==
    \/ Work /\ UNCHANGED <<overlap, unread>>
    \/ Environment /\ overlap' = 0 /\ unread' = 0
    \/ /\ Tick
       /\ overlap' = Counted(overlap, Cardinality(Readers) > 1 /\ split = {}, OverlapBound)
       /\ unread' = Counted(unread, Readers = {} /\ Settled, UnreadBound)

ServiceSpec == ServiceInit /\ [][ServiceNext]_serviceVars

-----------------------------------------------------------------------------
(* Two nodes that read the same surface find out at the next heartbeat, and  *)
(* the worse ranked of them stops: reconcileWithPeerHolder.                  *)
OverlapIsBrief == overlap <= OverlapBound

(* A surface some node can serve is never left unread for longer than a      *)
(* crashed holder takes to time out and its successor to be elected.         *)
NeverUnreadForLong == unread <= UnreadBound

=============================================================================
