---------------------------- MODULE SurfaceTenure ----------------------------
(***************************************************************************)
(* What the leader election promises about one inbound surface: the nodes  *)
(* read it in turns.  A tenure begins when a consumer begins to start and  *)
(* ends when that consumer has stopped, and the next tenure begins only    *)
(* after that (the header of cluster/election.ts).                         *)
(***************************************************************************)
CONSTANTS Node, NoNode

VARIABLES
    reader,     \* the node whose tenure it is, or NoNode
    phase       \* how far its consumer is: "off", "starting", "on", "stopping"

Begin(n) ==
    /\ reader = NoNode
    /\ reader' = n /\ phase' = "starting"

Read == phase = "starting" /\ phase' = "on" /\ UNCHANGED reader

Stop == phase = "on" /\ phase' = "stopping" /\ UNCHANGED reader

End == reader # NoNode /\ reader' = NoNode /\ phase' = "off"

Init == reader = NoNode /\ phase = "off"

Next == (\E n \in Node : Begin(n)) \/ Read \/ Stop \/ End

Spec == Init /\ [][Next]_<<reader, phase>>

=============================================================================
