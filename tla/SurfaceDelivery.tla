--------------------------- MODULE SurfaceDelivery ---------------------------
(***************************************************************************)
(* One message published on a surface whose provider keeps no cursor for a *)
(* subscriber (an ntfy topic), followed through the election: a consumer   *)
(* reads what is published from the moment its subscription asks for, and  *)
(* that moment is the start of the subscription unless the election passes *)
(* one in replayFromMs (election.ts becomeMaster, startNtfyTopic).         *)
(***************************************************************************)
EXTENDS SurfaceElection

VARIABLES
    mail,       \* the message: "unsent", "waiting" to be read, or "read"
    asked       \* the nodes whose subscription, being opened, covers it

deliveryVars == <<vars, mail, asked>>

DeliveryInit == Init /\ mail = "unsent" /\ asked = {}

(* A start that begins in this step asks for the message only when it is a   *)
(* takeover from a holder last heard of before the message.                  *)
AsksFor(n) ==
    /\ st'[n].gate = "starting"
    /\ IF st[n].gate = "starting" THEN n \in asked
       ELSE st'[n].handoff = "gap" /\ st'[n].heardAt = "early"

Quiet(n) == Prompt(n) /\ \A m \in Node : net[m][n] = <<>>

Follow ==
    /\ asked' = {n \in Node : mail = "waiting" /\ AsksFor(n)}
    /\ mail' = IF \E n \in asked : st'[n].gate = "on" THEN "read" ELSE mail

(* The message arrives at the provider while some node that runs has heard   *)
(* of a holder: only then is there a moment to replay from.  Subscriptions   *)
(* count in whole seconds, so what is in flight just then is over first.     *)
Publish ==
    /\ mail = "unsent"
    /\ \A n \in Node : Alive(n) => Quiet(n)
    /\ \E n \in Node : power[n] = "on" /\ st[n].heardAt # "null"
    /\ mail' = IF \E n \in Node : Alive(n) /\ st[n].gate = "on" THEN "read" ELSE "waiting"
    /\ asked' = {n \in Node : Alive(n) /\ st[n].gate = "starting"}
    /\ st' = [n \in Node |->
                [st[n] EXCEPT !.heardAt = IF @ = "recent" THEN "early" ELSE @]]
    /\ UNCHANGED <<power, canServe, net, split, left>>

DeliveryNext == (Next /\ Follow) \/ Publish

DeliverySpec == DeliveryInit /\ [][DeliveryNext]_deliveryVars

-----------------------------------------------------------------------------
(* A message waits only as long as nobody reads the surface: no consumer     *)
(* subscribes from a moment after it was published ("a takeover that         *)
(* subscribed from now would drop everything", daemon/facade-cluster.ts).    *)
NoMessageSkipped ==
    mail = "waiting" => \A n \in Node : Alive(n) => st[n].gate # "on"

=============================================================================
