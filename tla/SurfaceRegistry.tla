--------------------------- MODULE SurfaceRegistry ---------------------------
(***************************************************************************)
(* The consumers of one inbound surface on one node: the surface registry  *)
(* they are registered in (cluster/surface-registry.ts) and the elections  *)
(* the node manager keeps for the surface (cluster/election-node.ts).      *)
(*                                                                         *)
(* The last consumer to be unregistered takes its election with it.  The   *)
(* election stands down on its own queue, later, and only then asks the    *)
(* registry what it has to stop; a consumer registered meanwhile gets an   *)
(* election of its own.  What an election wins or loses on the network is  *)
(* open here; SurfaceElection models it.                                   *)
(*                                                                         *)
(* Callers register, unregister and stop the manager whenever they like.   *)
(* So the code gets into trouble, and history variables say of what it has *)
(* lost hold: the consumers nobody will stop (lost), the elections that a  *)
(* stop found booting (missed) and those that came up beside an earlier    *)
(* one (after).  A definition that a comment calls a slip is what a small  *)
(* mistake would make of the one after it.                                 *)
(***************************************************************************)
EXTENDS Naturals, Sequences, SequencesExt, Functions

CONSTANTS
    Consumer,           \* what is registered: gates with a start and a stop
    None,               \* elections.get finds nothing
    MaxElections,       \* bound on the elections a node makes
    MaxTurns            \* bound on how often they win the surface

ASSUME RegistryAssumption ==
    MaxElections \in Nat /\ MaxTurns \in Nat /\ None \notin Nat

(* "booting" is the role stopped with the boot probe still in the queue, and *)
(* "claiming" the role master before the consumers are looked up.            *)
Role == {"booting", "contending", "claiming", "master", "resigning", "stopped"}

(* An election: its role; whether its stop waits in the queue; whether a     *)
(* syncSurface awaits that stop; whether a stop found it booting; whether an *)
(* earlier one was not stopped when it was made; the consumers it is starting*)
(* or stopping, the one at work first; and what follows a RESIGN.            *)
Election == [role : Role, stop : BOOLEAN, withdrawn : BOOLEAN, missed : BOOLEAN,
             after : BOOLEAN, todo : Seq(Consumer), then : {"contending", "stopped"}]

VARIABLES
    surfaces,   \* the consumers registered for the surface, oldest first
    retiring,   \* those of the withdrawn surface, until its election has stopped
    elections,  \* every election made for the surface, oldest first
    current,    \* the one the node manager knows, or None
    manager,    \* the node manager is "new", "on", "stopping" or "off"
    by,         \* who started each consumer that reads, None for the others
    lost,       \* consumers let go while an election had them
    turns       \* how often an election has won

vars == <<surfaces, retiring, elections, current, manager, by, lost, turns>>

Init ==
    /\ surfaces = <<>> /\ retiring = <<>>
    /\ elections = <<>> /\ current = None
    /\ manager = "new"
    /\ by = [c \in Consumer |-> None] /\ lost = {} /\ turns = 0

Registered == Range(surfaces)

Made == DOMAIN elections

-----------------------------------------------------------------------------
Held(e) == elections[e].role \in {"master", "resigning"}

(* No list leads to cs any more: those an election reads with, or has on its *)
(* own list, are lost.                                                       *)
LetGo(cs) ==
    lost' = lost \cup {c \in cs : \E e \in Made : Held(e) /\
                          (by[c] = e \/ c \in Range(elections[e].todo))}

NewElection ==
    [role |-> "booting", stop |-> FALSE, withdrawn |-> FALSE, missed |-> FALSE,
     after |-> \E e \in Made : elections[e].role # "stopped",
     todo |-> <<>>, then |-> "contending"]

-----------------------------------------------------------------------------
(* The registry, and the listener that brings the elections into line.       *)

(* SurfaceElection.stop returns at once in the role stopped.                 *)
StopIsVoid(e) == elections[e].role \in {"booting", "stopped"}

StopRequested(e, withdrawn) ==
    IF StopIsVoid(e) THEN [elections EXCEPT ![e].missed = TRUE]
    ELSE [elections EXCEPT ![e].stop = TRUE, ![e].withdrawn = withdrawn]

MakeElection ==
    /\ Len(elections) < MaxElections
    /\ elections' = Append(elections, NewElection)
    /\ current' = Len(elections) + 1

WithdrawElection == elections' = StopRequested(current, TRUE) /\ current' = None

(* A slip: no election is ever withdrawn.                                    *)
SyncWithoutWithdrawing(s) ==
    IF s # <<>> /\ current = None THEN MakeElection ELSE UNCHANGED <<elections, current>>

(* syncSurface, once s are the consumers of the surface.                     *)
SyncSurface(s) ==
    CASE s # <<>> /\ current = None   -> MakeElection
      [] s = <<>> /\ current # None   -> WithdrawElection
      [] OTHER                        -> UNCHANGED <<elections, current>>

Notify == IF manager = "on" THEN SyncSurface(surfaces') ELSE UNCHANGED <<elections, current>>

(* A surface that is registered again is dropped from retiring.              *)
Register(c) ==
    /\ c \notin Registered
    /\ retiring' = <<>> /\ LetGo(Range(retiring) \ {c})
    /\ surfaces' = Append(surfaces, c)
    /\ Notify
    /\ UNCHANGED <<manager, by, turns>>

Without(c) == RemoveFirst(surfaces, c)

(* Two slips: the last consumer is dropped at once; not its surface retires. *)
RetireNothing == <<>>
RetireConsumer == Head(surfaces)

(* The last consumer leaves with its surface, which stays within reach until *)
(* the stop of the election has returned.                                    *)
Retire == IF manager = "on" /\ StopIsVoid(current) THEN <<>> ELSE surfaces

(* One of several consumers is spliced out of the list; of the last one of a *)
(* surface whose election is still booting nothing stays.                    *)
LetGoFor(c) ==
    IF Len(surfaces) > 1 \/ (manager = "on" /\ StopIsVoid(current))
    THEN LetGo({c}) ELSE UNCHANGED lost

(* A slip: one of several is stopped as well.                                *)
UnregisterAndStop(c) ==
    /\ c \in Registered
    /\ surfaces' = Without(c)
    /\ retiring' = IF Len(surfaces) > 1 THEN retiring ELSE Retire
    /\ by' = IF Len(surfaces) > 1 THEN [by EXCEPT ![c] = None] ELSE by
    /\ LetGoFor(c) /\ Notify
    /\ UNCHANGED <<manager, turns>>

Unregister(c) ==
    /\ c \in Registered
    /\ surfaces' = Without(c)
    /\ retiring' = IF Len(surfaces) > 1 THEN retiring ELSE Retire
    /\ LetGoFor(c) /\ Notify
    /\ UNCHANGED <<manager, by, turns>>

-----------------------------------------------------------------------------
(* One election.                                                             *)

Idle(e) == elections[e].todo = <<>> /\ elections[e].role \notin {"claiming", "resigning"}

(* start: the boot probe goes out.                                           *)
Boot(e) ==
    /\ elections[e].role = "booting"
    /\ elections' = [elections EXCEPT ![e].role = "contending"]
    /\ UNCHANGED <<surfaces, retiring, current, manager, by, lost, turns>>

(* becomeMaster, as far as the CLAIM: a surface that nobody serves any more  *)
(* is declined.                                                              *)
Win(e) ==
    /\ elections[e].role = "contending" /\ turns < MaxTurns
    /\ surfaces # <<>>
    /\ elections' = [elections EXCEPT ![e].role = "claiming"]
    /\ turns' = turns + 1
    /\ UNCHANGED <<surfaces, retiring, current, manager, by, lost>>

(* The consumers of list, which an election e takes one after the other, are *)
(* started as far as the first of them.                                      *)
StartFirst(e, list) == by' = IF list = <<>> THEN by ELSE [by EXCEPT ![Head(list)] = e]

(* The CLAIM is out: startSurface starts the consumers registered by now, one*)
(* after the other, in the order of registration.                            *)
StartSurface(e) ==
    /\ elections[e].role = "claiming"
    /\ elections' = [elections EXCEPT ![e].role = "master", ![e].todo = surfaces]
    /\ StartFirst(e, surfaces)
    /\ UNCHANGED <<surfaces, retiring, current, manager, lost, turns>>

(* The start of the consumer at the head has returned.                       *)
Started(e) ==
    /\ elections[e].role = "master" /\ elections[e].todo # <<>>
    /\ elections' = [elections EXCEPT ![e].todo = Tail(@)]
    /\ StartFirst(e, Tail(elections[e].todo))
    /\ UNCHANGED <<surfaces, retiring, current, manager, lost, turns>>

Found == IF surfaces # <<>> THEN surfaces ELSE retiring

(* A slip: the consumers are stopped in the order they were started in.      *)
ToStopInOrder == Found

(* The consumers stopSurface finds, newest first.                            *)
ToStop == [k \in DOMAIN Found |-> Found[Len(Found) - k + 1]]

(* stopConsumerThenResign, as far as the first gate.stop.                    *)
StandDown(e, then) ==
    [elections[e] EXCEPT !.role = "resigning", !.todo = ToStop, !.then = then]

(* The surface goes to another node: a rebalance, a newer build, a wake-up,  *)
(* perhaps one that was in the queue before the stop.                        *)
HandOver(e) ==
    /\ elections[e].role = "master" /\ Idle(e)
    /\ elections' = [elections EXCEPT ![e] = StandDown(e, "contending")]
    /\ UNCHANGED <<surfaces, retiring, current, manager, by, lost, turns>>

(* stop has returned, and with it the await of syncSurface, if it was there: *)
(* the registry forgets what was retiring.                                   *)
StopReturns(e) ==
    /\ elections' = [elections EXCEPT ![e].role = "stopped", ![e].stop = FALSE,
                                      ![e].withdrawn = FALSE]
    /\ IF elections[e].withdrawn THEN retiring' = <<>> /\ LetGo(Range(retiring))
       ELSE UNCHANGED <<retiring, lost>>

(* The stop that was asked for comes up in the queue.                        *)
Stop(e) ==
    /\ elections[e].stop /\ Idle(e)
    /\ IF elections[e].role = "master"
       THEN elections' = [elections EXCEPT ![e] = StandDown(e, "stopped")]
            /\ UNCHANGED <<retiring, lost>>
       ELSE StopReturns(e)
    /\ UNCHANGED <<surfaces, current, manager, by, turns>>

(* The stop of the consumer at the head has returned: it is lost no longer,  *)
(* unless some election still has it on its list.                            *)
Stopped(e) ==
    /\ elections[e].role = "resigning" /\ elections[e].todo # <<>>
    /\ elections' = [elections EXCEPT ![e].todo = Tail(@)]
    /\ LET c == Head(elections[e].todo)
       IN  /\ by' = [by EXCEPT ![c] = None]
           /\ lost' = IF \E d \in Made : Held(d) /\ c \in Range(elections'[d].todo)
                      THEN lost ELSE lost \ {c}
    /\ UNCHANGED <<surfaces, retiring, current, manager, turns>>

(* Every stop has returned: only now does RESIGN go out.                     *)
Resign(e) ==
    /\ elections[e].role = "resigning" /\ elections[e].todo = <<>>
    /\ IF elections[e].then = "stopped" THEN StopReturns(e)
       ELSE elections' = [elections EXCEPT ![e].role = "contending"]
            /\ UNCHANGED <<retiring, lost>>
    /\ UNCHANGED <<surfaces, current, manager, by, turns>>

-----------------------------------------------------------------------------
(* The node manager, ClusterElection.                                        *)

StartManager ==
    /\ manager = "new" /\ manager' = "on"
    /\ SyncSurface(surfaces)
    /\ UNCHANGED <<surfaces, retiring, by, lost, turns>>

(* stop asks the elections the manager still knows to stop ...               *)
StopManager ==
    /\ manager = "on"
    /\ manager' = "stopping"
    /\ elections' = IF current = None THEN elections ELSE StopRequested(current, FALSE)
    /\ UNCHANGED <<surfaces, retiring, current, by, lost, turns>>

(* A slip: the stops are not awaited.                                        *)
AllHaveBeenAsked == manager = "stopping"

(* ... and returns when they have.                                           *)
AllHaveStopped == manager = "stopping" /\ (current # None => ~elections[current].stop)

ManagerStopped ==
    /\ AllHaveStopped
    /\ manager' = "off" /\ current' = None
    /\ UNCHANGED <<surfaces, retiring, elections, by, lost, turns>>

-----------------------------------------------------------------------------
ElectionStep(e) ==
    \/ Boot(e) \/ Win(e) \/ StartSurface(e) \/ Started(e) \/ HandOver(e) \/ Stop(e)
    \/ Stopped(e) \/ Resign(e)

Next ==
    \/ \E c \in Consumer : Register(c) \/ Unregister(c)
    \/ \E e \in Made : ElectionStep(e)
    \/ StartManager \/ StopManager \/ ManagerStopped

Spec == Init /\ [][Next]_vars

(* Starts and stops return, and what an election has queued comes up.        *)
Fairness ==
    \A e \in 1..MaxElections :
        /\ WF_vars(e \in Made /\ (Boot(e) \/ StartSurface(e) \/ Started(e) \/ Stopped(e)
                                  \/ Resign(e)))
        /\ WF_vars(e \in Made /\ Stop(e))

FairSpec == Spec /\ Fairness

-----------------------------------------------------------------------------
(* Properties.                                                               *)

(* Registry, elections and manager have their shape.                         *)
TypeOK ==
    /\ surfaces \in Seq(Consumer) /\ retiring \in Seq(Consumer)
    /\ elections \in Seq(Election) /\ current \in Made \cup {None}
    /\ manager \in {"new", "on", "stopping", "off"}
    /\ by \in [Consumer -> Made \cup {None}] /\ lost \subseteq Consumer
    /\ turns \in 0 .. MaxTurns

(* "Leaving with a RESIGN means asserting to the whole network that this     *)
(* node has stopped reading" (surface-registry.ts, on retiring): whatever    *)
(* reads and was not lost was started by an election that has not resigned.  *)
ResignIsTrue == \A c \in Consumer \ lost : by[c] # None => Held(by[c])

(* No election made before e is there, and none was made since.              *)
Alone(e) == ~elections[e].after /\ e = Len(elections)

(* "They start in registration order and stop in the reverse, so a consumer  *)
(* another depends on is up first and down last" (surface-registry.ts,       *)
(* register).                                                                *)
UpFirstDownLast ==
    \A i, j \in DOMAIN surfaces :
        LET c == surfaces[j]
        IN  i < j /\ by[c] # None /\ Alone(by[c]) /\ c \notin lost
            => by[surfaces[i]] = by[c]

(* "Holding a seat with nothing behind it is the starvation case this file   *)
(* exists to prevent" (surface-registry.ts, register): an election that holds*)
(* the surface reads it, unless it is about to stop or one beside it may have*)
(* stopped what it had started.                                              *)
HoldsNoEmptySeat ==
    \A e \in Made :
        LET el == elections[e]
        IN  el.role = "master" /\ Idle(e) /\ Alone(e) /\ ~el.stop /\ ~el.missed
            => \E c \in Consumer : by[c] = e

(* "Leave every election cleanly, then close the socket" (election-node.ts,  *)
(* stop): once the manager has stopped, nothing reads but what was lost and  *)
(* what belongs to an election it did not know, withdrawn, or that its stop  *)
(* had found booting.                                                        *)
NothingOutlivesTheManager ==
    manager = "off" => \A c \in Consumer \ lost :
        by[c] # None => elections[by[c]].withdrawn \/ elections[by[c]].missed

(* A consumer that is unregistered ends up stopped, unless it is registered  *)
(* again, was lost, or read for an election that a stop had found booting.   *)
UnregisteredGoesQuiet ==
    \A c \in Consumer :
        c \notin Registered ~> \/ by[c] = None \/ c \in Registered \cup lost
                               \/ elections[by[c]].missed

=============================================================================
