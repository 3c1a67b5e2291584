--------------------------- MODULE SurfaceElection --------------------------
(***************************************************************************)
(* The leader election of ONE inbound surface, run by every node that can  *)
(* serve it.                                                               *)
(*                                                                         *)
(* The election of a node and its handlers are those of SurfaceNode; this  *)
(* module puts the nodes on one network and one clock, and lets the        *)
(* environment start, stop, crash, suspend and separate them.              *)
(***************************************************************************)
EXTENDS SurfaceNode

CONSTANTS
    MaxDelay,           \* ticks a datagram that is not lost is in flight
    Timely,             \* TRUE: nothing due is postponed past a tick
    CalmBoot,           \* TRUE: a node boots only while no other is taking over
    StartMayFail, StopMayFail,  \* gate.start, gate.stop may throw
    Limits,             \* the environments considered: in one of them, l,
                        \* the fault f happens l[f] times at most
    MaxBacklog          \* bound on queues and channels: time waits for longer ones

Fault == {"boot", "crash", "sleep", "lose", "split", "conflict", "shutdown", "withdraw"}

ASSUME ElectionAssumption ==
    /\ MaxDelay \in Nat /\ MaxBacklog \in Nat
    /\ {Timely, CalmBoot, StartMayFail, StopMayFail} \subseteq BOOLEAN
    /\ Limits \subseteq [Fault -> Nat]

VARIABLES
    st,         \* st[n]: the election object of node n
    power,      \* power[n]: the process of n runs ("on"), leaves the election
                \* ("leaving"), is suspended ("asleep") or does not exist ("off")
    canServe,   \* canServe[n]: the registry has a consumer for the surface
    net,        \* net[m][n]: datagrams in flight from m to n, oldest first
    split,      \* the set of nodes cut off from the others
    left        \* left[f]: how often the environment may still do f

vars == <<st, power, canServe, net, split, left>>

Init ==
    /\ st = [n \in Node |-> NewElection]
    /\ power = [n \in Node |-> "off"]
    /\ canServe = [n \in Node |-> TRUE]
    /\ net = [m \in Node |-> [n \in Node |-> <<>>]]
    /\ split = {}
    /\ left \in Limits

-----------------------------------------------------------------------------
(* The network: broadcast, unordered across senders, lossy.  A datagram that *)
(* is overtaken by a later one of its sender is dropped by its sequence      *)
(* number, so each pair of nodes has a queue whose head may be lost.         *)

Alive(n) == power[n] \in {"on", "leaving"}

Reaches(m, n) == m # n /\ Alive(n) /\ (m \in split <=> n \in split)

Stamped(out) == [k \in 1..Len(out) |-> [type |-> out[k], due |-> MaxDelay]]

(* Node n goes on as s, and what s says is broadcast.                        *)
Commit(n, s) ==
    /\ st' = [st EXCEPT ![n] = [s EXCEPT !.out = <<>>]]
    /\ net' = [net EXCEPT ![n] = [m \in Node |->
                 IF Reaches(n, m) THEN @[m] \o Stamped(s.out) ELSE @[m]]]

(* The node manager hands a datagram to the election it keeps for the surface*)
(* and drops it once the surface has been withdrawn.                         *)
Receive(m, n) ==
    /\ Alive(n) /\ net[m][n] # <<>>
    /\ st' = IF canServe[n]
             THEN [st EXCEPT ![n] = Enqueue(@, FromPeer(Head(net[m][n]).type, m))]
             ELSE st
    /\ net' = [net EXCEPT ![m][n] = Tail(@)]
    /\ UNCHANGED <<power, canServe, split, left>>

(* A timer callback only appends its closure to the queue; nothing that      *)
(* clears the timer afterwards takes the closure out again.                  *)
Fire(n, t) ==
    /\ Alive(n) /\ st[n].timer[t] = 0
    /\ st' = [st EXCEPT ![n] = Enqueue(Arm(@, t, Off), Fired(t, @.handoff))]
    /\ UNCHANGED <<power, canServe, net, split, left>>

Run(n) ==
    /\ Alive(n) /\ st[n].task.op = "none" /\ st[n].queue # <<>>
    /\ \E s \in Outcomes(n, [st[n] EXCEPT !.queue = Tail(@)], canServe[n], Head(st[n].queue)) :
          Commit(n, s)
    /\ UNCHANGED <<power, canServe, split, left>>

(* startSurface logs what gate.start throws and returns as if it had started;*)
(* it also returns when the surface has been unregistered meanwhile.         *)
FinishStart(n) ==
    /\ Alive(n) /\ st[n].task.op = "start"
    /\ \E reads \in {TRUE} \cup {b \in {FALSE} : StartMayFail \/ ~canServe[n]} :
          Commit(n, ConsumerStarted(st[n], reads))
    /\ UNCHANGED <<power, canServe, split, left>>

(* stopSurface does the same with what gate.stop throws.                     *)
FinishStop(n) ==
    /\ Alive(n) /\ st[n].task.op = "stop"
    /\ \E gate \in {"off"} \cup {g \in {"on"} : StopMayFail /\ st[n].gate = "stopping"} :
          Commit(n, Resign(st[n], st[n].task.next, st[n].task.then, gate))
    /\ UNCHANGED <<power, canServe, split, left>>

-----------------------------------------------------------------------------
(* Time.                                                                     *)

(* Nothing due is left undone: the assumption of the timed runs.             *)
Prompt(n) ==
    /\ st[n].task.op = "none" => st[n].queue = <<>>
    /\ st[n].task.op # "none" => st[n].task.left > 0
    /\ \A t \in Timer : st[n].timer[t] # 0
    /\ \A m \in Node : net[m][n] # <<>> => Head(net[m][n]).due > 0

Backlog(n) == Len(st[n].queue) > MaxBacklog \/ \E m \in Node : Len(net[m][n]) > MaxBacklog

Tick ==
    /\ \A n \in Node : Alive(n) => (Timely => Prompt(n)) /\ ~Backlog(n)
    /\ st' = [n \in Node |-> CASE Alive(n)             -> Elapse(st[n])
                               [] power[n] = "asleep"  -> Sleep(st[n])
                               [] OTHER                -> st[n]]
    /\ net' = [m \in Node |-> [n \in Node |->
                 [k \in DOMAIN net[m][n] |->
                    [net[m][n][k] EXCEPT !.due = CountDown(@)]]]]
    /\ UNCHANGED <<power, canServe, split, left>>

-----------------------------------------------------------------------------
(* The environment: what happens to a node, its process, its host, the       *)
(* network and the provider, each at most as often as left allows.           *)

Spend(f) == left[f] > 0 /\ left' = [left EXCEPT ![f] = @ - 1]

TakingOver(n) ==
    /\ Alive(n)
    /\ \/ st[n].role \notin {"stopped", "standby", "master"}
       \/ st[n].task.op # "none" \/ st[n].queue # <<>>

(* The process starts, or the surface is registered: a new election.         *)
Boot(n) ==
    /\ Spend("boot") /\ power[n] = "off"
    /\ CalmBoot => \A m \in Node : ~TakingOver(m)
    /\ power' = [power EXCEPT ![n] = "on"]
    /\ canServe' = [canServe EXCEPT ![n] = TRUE]
    /\ st' = [st EXCEPT ![n] =
                Enqueue(Arm(NewElection, "watchdog", WatchdogPeriod), Signalled("boot"))]
    /\ UNCHANGED <<net, split>>

Discarded(n) == [m \in Node |-> [net[m] EXCEPT ![n] = <<>>]]

(* An election that has been stopped is dropped.                             *)
Exit(n) ==
    /\ power[n] = "leaving"
    /\ st[n].role = "stopped" /\ st[n].task.op = "none" /\ st[n].queue = <<>>
    /\ power' = [power EXCEPT ![n] = "off"]
    /\ st' = [st EXCEPT ![n] = NewElection]
    /\ net' = Discarded(n)
    /\ UNCHANGED <<canServe, split, left>>

(* Crash, kill -9, power cut: nothing is said and nothing is kept.           *)
Crash(n) ==
    /\ Spend("crash") /\ Alive(n)
    /\ power' = [power EXCEPT ![n] = "off"]
    /\ st' = [st EXCEPT ![n] = NewElection]
    /\ net' = Discarded(n)
    /\ UNCHANGED <<canServe, split>>

(* The host is suspended: timers and consumer freeze where they are.         *)
Suspend(n) ==
    /\ Spend("sleep") /\ power[n] = "on"
    /\ power' = [power EXCEPT ![n] = "asleep"]
    /\ UNCHANGED <<st, canServe, net, split>>

Wake(n) ==
    /\ power[n] = "asleep"
    /\ power' = [power EXCEPT ![n] = "on"]
    /\ UNCHANGED <<st, canServe, net, split, left>>

Lose(m, n) ==
    /\ Spend("lose") /\ net[m][n] # <<>>
    /\ net' = [net EXCEPT ![m][n] = Tail(@)]
    /\ UNCHANGED <<st, power, canServe, split>>

Partition(n) ==
    /\ Spend("split") /\ split = {}
    /\ split' = {n}
    /\ UNCHANGED <<st, power, canServe, net>>

Heal ==
    /\ split # {} /\ split' = {}
    /\ UNCHANGED <<st, power, canServe, net, left>>

(* reportConsumerConflict: the provider refuses the consumer of n.           *)
Conflict(n) ==
    /\ Spend("conflict") /\ power[n] = "on" /\ st[n].gate = "on"
    /\ st' = [st EXCEPT ![n] = Enqueue(@, Signalled("conflict"))]
    /\ UNCHANGED <<power, canServe, net, split>>

(* SurfaceElection.stop, for a node that shuts down (serves stays TRUE) or   *)
(* whose last consumer of the surface is unregistered.  Either way the       *)
(* watchdog no longer visits the election.                                   *)
Leave(n, serves) ==
    /\ power[n] = "on" /\ st[n].role # "stopped"
    /\ power' = [power EXCEPT ![n] = "leaving"]
    /\ canServe' = [canServe EXCEPT ![n] = serves]
    /\ st' = [st EXCEPT ![n] = Enqueue(Disarm(@, {"watchdog"}), Signalled("stop"))]
    /\ UNCHANGED <<net, split>>

Shutdown(n) == Spend("shutdown") /\ Leave(n, TRUE)
Withdraw(n) == Spend("withdraw") /\ Leave(n, FALSE)

-----------------------------------------------------------------------------
(* What the software does, as fast or as slowly as it likes.                 *)
NodeStep(n) ==
    \/ \E m \in Node : Receive(m, n)
    \/ \E t \in Timer : Fire(n, t)
    \/ Run(n)
    \/ FinishStart(n)
    \/ FinishStop(n)
    \/ Exit(n)

Work == \E n \in Node : NodeStep(n)

(* What happens to it.                                                       *)
Environment ==
    \/ \E n \in Node :
          \/ Boot(n) \/ Crash(n) \/ Suspend(n) \/ Wake(n)
          \/ Partition(n) \/ Conflict(n) \/ Shutdown(n) \/ Withdraw(n)
          \/ \E m \in Node : Lose(m, n)
    \/ Heal

Next == Work \/ Environment \/ Tick

Spec == Init /\ [][Next]_vars

(* The nodes go on working and time passes; which timer, queue or gate is    *)
(* next is left open.  The network, the hosts and the provider promise       *)
(* nothing.                                                                  *)
Fairness == WF_vars(Work) /\ WF_vars(Tick)

FairSpec == Spec /\ Fairness

-----------------------------------------------------------------------------
(* Properties.                                                               *)

InFlight == [type : Datagram, due : Nat]

(* The state of every node, channel and budget has its shape.                *)
TypeOK ==
    /\ st \in [Node -> Election]
    /\ power \in [Node -> {"on", "leaving", "asleep", "off"}]
    /\ canServe \in [Node -> BOOLEAN]
    /\ net \in [Node -> [Node -> Seq(InFlight)]]
    /\ split \subseteq Node
    /\ left \in [Fault -> Nat]

Reading(n) == Alive(n) /\ st[n].gate # "off"

(* The invariant of the header of election.ts: at most one node has the      *)
(* consumer of the surface running, and a successor does not even begin to   *)
(* start it before the predecessor has finished stopping.                    *)
SingleConsumer == \A m, n \in Node : Reading(m) /\ Reading(n) => m = n

(* A consumer runs only in a node whose role answers for it: no transition   *)
(* (a late closure, a conflict, a wake-up, a stop) leaves the holder's role  *)
(* behind while the consumer goes on reading.                                *)
ConsumerOnlyUnderTenure ==
    \A n \in Node : st[n].gate # "off" => st[n].role \in {"master", "resigning"}

(* The node whose tenure it is, while the nodes take turns.                  *)
reader == IF \E n \in Node : Reading(n) THEN CHOOSE n \in Node : Reading(n) ELSE NoNode

Tenure == INSTANCE SurfaceTenure WITH
              phase <- IF reader = NoNode THEN "off" ELSE st[reader].gate

(* The nodes take turns at reading, as SurfaceTenure has it.                 *)
ReadInTurns == Tenure!Spec

(* RESIGN is a claim that consumption has ceased: as long as it is the last  *)
(* thing a node said, that node's consumer is off.                           *)
ResignIsHonest ==
    \A m, n \in Node :
        LET said == net[m][n]
        IN  said # <<>> /\ said[Len(said)].type = "RESIGN" => st[m].gate = "off"

(* An election that has been stopped stays out of the surface.               *)
StopIsFinal ==
    [][\A n \in Node :
          power[n] = "leaving" /\ st[n].role = "stopped" => st'[n].role = "stopped"]_vars

ReadByExactlyOne ==
    \E n \in Node : /\ Reading(n) /\ st[n].gate = "on"
                    /\ \A m \in Node \ {n} : ~Reading(m)

Settled == split = {} /\ (\E n \in Node : power[n] = "on")
                      /\ (\A n \in Node : power[n] # "asleep")

(* Whatever went wrong before: once the network is whole and the hosts are   *)
(* awake, the surface ends up read, and read by exactly one node, for good.  *)
SurfaceEndsUpWithOneReader == <>[]Settled => <>[]ReadByExactlyOne

=============================================================================
