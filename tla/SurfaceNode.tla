----------------------------- MODULE SurfaceNode -----------------------------
(***************************************************************************)
(* One node's side of the election of one inbound surface: the object      *)
(* SurfaceElection of cluster/election.ts and what the node manager        *)
(* (cluster/election-node.ts) and the surface registry do for it.          *)
(*                                                                         *)
(* A node's election is a role, a consumer, some timers and a queue: every *)
(* datagram, fired timer and outside signal is appended to the queue, and  *)
(* the queue runs one item at a time.  An item that starts or stops the    *)
(* consumer suspends the queue until the consumer has started or stopped.  *)
(*                                                                         *)
(* Every handler is an operator from the record of the election to the     *)
(* record after it, with the datagrams it broadcasts appended to its field *)
(* out.  A definition that a comment calls a slip is what a small mistake  *)
(* would make of the definition after it; nothing uses it.                 *)
(***************************************************************************)
EXTENDS SurfaceRanking, ClusterTiming, Sequences, FiniteSets

CONSTANTS
    NoNode,             \* null where the code keeps a node id or null
    MaxStart, MaxStop   \* ticks gate.start and gate.stop take at most

ASSUME NodeAssumption ==
    /\ NoNode \notin Node
    /\ MaxStart \in Nat /\ MaxStop \in Nat

Role == {"stopped", "probing", "standby", "electing", "awaiting-handoff",
         "master", "resigning"}
Datagram == {"PROBE", "CLAIM", "HEARTBEAT", "RESIGN"}
Timer == {"probe", "reprobe", "election", "settle", "handoff", "candidacy",
          "heartbeat", "yield", "watchdog"}
Signal == {"boot", "stop", "conflict", "wake", "timeout"}
Handoff == {"ordered", "gap"}
Off == -1       \* a timer that is not armed
Never == -1     \* lastHolderHeartbeatMono = null

(* lastHolderHeartbeatAt, as far as a replay from it goes: null, or whether  *)
(* it lies before something published since ("early") or not ("recent").     *)
HeardAt == {"null", "early", "recent"}

(* An entry of the queue: a datagram and its sender, a fired timer with the  *)
(* handoff its closure captured, or a signal.                                *)
Item == [kind : Datagram \cup Timer \cup Signal, from : Node \cup {NoNode},
         handoff : Handoff]
FromPeer(d, m) == [kind |-> d, from |-> m, handoff |-> "ordered"]
Fired(t, h) == [kind |-> t, from |-> NoNode, handoff |-> h]
Signalled(g) == [kind |-> g, from |-> NoNode, handoff |-> "ordered"]

(* What the queue awaits: nothing, the consumer's start, or its stop, after  *)
(* which the surface is released to next and the handler goes on with then.  *)
Continuation == {"standby", "reprobe", "stopped", "probe"}
Task == [op : {"none", "start", "stop"}, left : Nat, next : Node \cup {NoNode},
         then : Continuation]
NoTask == [op |-> "none", left |-> 0, next |-> NoNode, then |-> "standby"]

(* What the gate is really doing, whatever the election believes.            *)
Gate == {"off", "starting", "on", "stopping"}

(* The election object.                                                      *)
Election ==
    [role : Role, running : BOOLEAN, gate : Gate, holder : Node \cup {NoNode},
     heard : Nat \cup {Never}, heardAt : HeardAt, claimed : BOOLEAN,
     target : Node \cup {NoNode}, handoff : Handoff,
     timer : [Timer -> Nat \cup {Off}], queue : Seq(Item), task : Task,
     slept : Nat, out : Seq(Datagram)]

NewElection ==
    [role |-> "stopped", running |-> FALSE, gate |-> "off", holder |-> NoNode,
     heard |-> Never, heardAt |-> "null", claimed |-> FALSE, target |-> NoNode,
     handoff |-> "ordered", timer |-> [t \in Timer |-> Off], queue |-> <<>>, task |-> NoTask,
     slept |-> 0, out |-> <<>>]

-----------------------------------------------------------------------------
(* Role transitions, as operators on the election record s.                  *)

Enqueue(s, i) == [s EXCEPT !.queue = Append(@, i)]

Send(s, d) == [s EXCEPT !.out = Append(@, d)]

Arm(s, t, d) == [s EXCEPT !.timer[t] = d]

Disarm(s, ts) ==
    [s EXCEPT !.timer = [t \in Timer |-> IF t \in ts THEN Off ELSE s.timer[t]]]

ElectionTimers == {"probe", "reprobe", "election", "settle", "handoff", "candidacy"}

ClearElectionTimers(s) == Disarm(s, ElectionTimers)

(* A slip: the timers are cleared when the probe has been armed already.      *)
ProbeThenClear(s) ==
    ClearElectionTimers(Arm(Send([s EXCEPT !.role = "probing", !.target = NoNode], "PROBE"),
                            "probe", BootProbe))
BeginProbe(s) ==
    LET p == [ClearElectionTimers(s) EXCEPT !.role = "probing", !.target = NoNode]
    IN  Arm(Send(p, "PROBE"), "probe", BootProbe)

BeginElection(s, handoff, jitter) ==
    LET e == [ClearElectionTimers(s) EXCEPT !.role = "electing", !.claimed = FALSE,
                                            !.handoff = handoff]
    IN  Arm(e, "election", jitter)

SendClaim(s) == Send([s EXCEPT !.claimed = TRUE], "CLAIM")

(* A slip: the holder to come is not timed from now.                         *)
BecomeStandbyUntimed(s, m) ==
    LET b == [ClearElectionTimers(s) EXCEPT
                !.role = "standby", !.target = NoNode,
                !.holder = IF m = NoNode THEN @ ELSE m]
    IN  Arm(b, "candidacy", CandidacyPeriod)

BecomeStandby(s, m) ==
    LET b == [ClearElectionTimers(s) EXCEPT
                !.role = "standby", !.target = NoNode,
                !.holder = IF m = NoNode THEN @ ELSE m,
                !.heard = IF @ = Never THEN 0 ELSE @]
    IN  Arm(b, "candidacy", CandidacyPeriod)

(* Up to the await of startConsumer: claim first, then start reading.        *)
BecomeMaster(s, serves, handoff) ==
    IF ~serves THEN BecomeStandby(s, NoNode)
    ELSE Send([ClearElectionTimers(s) EXCEPT
                  !.role = "master", !.target = NoNode, !.gate = "starting",
                  !.handoff = handoff,
                  !.task = [NoTask EXCEPT !.op = "start", !.left = MaxStart]],
              "CLAIM")

(* The rest of becomeMaster, once startConsumer has returned.                *)
ConsumerStarted(s, reads) ==
    LET c == [s EXCEPT !.running = TRUE, !.task = NoTask,
                       !.gate = IF reads THEN "on" ELSE "off"]
    IN  Send(Arm(Arm(c, "heartbeat", HeartbeatPeriod), "yield", YieldPeriod), "HEARTBEAT")

(* What the caller of stopConsumerThenResign does after it returned.         *)
Continue(s, next, then) ==
    CASE then = "standby" -> BecomeStandby(s, next)
      [] then = "reprobe" -> Arm(BecomeStandby(s, NoNode), "reprobe", ConflictBackoff)
      [] then = "stopped" -> Disarm([s EXCEPT !.role = "stopped"], Timer \ {"watchdog"})
      [] then = "probe"   -> BeginProbe([s EXCEPT !.heard = Never, !.heardAt = "null",
                                                     !.holder = NoNode])

(* stopConsumerThenResign after the stop: only now does RESIGN go out.       *)
Resign(s, next, then, gate) ==
    LET r == [s EXCEPT !.running = FALSE, !.gate = gate, !.task = NoTask,
                       !.holder = next, !.heard = 0, !.heardAt = "recent"]
    IN  Continue(Send(r, "RESIGN"), next, then)

(* A slip: the two lines of the handoff reversed.                            *)
ResignThenStopConsumer(s, next, then) ==
    LET r == Disarm([s EXCEPT !.role = "resigning"], {"heartbeat", "yield"})
    IN  IF s.running
        THEN Send([r EXCEPT !.gate = IF @ = "on" THEN "stopping" ELSE @,
                            !.task = [op |-> "stop", left |-> MaxStop, next |-> next,
                                      then |-> then]], "RESIGN")
        ELSE Resign(r, next, then, s.gate)

(* stopConsumerThenResign up to the await of stopConsumer.                   *)
StopConsumerThenResign(s, next, then) ==
    LET r == Disarm([s EXCEPT !.role = "resigning"], {"heartbeat", "yield"})
    IN  IF s.running
        THEN [r EXCEPT !.gate = IF @ = "on" THEN "stopping" ELSE @,
                       !.task = [op |-> "stop", left |-> MaxStop, next |-> next,
                                 then |-> then]]
        ELSE Resign(r, next, then, s.gate)

(* A slip: the newer build does not wait for the handoff.                    *)
PreemptAtOnce(s, m) == BecomeMaster(s, TRUE, "ordered")

BeginPreemption(s, m) ==
    LET p == [ClearElectionTimers(s) EXCEPT !.role = "awaiting-handoff", !.target = m]
    IN  Arm(Send(p, "CLAIM"), "handoff", PreemptGrace)

-----------------------------------------------------------------------------
(* The handlers of node n.  Each is the set of records it may leave behind:  *)
(* the jitter of an election and the moment of a yield are open.             *)

Elections(s, handoff, window) == {BeginElection(s, handoff, j) : j \in 0..window}

OnProbe(s) == IF s.role = "master" THEN Send(s, "HEARTBEAT") ELSE s

(* Two slips: the worse of two holders forgets its consumer; both go on.     *)
ReconcileWithoutStop(n, s, m) ==
    IF OutranksStably(m, n) THEN BecomeStandby(s, m) ELSE Send(s, "HEARTBEAT")

ReconcileByIgnoring(n, s, m) == s

(* Two holders of one surface: the worse one in the stable order hands over. *)
ReconcileWithPeerHolder(n, s, m) ==
    IF OutranksStably(m, n) THEN StopConsumerThenResign(s, m, "standby")
    ELSE Send(s, "HEARTBEAT")

OnHeartbeat(n, s, m) ==
    LET h == [s EXCEPT !.heard = 0, !.heardAt = "recent",     \* noteHolderAlive
                       !.holder = IF s.role = "master" THEN @ ELSE m]
    IN  CASE s.role = "probing" ->
               IF StrictlyNewer(n, m) THEN BeginPreemption(h, m) ELSE BecomeStandby(h, m)
          [] s.role = "electing" -> BecomeStandby(h, m)
          [] s.role = "awaiting-handoff" ->
               IF m # s.target /\ ~StrictlyNewer(n, m) THEN BecomeStandby(h, m) ELSE h
          [] s.role = "master" -> ReconcileWithPeerHolder(n, h, m)
          [] OTHER -> h

OnClaim(n, s, m) ==
    CASE s.role = "master" ->
           IF StrictlyNewer(m, n) THEN StopConsumerThenResign(s, m, "standby")
           ELSE Send(s, "HEARTBEAT")
      [] s.role \in {"electing", "probing"} ->
           IF OutranksForSurface(n, m, n) THEN BecomeStandby(s, m)
           ELSE IF s.claimed THEN s ELSE SendClaim(s)
      [] s.role = "awaiting-handoff" ->
           IF OutranksForSurface(n, m, n) THEN BecomeStandby(s, m) ELSE s
      [] OTHER -> s

OnResign(s, serves, m) ==
    IF s.role = "awaiting-handoff" /\ m = s.target
    THEN {BecomeMaster(s, serves, "ordered")}
    ELSE IF s.role = "standby" /\ s.holder \in {NoNode, m}
    THEN Elections([s EXCEPT !.holder = NoNode], "ordered", ResignWindow)
    ELSE {s}

Dispatch(n, s, serves, i) ==
    IF s.role \in {"stopped", "resigning"} THEN {s}
    ELSE CASE i.kind = "PROBE"     -> {OnProbe(s)}
           [] i.kind = "HEARTBEAT" -> {OnHeartbeat(n, s, i.from)}
           [] i.kind = "CLAIM"     -> {OnClaim(n, s, i.from)}
           [] i.kind = "RESIGN"    -> OnResign(s, serves, i.from)

(* A slip: a surface is yielded with its consumer running.                   *)
YieldWithoutStop(n, s) ==
    {Arm(s, "yield", YieldPeriod)} \cup
    {BecomeStandby(Send(s, "RESIGN"), m) :
        m \in {m \in Node \ {n} : ShouldYieldSurface(Load[n][n] + 1, Load[n][m])}}

(* considerYield: to a node that holds at least two surfaces fewer, unless   *)
(* none was heard from lately or the node's yield slot was used lately.      *)
ConsiderYield(n, s) ==
    {Arm(s, "yield", YieldPeriod)} \cup
    {StopConsumerThenResign(s, m, "standby") :
        m \in {m \in Node \ {n} : ShouldYieldSurface(Load[n][n] + 1, Load[n][m])}}

(* A slip: the closure of the boot probe does not look at the role again.    *)
OnTimerUnchecked(n, s, serves, i) ==
    CASE i.kind = "probe"                       -> {BecomeMaster(s, serves, "ordered")}
      [] i.kind = "reprobe"                     -> {BeginProbe(s)}
      [] i.kind = "heartbeat" /\ s.role = "master" ->
           {Arm(Send(s, "HEARTBEAT"), "heartbeat", HeartbeatPeriod)}
      [] OTHER                                  -> {s}

OnTimer(n, s, serves, i) ==
    CASE i.kind = "probe" /\ s.role = "probing"   -> {BecomeMaster(s, serves, "ordered")}
      [] i.kind = "reprobe"                       -> {BeginProbe(s)}
      [] i.kind = "election" /\ s.role = "electing" ->
           {Arm(SendClaim([s EXCEPT !.handoff = i.handoff]), "settle", ClaimSettle)}
      [] i.kind = "settle" /\ s.role = "electing" -> {BecomeMaster(s, serves, i.handoff)}
      [] i.kind = "handoff" /\ s.role = "awaiting-handoff" ->
           {BecomeMaster(s, serves, "gap")}
      [] i.kind = "candidacy" /\ s.role = "standby" ->
           {Arm(Send(s, "PROBE"), "candidacy", CandidacyPeriod)}
      [] i.kind = "heartbeat" /\ s.role = "master" ->
           {Arm(Send(s, "HEARTBEAT"), "heartbeat", HeartbeatPeriod)}
      [] i.kind = "yield" /\ s.role = "master"   -> ConsiderYield(n, s)
      [] OTHER                                   -> {s}

(* A slip: a conflict and a wake-up probe again with the consumer still      *)
(* running, and a holder that vanished is succeeded without a replay.        *)
OnSignalForgetful(s, i) ==
    CASE i.kind = "stop" ->
           {IF s.role = "master" THEN StopConsumerThenResign(s, NoNode, "stopped")
            ELSE Continue(s, NoNode, "stopped")}
      [] i.kind = "timeout" /\ s.role = "standby" ->
           Elections(s, "ordered", ElectionWindow)
      [] OTHER -> {BeginProbe(s)}

OnSignal(s, i) ==
    CASE i.kind = "boot" -> {BeginProbe(s)}
      [] i.kind = "stop" ->
           {IF s.role = "master" THEN StopConsumerThenResign(s, NoNode, "stopped")
            ELSE Continue(s, NoNode, "stopped")}
      [] i.kind = "conflict" ->
           {IF s.role = "master" THEN StopConsumerThenResign(s, NoNode, "reprobe") ELSE s}
      [] i.kind = "wake" ->
           {CASE s.role = "stopped" -> s
              [] s.role = "master"  -> StopConsumerThenResign(s, NoNode, "probe")
              [] OTHER              -> Continue(s, NoNode, "probe")}
      [] i.kind = "timeout" ->
           IF s.role = "standby" THEN Elections(s, "gap", ElectionWindow) ELSE {s}

Outcomes(n, s, serves, i) ==
    CASE i.kind \in Datagram -> Dispatch(n, s, serves, i)
      [] i.kind \in Timer    -> OnTimer(n, s, serves, i)
      [] i.kind \in Signal   -> OnSignal(s, i)

-----------------------------------------------------------------------------
(* Time.  The watchdog is the one timer whose callback does not queue: it    *)
(* looks at the election and queues a wake-up or a timeout when there is one.*)

Watchdog(s) ==
    LET w == [Arm(s, "watchdog", WatchdogPeriod) EXCEPT !.slept = 0]
    IN  IF s.slept >= SuspendThreshold
        THEN IF s.role = "stopped" THEN w ELSE Enqueue(w, Signalled("wake"))
        ELSE IF s.role = "standby" /\ s.heard >= MasterTimeout
        THEN Enqueue(w, Signalled("timeout"))
        ELSE w

CountDown(d) == IF d > 0 THEN d - 1 ELSE d

Elapse(s) ==
    LET e == [s EXCEPT !.timer = [t \in Timer |-> CountDown(@[t])],
                       !.heard = IF @ \in {Never, MasterTimeout} THEN @ ELSE @ + 1,
                       !.task.left = CountDown(@)]
    IN  IF e.timer["watchdog"] = 0 THEN Watchdog(e) ELSE e

Sleep(s) == [s EXCEPT !.slept = IF @ = SuspendThreshold THEN @ ELSE @ + 1]

=============================================================================
