----------------------- MODULE SurfaceElection_proofs -----------------------
(***************************************************************************)
(* Theorems about the election of one surface, for any number of nodes,    *)
(* any timing and any faults but those a theorem excludes by name.         *)
(*                                                                         *)
(* First what the handlers of SurfaceNode preserve, one lemma per operator:*)
(* the shape of the election object, then the bond between its role and its*)
(* consumer.  The theorems about all nodes follow.                         *)
(***************************************************************************)
EXTENDS SurfaceElection, SequenceTheorems, TLAPS

Peer == Node \cup {NoNode}

-----------------------------------------------------------------------------
(* The intervals are natural numbers.                                        *)

(* Every interval that deriveClusterTiming returns is a natural number.      *)
LEMMA IntervalsAreNat ==
    /\ HeartbeatPeriod \in Nat /\ MasterTimeout \in Nat /\ BootProbe \in Nat
    /\ ElectionWindow \in Nat /\ ResignWindow \in Nat /\ ClaimSettle \in Nat
    /\ PreemptGrace \in Nat /\ WatchdogPeriod \in Nat /\ SuspendThreshold \in Nat
    /\ ConflictBackoff \in Nat /\ CandidacyPeriod \in Nat /\ YieldPeriod \in Nat
<1>1. HeartbeatPeriod \in Nat /\ MasterTimeout \in Nat /\ BootProbe \in Nat
  BY TimingAssumption
<1>2. \A d \in Nat : AtLeastATick(d) \in Nat
  BY DEF AtLeastATick
<1>3. \A d \in {2, 3, 4, 6} : MasterTimeout \div d \in Nat
  BY <1>1
<1>4. ElectionWindow \in Nat
  BY <1>2, <1>3 DEF ElectionWindow
<1>5. ElectionWindow \div 2 \in Nat
  BY <1>4
<1> QED
  BY <1>1, <1>2, <1>3, <1>4, <1>5
  DEF ResignWindow, ClaimSettle, PreemptGrace, WatchdogPeriod, SuspendThreshold,
      ConflictBackoff, CandidacyPeriod, YieldPeriod

-----------------------------------------------------------------------------
(* Types.                                                                    *)

LEMMA SendType ==
  ASSUME NEW s \in Election, NEW d \in Datagram
  PROVE  Send(s, d) \in Election
<1>1. Append(s.out, d) \in Seq(Datagram)
  BY AppendProperties DEF Election
<1> QED BY <1>1 DEF Send, Election

LEMMA EnqueueType ==
  ASSUME NEW s \in Election, NEW i \in Item
  PROVE  Enqueue(s, i) \in Election
<1>1. Append(s.queue, i) \in Seq(Item)
  BY AppendProperties DEF Election
<1> QED BY <1>1 DEF Enqueue, Election

LEMMA ArmType ==
  ASSUME NEW s \in Election, NEW t \in Timer, NEW d \in Nat \cup {Off}
  PROVE  Arm(s, t, d) \in Election
BY DEF Arm, Election

LEMMA DisarmType ==
  ASSUME NEW s \in Election, NEW ts
  PROVE  Disarm(s, ts) \in Election
<1>1. [t \in Timer |-> IF t \in ts THEN Off ELSE s.timer[t]] \in [Timer -> Nat \cup {Off}]
  BY DEF Election
<1> QED BY <1>1 DEF Disarm, Election

LEMMA BeginProbeType ==
  ASSUME NEW s \in Election
  PROVE  BeginProbe(s) \in Election
<1> DEFINE c == ClearElectionTimers(s)
           p == [c EXCEPT !.role = "probing", !.target = NoNode]
<1>1. c \in Election
  BY DisarmType DEF ClearElectionTimers
<1>2. p \in Election
  BY <1>1 DEF Election, Role
<1>3. Send(p, "PROBE") \in Election
  BY <1>2, SendType DEF Datagram
<1>4. Arm(Send(p, "PROBE"), "probe", BootProbe) \in Election
  BY <1>3, ArmType, IntervalsAreNat DEF Timer
<1> QED BY <1>4 DEF BeginProbe

LEMMA BeginElectionType ==
  ASSUME NEW s \in Election, NEW handoff \in Handoff, NEW jitter \in Nat
  PROVE  BeginElection(s, handoff, jitter) \in Election
<1> DEFINE c == ClearElectionTimers(s)
           e == [c EXCEPT !.role = "electing", !.claimed = FALSE, !.handoff = handoff]
<1>1. c \in Election
  BY DisarmType DEF ClearElectionTimers
<1>2. e \in Election
  BY <1>1 DEF Election, Role
<1>3. Arm(e, "election", jitter) \in Election
  BY <1>2, ArmType DEF Timer
<1> QED BY <1>3 DEF BeginElection

LEMMA SendClaimType ==
  ASSUME NEW s \in Election
  PROVE  SendClaim(s) \in Election
<1>1. [s EXCEPT !.claimed = TRUE] \in Election
  BY DEF Election
<1> QED BY <1>1, SendType DEF SendClaim, Datagram

LEMMA BecomeStandbyType ==
  ASSUME NEW s \in Election, NEW m \in Peer
  PROVE  BecomeStandby(s, m) \in Election
<1> DEFINE c == ClearElectionTimers(s)
           b == [c EXCEPT !.role = "standby", !.target = NoNode,
                          !.holder = IF m = NoNode THEN @ ELSE m,
                          !.heard = IF @ = Never THEN 0 ELSE @]
<1>1. c \in Election
  BY DisarmType DEF ClearElectionTimers
<1>2. b \in Election
  BY ZenonT(60), <1>1 DEF Election, Role, Peer
<1>3. Arm(b, "candidacy", CandidacyPeriod) \in Election
  BY <1>2, ArmType, IntervalsAreNat DEF Timer
<1> QED BY <1>3 DEF BecomeStandby

LEMMA BecomeMasterType ==
  ASSUME NEW s \in Election, NEW serves \in BOOLEAN, NEW handoff \in Handoff
  PROVE  BecomeMaster(s, serves, handoff) \in Election
<1> DEFINE c == ClearElectionTimers(s)
           t == [NoTask EXCEPT !.op = "start", !.left = MaxStart]
           b == [c EXCEPT !.role = "master", !.target = NoNode, !.gate = "starting",
                          !.handoff = handoff, !.task = t]
<1>1. c \in Election
  BY DisarmType DEF ClearElectionTimers
<1>2. t \in Task
  BY NodeAssumption DEF NoTask, Task, Continuation
<1>3. b \in Election
  <2> HIDE DEF c, t
  <2> QED BY <1>1, <1>2 DEF Election, Role, Gate
<1>4. Send(b, "CLAIM") \in Election
  BY <1>3, SendType DEF Datagram
<1>5. BecomeStandby(s, NoNode) \in Election
  BY BecomeStandbyType DEF Peer
<1> QED BY <1>4, <1>5 DEF BecomeMaster

LEMMA NoTaskType == NoTask \in Task
BY DEF NoTask, Task, Continuation

LEMMA ConsumerStartedType ==
  ASSUME NEW s \in Election, NEW reads \in BOOLEAN
  PROVE  ConsumerStarted(s, reads) \in Election
<1> DEFINE c == [s EXCEPT !.running = TRUE, !.task = NoTask,
                          !.gate = IF reads THEN "on" ELSE "off"]
           h == Arm(c, "heartbeat", HeartbeatPeriod)
           y == Arm(h, "yield", YieldPeriod)
<1>1. c \in Election
  BY NoTaskType DEF Election, Gate
<1>2. h \in Election
  BY <1>1, ArmType, IntervalsAreNat DEF Timer
<1>3. y \in Election
  BY <1>2, ArmType, IntervalsAreNat DEF Timer
<1>4. Send(y, "HEARTBEAT") \in Election
  BY <1>3, SendType DEF Datagram
<1> QED BY <1>4 DEF ConsumerStarted

LEMMA ContinueType ==
  ASSUME NEW s \in Election, NEW next \in Peer, NEW then \in Continuation
  PROVE  Continue(s, next, then) \in Election
<1>1. CASE then = "standby"
  BY <1>1, BecomeStandbyType DEF Continue
<1>2. CASE then = "reprobe"
  <2>1. BecomeStandby(s, NoNode) \in Election
    BY BecomeStandbyType DEF Peer
  <2>2. Arm(BecomeStandby(s, NoNode), "reprobe", ConflictBackoff) \in Election
    BY <2>1, ArmType, IntervalsAreNat DEF Timer
  <2> QED BY <1>2, <2>2 DEF Continue
<1>3. CASE then = "stopped"
  <2>1. [s EXCEPT !.role = "stopped"] \in Election
    BY DEF Election, Role
  <2> QED BY <1>3, <2>1, DisarmType DEF Continue
<1>4. CASE then = "probe"
  <2>1. [s EXCEPT !.heard = Never, !.heardAt = "null", !.holder = NoNode] \in Election
    BY DEF Election, HeardAt
  <2> QED BY <1>4, <2>1, BeginProbeType DEF Continue
<1> QED BY <1>1, <1>2, <1>3, <1>4 DEF Continuation

LEMMA ResignType ==
  ASSUME NEW s \in Election, NEW next \in Peer, NEW then \in Continuation,
         NEW gate \in Gate
  PROVE  Resign(s, next, then, gate) \in Election
<1> DEFINE r == [s EXCEPT !.running = FALSE, !.gate = gate, !.task = NoTask,
                          !.holder = next, !.heard = 0, !.heardAt = "recent"]
<1>1. r \in Election
  BY NoTaskType DEF Election, HeardAt, Peer
<1>2. Send(r, "RESIGN") \in Election
  BY <1>1, SendType DEF Datagram
<1> QED BY <1>2, ContinueType DEF Resign

LEMMA StopConsumerThenResignType ==
  ASSUME NEW s \in Election, NEW next \in Peer, NEW then \in Continuation
  PROVE  StopConsumerThenResign(s, next, then) \in Election
<1> DEFINE r == Disarm([s EXCEPT !.role = "resigning"], {"heartbeat", "yield"})
           t == [op |-> "stop", left |-> MaxStop, next |-> next, then |-> then]
<1>1. r \in Election
  <2>1. [s EXCEPT !.role = "resigning"] \in Election
    BY DEF Election, Role
  <2> QED BY <2>1, DisarmType
<1>2. t \in Task
  BY NodeAssumption DEF Task, Peer
<1>3. [r EXCEPT !.gate = IF @ = "on" THEN "stopping" ELSE @, !.task = t] \in Election
  <2> HIDE DEF r, t
  <2> QED BY ZenonT(60), <1>1, <1>2 DEF Election, Gate
<1>4. Resign(r, next, then, s.gate) \in Election
  BY <1>1, ResignType DEF Election
<1> QED BY <1>3, <1>4 DEF StopConsumerThenResign

LEMMA BeginPreemptionType ==
  ASSUME NEW s \in Election, NEW m \in Peer
  PROVE  BeginPreemption(s, m) \in Election
<1> DEFINE c == ClearElectionTimers(s)
           p == [c EXCEPT !.role = "awaiting-handoff", !.target = m]
<1>1. c \in Election
  BY DisarmType DEF ClearElectionTimers
<1>2. p \in Election
  BY <1>1 DEF Election, Role, Peer
<1>3. Send(p, "CLAIM") \in Election
  BY <1>2, SendType DEF Datagram
<1>4. Arm(Send(p, "CLAIM"), "handoff", PreemptGrace) \in Election
  BY <1>3, ArmType, IntervalsAreNat DEF Timer
<1> QED BY <1>4 DEF BeginPreemption

LEMMA OnHeartbeatType ==
  ASSUME NEW n \in Node, NEW s \in Election, NEW m \in Peer
  PROVE  OnHeartbeat(n, s, m) \in Election
<1> DEFINE h == [s EXCEPT !.heard = 0, !.heardAt = "recent",
                          !.holder = IF s.role = "master" THEN @ ELSE m]
<1>1. h \in Election
  BY DEF Election, HeardAt, Peer
<1>2. BeginPreemption(h, m) \in Election /\ BecomeStandby(h, m) \in Election
  BY <1>1, BeginPreemptionType, BecomeStandbyType
<1>3. ReconcileWithPeerHolder(n, h, m) \in Election
  <2>1. StopConsumerThenResign(h, m, "standby") \in Election
    BY <1>1, StopConsumerThenResignType DEF Continuation
  <2>2. Send(h, "HEARTBEAT") \in Election
    BY <1>1, SendType DEF Datagram
  <2> QED BY <2>1, <2>2 DEF ReconcileWithPeerHolder
<1> HIDE DEF h
<1>4. OnHeartbeat(n, s, m) \in
        {h, BeginPreemption(h, m), BecomeStandby(h, m), ReconcileWithPeerHolder(n, h, m)}
  BY DEF OnHeartbeat, h
<1> QED BY <1>1, <1>2, <1>3, <1>4

LEMMA OnClaimType ==
  ASSUME NEW n \in Node, NEW s \in Election, NEW m \in Peer
  PROVE  OnClaim(n, s, m) \in Election
<1>1. StopConsumerThenResign(s, m, "standby") \in Election
  BY StopConsumerThenResignType DEF Continuation
<1>2. Send(s, "HEARTBEAT") \in Election
  BY SendType DEF Datagram
<1>3. BecomeStandby(s, m) \in Election /\ SendClaim(s) \in Election
  BY BecomeStandbyType, SendClaimType
<1>4. OnClaim(n, s, m) \in {s, StopConsumerThenResign(s, m, "standby"),
                            Send(s, "HEARTBEAT"), BecomeStandby(s, m), SendClaim(s)}
  BY DEF OnClaim
<1> QED BY <1>1, <1>2, <1>3, <1>4

LEMMA ElectionsType ==
  ASSUME NEW s \in Election, NEW handoff \in Handoff, NEW window \in Nat
  PROVE  Elections(s, handoff, window) \subseteq Election
BY BeginElectionType DEF Elections

LEMMA OnResignType ==
  ASSUME NEW s \in Election, NEW serves \in BOOLEAN, NEW m \in Peer
  PROVE  OnResign(s, serves, m) \subseteq Election
<1>1. BecomeMaster(s, serves, "ordered") \in Election
  BY BecomeMasterType DEF Handoff
<1>2. [s EXCEPT !.holder = NoNode] \in Election
  BY DEF Election
<1>3. Elections([s EXCEPT !.holder = NoNode], "ordered", ResignWindow) \subseteq Election
  BY <1>2, ElectionsType, IntervalsAreNat DEF Handoff
<1> QED BY <1>1, <1>3 DEF OnResign

LEMMA DispatchType ==
  ASSUME NEW n \in Node, NEW s \in Election, NEW serves \in BOOLEAN, NEW i \in Item,
         i.kind \in Datagram
  PROVE  Dispatch(n, s, serves, i) \subseteq Election
<1>1. i.from \in Peer
  BY DEF Item, Peer
<1>2. OnProbe(s) \in Election
  BY SendType DEF OnProbe, Datagram
<1>3. OnHeartbeat(n, s, i.from) \in Election /\ OnClaim(n, s, i.from) \in Election
  BY <1>1, OnHeartbeatType, OnClaimType
<1>4. OnResign(s, serves, i.from) \subseteq Election
  BY <1>1, OnResignType
<1> QED BY <1>2, <1>3, <1>4 DEF Dispatch, Datagram

LEMMA ConsiderYieldType ==
  ASSUME NEW n \in Node, NEW s \in Election
  PROVE  ConsiderYield(n, s) \subseteq Election
<1>1. Arm(s, "yield", YieldPeriod) \in Election
  BY ArmType, IntervalsAreNat DEF Timer
<1>2. \A m \in Node : StopConsumerThenResign(s, m, "standby") \in Election
  BY StopConsumerThenResignType DEF Continuation, Peer
<1> QED BY <1>1, <1>2 DEF ConsiderYield

LEMMA OnTimerType ==
  ASSUME NEW n \in Node, NEW s \in Election, NEW serves \in BOOLEAN, NEW i \in Item
  PROVE  OnTimer(n, s, serves, i) \subseteq Election
<1> DEFINE e == [s EXCEPT !.handoff = i.handoff]
           settle == Arm(SendClaim(e), "settle", ClaimSettle)
           candidacy == Arm(Send(s, "PROBE"), "candidacy", CandidacyPeriod)
           heartbeat == Arm(Send(s, "HEARTBEAT"), "heartbeat", HeartbeatPeriod)
<1>1. i.handoff \in Handoff
  BY DEF Item
<1>2. \A h \in Handoff : BecomeMaster(s, serves, h) \in Election
  BY BecomeMasterType
<1>3. BeginProbe(s) \in Election
  BY BeginProbeType
<1>4. settle \in Election
  <2>1. e \in Election
    BY <1>1 DEF Election
  <2> QED BY <2>1, SendClaimType, ArmType, IntervalsAreNat DEF Timer
<1>5. candidacy \in Election /\ heartbeat \in Election
  BY SendType, ArmType, IntervalsAreNat DEF Timer, Datagram
<1>6. ConsiderYield(n, s) \subseteq Election
  BY ConsiderYieldType
<1> HIDE DEF settle, candidacy, heartbeat
<1>7. OnTimer(n, s, serves, i) \in
        {{s}, {BeginProbe(s)}, {settle}, {candidacy}, {heartbeat}, ConsiderYield(n, s)}
          \cup {{BecomeMaster(s, serves, h)} : h \in Handoff}
  BY <1>1 DEF OnTimer, settle, candidacy, heartbeat, Handoff
<1> QED BY <1>2, <1>3, <1>4, <1>5, <1>6, <1>7

LEMMA OnSignalType ==
  ASSUME NEW s \in Election, NEW i \in Item, i.kind \in Signal
  PROVE  OnSignal(s, i) \subseteq Election
<1>1. \A then \in Continuation : /\ StopConsumerThenResign(s, NoNode, then) \in Election
                                 /\ Continue(s, NoNode, then) \in Election
  BY StopConsumerThenResignType, ContinueType DEF Peer
<1>2. BeginProbe(s) \in Election
  BY BeginProbeType
<1>3. Elections(s, "gap", ElectionWindow) \subseteq Election
  BY ElectionsType, IntervalsAreNat DEF Handoff
<1> QED BY <1>1, <1>2, <1>3 DEF OnSignal, Signal, Continuation

(* A handler leaves an election object behind.                               *)
LEMMA OutcomesType ==
  ASSUME NEW n \in Node, NEW s \in Election, NEW serves \in BOOLEAN, NEW i \in Item
  PROVE  Outcomes(n, s, serves, i) \subseteq Election
<1>1. i.kind \in Datagram \cup Timer \cup Signal
  BY DEF Item
<1>2. CASE i.kind \in Datagram
  <2>1. i.kind \notin Timer /\ i.kind \notin Signal
    BY <1>2 DEF Datagram, Timer, Signal
  <2> QED BY <1>2, <2>1, DispatchType DEF Outcomes
<1>3. CASE i.kind \in Timer
  <2>1. i.kind \notin Datagram /\ i.kind \notin Signal
    BY <1>3 DEF Datagram, Timer, Signal
  <2> QED BY <1>3, <2>1, OnTimerType DEF Outcomes
<1>4. CASE i.kind \in Signal
  <2>1. i.kind \notin Datagram /\ i.kind \notin Timer
    BY <1>4 DEF Datagram, Timer, Signal
  <2> QED BY <1>4, <2>1, OnSignalType DEF Outcomes
<1> QED BY <1>1, <1>2, <1>3, <1>4

LEMMA ElapseType ==
  ASSUME NEW s \in Election
  PROVE  Elapse(s) \in Election /\ Sleep(s) \in Election
<1> DEFINE t == [t \in Timer |-> CountDown(s.timer[t])]
           k == [s.task EXCEPT !.left = CountDown(@)]
           e == [s EXCEPT !.timer = t,
                          !.heard = IF @ \in {Never, MasterTimeout} THEN @ ELSE @ + 1,
                          !.task = k]
           w == [Arm(e, "watchdog", WatchdogPeriod) EXCEPT !.slept = 0]
<1>1. t \in [Timer -> Nat \cup {Off}]
  BY DEF Election, CountDown, Off
<1>2. k \in Task
  <2>1. s.task \in Task
    BY DEF Election
  <2>2. CountDown(s.task.left) \in Nat
    BY <2>1 DEF Task, CountDown
  <2> QED BY <2>1, <2>2 DEF Task
<1>3. e \in Election
  <2>1. (IF s.heard \in {Never, MasterTimeout} THEN s.heard ELSE s.heard + 1)
          \in Nat \cup {Never}
    BY DEF Election, Never
  <2> HIDE DEF t, k
  <2> QED BY <1>1, <1>2, <2>1 DEF Election
<1> HIDE DEF e
<1>4. w \in Election
  <2>1. Arm(e, "watchdog", WatchdogPeriod) \in Election
    BY <1>3, ArmType, IntervalsAreNat DEF Timer
  <2> QED BY <2>1 DEF Election
<1>5. \A g \in Signal : Enqueue(w, Signalled(g)) \in Election
  <2>1. \A g \in Signal : Signalled(g) \in Item
    BY DEF Signalled, Item, Handoff
  <2> HIDE DEF w
  <2> QED BY <1>4, <2>1, EnqueueType
<1>6. Watchdog(e) \in Election
  BY <1>4, <1>5 DEF Watchdog, Signal
<1>7. Elapse(s) \in {e, Watchdog(e)}
  BY DEF Elapse, e
<1>8. Sleep(s) \in Election
  BY SMTT(40) DEF Sleep, Election
<1> QED BY <1>3, <1>6, <1>7, <1>8

-----------------------------------------------------------------------------
(* Role and consumer.                                                        *)

(* What the election awaits is what the gate is doing, and a gate that is    *)
(* not off belongs to a holder or to one that is standing down.              *)
Tenured(s) ==
    /\ s.gate = "starting" <=> s.task.op = "start"
    /\ s.gate = "stopping" => s.task.op = "stop"
    /\ s.gate = "on" => s.role = "master" /\ s.running
    /\ s.task.op = "start" => s.role = "master"
    /\ s.task.op = "stop" <=> s.role = "resigning"

(* No consumer conflict was reported, so none is followed by a re-probe.     *)
NoReprobe(s) ==
    /\ s.timer["reprobe"] = Off
    /\ s.task.then # "reprobe"
    /\ \A k \in 1..Len(s.queue) : s.queue[k].kind \notin {"reprobe", "conflict"}

(* A handler that goes from s to r ends on a RESIGN only if the gate is off, *)
(* and does not open the gate without a word.                                *)
Candid(s, r) ==
    IF r.out = <<>> THEN s.gate = "off" => r.gate = "off"
    ELSE r.out[Len(r.out)] = "RESIGN" => r.gate = "off"

(* A handler opens and closes the gate in order: it begins to start it when  *)
(* it is off, has it on once it was starting, and stops it when it is on.    *)
Orderly(s, r) ==
    \/ r.gate \in {s.gate, "off"}
    \/ s.gate = "off" /\ r.gate = "starting"
    \/ s.gate = "starting" /\ r.gate = "on"
    \/ s.gate = "on" /\ r.gate = "stopping"

Sound(s, r) ==
    Tenured(r) /\ NoReprobe(r) /\ Candid(s, r) /\ Orderly(s, r) /\ r.queue = s.queue

(* The state of an election whose queue is about to run an item.             *)
Ready(s) ==
    /\ s \in Election /\ Tenured(s) /\ NoReprobe(s)
    /\ s.task.op = "none" /\ s.out = <<>>

(* r differs from s in its role, its timers and what it says at most.        *)
Keeps(s, r) ==
    /\ r.gate = s.gate /\ r.task = s.task
    /\ r.running = s.running /\ r.queue = s.queue
    /\ s.timer["reprobe"] = Off => r.timer["reprobe"] = Off

LEMMA SaidLast ==
  ASSUME NEW o \in Seq(Datagram), NEW d \in Datagram
  PROVE  LET a == Append(o, d) IN a # <<>> /\ a[Len(a)] = d
BY AppendProperties

LEMMA SendKeeps ==
  ASSUME NEW s \in Election, NEW d \in Datagram
  PROVE  LET r == Send(s, d)
         IN  Keeps(s, r) /\ r.role = s.role /\ r.out = Append(s.out, d)
BY DEF Send, Keeps, Election

LEMMA ArmKeeps ==
  ASSUME NEW s \in Election, NEW t \in Timer \ {"reprobe"}, NEW d
  PROVE  LET r == Arm(s, t, d)
         IN  Keeps(s, r) /\ r.role = s.role /\ r.out = s.out
BY DEF Arm, Keeps, Election, Timer

LEMMA DisarmKeeps ==
  ASSUME NEW s \in Election, NEW ts
  PROVE  LET r == Disarm(s, ts)
         IN  Keeps(s, r) /\ r.role = s.role /\ r.out = s.out
BY DEF Disarm, Keeps, Election, Timer

LEMMA BeginProbeKeeps ==
  ASSUME NEW s \in Election
  PROVE  LET r == BeginProbe(s)
         IN  Keeps(s, r) /\ r.role = "probing" /\ r.out = Append(s.out, "PROBE")
<1> DEFINE c == ClearElectionTimers(s)
           p == [c EXCEPT !.role = "probing", !.target = NoNode]
           q == Send(p, "PROBE")
<1>1. c \in Election /\ Keeps(s, c) /\ c.out = s.out
  BY DisarmType, DisarmKeeps DEF ClearElectionTimers
<1>2. p \in Election /\ Keeps(c, p) /\ p.role = "probing" /\ p.out = c.out
  BY <1>1 DEF Election, Role, Keeps
<1>3. q \in Election /\ Keeps(p, q) /\ q.role = p.role /\ q.out = Append(p.out, "PROBE")
  BY <1>2, SendType, SendKeeps DEF Datagram
<1>4. BeginProbe(s) = Arm(q, "probe", BootProbe)
  BY DEF BeginProbe
<1> HIDE DEF c, p, q
<1> QED BY <1>1, <1>2, <1>3, <1>4, ArmKeeps DEF Keeps, Timer

LEMMA BeginElectionKeeps ==
  ASSUME NEW s \in Election, NEW handoff \in Handoff, NEW jitter \in Nat
  PROVE  LET r == BeginElection(s, handoff, jitter)
         IN  Keeps(s, r) /\ r.role = "electing" /\ r.out = s.out
<1> DEFINE c == ClearElectionTimers(s)
           e == [c EXCEPT !.role = "electing", !.claimed = FALSE, !.handoff = handoff]
<1>1. c \in Election /\ Keeps(s, c) /\ c.out = s.out
  BY DisarmType, DisarmKeeps DEF ClearElectionTimers
<1>2. e \in Election /\ Keeps(c, e) /\ e.role = "electing" /\ e.out = c.out
  BY ZenonT(60), <1>1 DEF Election, Role, Keeps
<1>3. BeginElection(s, handoff, jitter) = Arm(e, "election", jitter)
  BY DEF BeginElection
<1> HIDE DEF c, e
<1> QED BY <1>1, <1>2, <1>3, ArmKeeps DEF Keeps, Timer

LEMMA BecomeStandbyKeeps ==
  ASSUME NEW s \in Election, NEW m \in Peer
  PROVE  LET r == BecomeStandby(s, m)
         IN  Keeps(s, r) /\ r.role = "standby" /\ r.out = s.out
<1> DEFINE c == ClearElectionTimers(s)
           b == [c EXCEPT !.role = "standby", !.target = NoNode,
                          !.holder = IF m = NoNode THEN @ ELSE m,
                          !.heard = IF @ = Never THEN 0 ELSE @]
<1>1. c \in Election /\ Keeps(s, c) /\ c.out = s.out
  BY DisarmType, DisarmKeeps DEF ClearElectionTimers
<1>2. b \in Election /\ Keeps(c, b) /\ b.role = "standby" /\ b.out = c.out
  BY ZenonT(60), <1>1 DEF Election, Role, Keeps, Peer
<1>3. BecomeStandby(s, m) = Arm(b, "candidacy", CandidacyPeriod)
  BY DEF BecomeStandby
<1> HIDE DEF c, b
<1> QED BY <1>1, <1>2, <1>3, ArmKeeps DEF Keeps, Timer

LEMMA BeginPreemptionKeeps ==
  ASSUME NEW s \in Election, NEW m \in Peer
  PROVE  LET r == BeginPreemption(s, m)
         IN  Keeps(s, r) /\ r.role = "awaiting-handoff" /\ r.out = Append(s.out, "CLAIM")
<1> DEFINE c == ClearElectionTimers(s)
           p == [c EXCEPT !.role = "awaiting-handoff", !.target = m]
           q == Send(p, "CLAIM")
<1>1. c \in Election /\ Keeps(s, c) /\ c.out = s.out
  BY DisarmType, DisarmKeeps DEF ClearElectionTimers
<1>2. p \in Election /\ Keeps(c, p) /\ p.role = "awaiting-handoff" /\ p.out = c.out
  BY <1>1 DEF Election, Role, Keeps, Peer
<1>3. q \in Election /\ Keeps(p, q) /\ q.role = p.role /\ q.out = Append(p.out, "CLAIM")
  BY <1>2, SendType, SendKeeps DEF Datagram
<1>4. BeginPreemption(s, m) = Arm(q, "handoff", PreemptGrace)
  BY DEF BeginPreemption
<1> HIDE DEF c, p, q
<1> QED BY <1>1, <1>2, <1>3, <1>4, ArmKeeps DEF Keeps, Timer

LEMMA BecomeMasterSound ==
  ASSUME NEW s, Ready(s), s.gate = "off", NEW serves \in BOOLEAN, NEW handoff \in Handoff
  PROVE  Sound(s, BecomeMaster(s, serves, handoff))
<1> DEFINE c == ClearElectionTimers(s)
           t == [NoTask EXCEPT !.op = "start", !.left = MaxStart]
           b == [c EXCEPT !.role = "master", !.target = NoNode, !.gate = "starting",
                          !.handoff = handoff, !.task = t]
           r == Send(b, "CLAIM")
<1>1. s \in Election /\ s.task.op # "stop" /\ s.role # "resigning"
  BY DEF Ready, Tenured
<1>2. CASE ~serves
  <2> DEFINE d == BecomeStandby(s, NoNode)
  <2>1. Keeps(s, d) /\ d.role = "standby" /\ d.out = s.out
    BY <1>1, BecomeStandbyKeeps DEF Peer
  <2>2. BecomeMaster(s, serves, handoff) = d
    BY <1>2 DEF BecomeMaster
  <2> HIDE DEF d
  <2> QED BY <2>1, <2>2 DEF Sound, Ready, Tenured, NoReprobe, Candid, Orderly, Keeps
<1>3. CASE serves
  <2>1. c \in Election /\ Keeps(s, c)
    BY <1>1, DisarmType, DisarmKeeps DEF ClearElectionTimers
  <2>2. /\ b.role = "master" /\ b.gate = "starting" /\ b.task = t
        /\ b.queue = c.queue /\ b.timer = c.timer /\ b.out \in Seq(Datagram)
    <3> HIDE DEF c, t
    <3> QED BY <2>1 DEF Election
  <2>3. t.op = "start" /\ t.then = "standby"
    BY DEF NoTask
  <2>4. /\ r.role = "master" /\ r.gate = "starting" /\ r.task = t
        /\ r.queue = s.queue /\ r.timer = c.timer /\ r.out = Append(b.out, "CLAIM")
    BY <2>1, <2>2 DEF Send, Keeps, Election
  <2>5. r.out # <<>> /\ r.out[Len(r.out)] = "CLAIM"
    BY <2>2, <2>4, SaidLast DEF Datagram
  <2>6. BecomeMaster(s, serves, handoff) = r
    BY <1>3 DEF BecomeMaster
  <2> HIDE DEF r, t
  <2> QED BY <2>1, <2>3, <2>4, <2>5, <2>6
          DEF Sound, Ready, Tenured, NoReprobe, Candid, Orderly, Keeps
<1> QED BY <1>2, <1>3

LEMMA ConsumerStartedSound ==
  ASSUME NEW s \in Election, Tenured(s), NoReprobe(s), s.task.op = "start", s.out = <<>>,
         NEW reads \in BOOLEAN
  PROVE  Sound(s, ConsumerStarted(s, reads))
<1> DEFINE c == [s EXCEPT !.running = TRUE, !.task = NoTask,
                          !.gate = IF reads THEN "on" ELSE "off"]
           h == Arm(c, "heartbeat", HeartbeatPeriod)
           y == Arm(h, "yield", YieldPeriod)
           r == Send(y, "HEARTBEAT")
<1>1. /\ c \in Election /\ c.role = "master" /\ c.running /\ c.gate \in {"on", "off"}
      /\ c.task.op = "none" /\ c.task.then = "standby"
      /\ c.queue = s.queue /\ c.timer = s.timer /\ c.out = <<>>
  <2>1. NoTask.op = "none" /\ NoTask.then = "standby"
    BY DEF NoTask
  <2> QED BY <2>1, NoTaskType DEF Election, Gate, Tenured
<1> HIDE DEF c
<1>2. h \in Election /\ Keeps(c, h) /\ h.role = c.role /\ h.out = c.out
  BY ZenonT(60), <1>1, ArmType, ArmKeeps, IntervalsAreNat DEF Timer
<1> HIDE DEF h
<1>3. y \in Election /\ Keeps(h, y) /\ y.role = h.role /\ y.out = h.out
  BY <1>2, ArmType, ArmKeeps, IntervalsAreNat DEF Timer
<1> HIDE DEF y
<1>4. Keeps(y, r) /\ r.role = y.role /\ r.out = Append(y.out, "HEARTBEAT")
  BY <1>3, SendKeeps DEF Datagram
<1>5. r.out # <<>> /\ r.out[Len(r.out)] = "HEARTBEAT"
  BY <1>3, <1>4, SaidLast DEF Election, Datagram
<1>6. ConsumerStarted(s, reads) = r
  BY DEF ConsumerStarted, c, h, y
<1> HIDE DEF r
<1>7. /\ r.role = "master" /\ r.running /\ r.gate \in {"on", "off"} /\ r.queue = s.queue
      /\ r.task.op = "none" /\ r.task.then = "standby"
  BY <1>1, <1>2, <1>3, <1>4 DEF Keeps
<1>8. r.timer["reprobe"] = Off
  BY <1>1, <1>2, <1>3, <1>4 DEF Keeps, NoReprobe
<1>9. Tenured(r)
  BY <1>7 DEF Tenured
<1>10. NoReprobe(r)
  BY <1>7, <1>8 DEF NoReprobe
<1>11. Candid(s, r)
  BY <1>5 DEF Candid
<1>12. Orderly(s, r)
  BY <1>7 DEF Orderly, Tenured
<1> QED BY <1>6, <1>7, <1>9, <1>10, <1>11, <1>12 DEF Sound

(* Resign and what follows, from a gate that is off.                         *)
LEMMA ResignSound ==
  ASSUME NEW s \in Election, NoReprobe(s), s.out = <<>>,
         NEW next \in Peer, NEW then \in Continuation \ {"reprobe"}
  PROVE  Sound(s, Resign(s, next, then, "off"))
<1> DEFINE q == [s EXCEPT !.running = FALSE, !.gate = "off", !.task = NoTask,
                          !.holder = next, !.heard = 0, !.heardAt = "recent"]
           r == Send(q, "RESIGN")
           f == Resign(s, next, then, "off")
<1>1. /\ q \in Election /\ q.gate = "off" /\ q.task.op = "none" /\ q.task.then = "standby"
      /\ q.queue = s.queue /\ q.timer = s.timer /\ q.out = <<>>
  <2>1. NoTask.op = "none" /\ NoTask.then = "standby"
    BY DEF NoTask
  <2> QED BY <2>1, NoTaskType DEF Election, Gate, HeardAt, Peer
<1> HIDE DEF q
<1>2. r \in Election /\ Keeps(q, r) /\ r.out = Append(q.out, "RESIGN")
  BY <1>1, SendType, SendKeeps DEF Datagram
<1>3. f = Continue(r, next, then)
  BY DEF Resign, q
<1> HIDE DEF r
<1>4. Keeps(r, f) /\ f.role \in {"standby", "stopped", "probing"}
  <2>1. CASE then = "standby"
    <3>1. f = BecomeStandby(r, next)
      BY <1>3, <2>1 DEF Continue
    <3> QED BY <1>2, <3>1, BecomeStandbyKeeps
  <2>2. CASE then = "stopped"
    <3> DEFINE o == [r EXCEPT !.role = "stopped"]
    <3>1. o \in Election /\ Keeps(r, o) /\ o.role = "stopped"
      BY <1>2 DEF Election, Role, Keeps
    <3>2. f = Disarm(o, Timer \ {"watchdog"})
      BY <1>3, <2>2 DEF Continue
    <3> HIDE DEF o
    <3> QED BY <3>1, <3>2, DisarmKeeps DEF Keeps
  <2>3. CASE then = "probe"
    <3> DEFINE o == [r EXCEPT !.heard = Never, !.heardAt = "null", !.holder = NoNode]
    <3>1. o \in Election /\ Keeps(r, o)
      BY <1>2 DEF Election, HeardAt, Keeps
    <3>2. f = BeginProbe(o)
      BY <1>3, <2>3 DEF Continue
    <3> HIDE DEF o
    <3> QED BY <3>1, <3>2, BeginProbeKeeps DEF Keeps
  <2> QED BY <2>1, <2>2, <2>3 DEF Continuation
<1> HIDE DEF f
<1> QED BY <1>1, <1>2, <1>4 DEF Sound, Tenured, NoReprobe, Candid, Orderly, Keeps, f

LEMMA StopConsumerThenResignSound ==
  ASSUME NEW s, Ready(s), s.role = "master",
         NEW next \in Peer, NEW then \in Continuation \ {"reprobe"}
  PROVE  Sound(s, StopConsumerThenResign(s, next, then))
<1> DEFINE o == [s EXCEPT !.role = "resigning"]
           r == Disarm(o, {"heartbeat", "yield"})
           t == [op |-> "stop", left |-> MaxStop, next |-> next, then |-> then]
           w == [r EXCEPT !.gate = IF @ = "on" THEN "stopping" ELSE @, !.task = t]
<1>1. o \in Election /\ Keeps(s, o) /\ o.role = "resigning" /\ o.out = <<>>
  BY DEF Ready, Election, Role, Keeps
<1> HIDE DEF o
<1>2. r \in Election /\ Keeps(o, r) /\ r.role = "resigning" /\ r.out = <<>>
  BY <1>1, DisarmType, DisarmKeeps
<1> HIDE DEF r
<1>3. NoReprobe(r) /\ r.queue = s.queue /\ r.gate = s.gate /\ r.running = s.running
  BY <1>1, <1>2 DEF Ready, Keeps, NoReprobe
<1>4. CASE s.running
  <2>1. /\ w.role = "resigning" /\ w.task = t /\ w.queue = r.queue /\ w.timer = r.timer
        /\ w.out = <<>> /\ w.gate = IF r.gate = "on" THEN "stopping" ELSE r.gate
    <3> HIDE DEF t
    <3> QED BY <1>2 DEF Election
  <2>2. StopConsumerThenResign(s, next, then) = w
    BY <1>4 DEF StopConsumerThenResign, r, o
  <2>3. t.op = "stop" /\ t.then # "reprobe"
    OBVIOUS
  <2>4. s.gate \in {"off", "on"}
    BY DEF Ready, Tenured, Election, Gate
  <2> HIDE DEF w, t
  <2> QED BY <1>3, <2>1, <2>2, <2>3, <2>4 DEF Sound, Tenured, NoReprobe, Candid, Orderly
<1>5. CASE ~s.running
  <2>1. s.gate = "off"
    BY <1>5 DEF Ready, Tenured, Election, Gate
  <2>2. StopConsumerThenResign(s, next, then) = Resign(r, next, then, "off")
    BY <1>5, <2>1 DEF StopConsumerThenResign, r, o
  <2>3. Sound(r, Resign(r, next, then, "off"))
    BY <1>2, <1>3, ResignSound
  <2> QED BY <1>3, <2>1, <2>2, <2>3 DEF Sound, Candid, Orderly
<1> QED BY <1>4, <1>5

LEMMA KeepsSound ==
  ASSUME NEW s, Ready(s), NEW r, Keeps(s, r), r.role # "resigning",
         \/ s.role # "master" \/ r.role = "master",
         \/ r.out = <<>> \/ r.out[Len(r.out)] # "RESIGN"
  PROVE  Sound(s, r)
BY DEF Ready, Sound, Tenured, NoReprobe, Candid, Orderly, Keeps

LEMMA SendSound ==
  ASSUME NEW s, Ready(s), NEW d \in Datagram \ {"RESIGN"}
  PROVE  Sound(s, Send(s, d))
<1>1. s \in Election /\ s.role # "resigning"
  BY DEF Ready, Tenured
<1>2. Send(s, d).out # <<>> /\ Send(s, d).out[Len(Send(s, d).out)] = d
  BY <1>1, SendKeeps, SaidLast DEF Election
<1> QED BY <1>1, <1>2, SendKeeps, KeepsSound

LEMMA SendThenArmSound ==
  ASSUME NEW s, Ready(s), NEW d \in Datagram \ {"RESIGN"},
         NEW t \in Timer \ {"reprobe"}, NEW x
  PROVE  Sound(s, Arm(Send(s, d), t, x))
<1> DEFINE c == Send(s, d)
           a == Arm(c, t, x)
<1>1. s \in Election /\ s.role # "resigning"
  BY DEF Ready, Tenured
<1>2. c \in Election /\ Keeps(s, c) /\ c.role = s.role /\ c.out[Len(c.out)] = d
  BY SMTT(40), <1>1, SendType, SendKeeps, SaidLast DEF Election
<1> HIDE DEF c
<1>3. Keeps(c, a) /\ a.role = c.role /\ a.out = c.out
  BY <1>2, ArmKeeps
<1> HIDE DEF a
<1>4. Sound(s, a)
  BY <1>1, <1>2, <1>3, KeepsSound DEF Keeps
<1> QED BY <1>4 DEF a, c

LEMMA OnHeartbeatSound ==
  ASSUME NEW n \in Node, NEW s, Ready(s), NEW m \in Peer
  PROVE  Sound(s, OnHeartbeat(n, s, m))
<1> DEFINE h == [s EXCEPT !.heard = 0, !.heardAt = "recent",
                          !.holder = IF s.role = "master" THEN @ ELSE m]
<1>1. Ready(h) /\ Keeps(s, h) /\ h.role = s.role /\ h.out = s.out
  BY ZenonT(60) DEF Ready, Election, HeardAt, Peer, Tenured, NoReprobe, Keeps
<1>2. \A r : Sound(h, r) => Sound(s, r)
  BY <1>1 DEF Sound, Keeps, Candid, Orderly
<1>3. h \in Election /\ h.role # "resigning" /\ h.out = <<>>
  BY <1>1 DEF Ready, Tenured
<1> HIDE DEF h
<1>4. Sound(h, h)
  BY <1>1, <1>3, KeepsSound DEF Keeps
<1>5. h.role # "master" => Sound(h, BecomeStandby(h, m))
  BY <1>1, <1>3, BecomeStandbyKeeps, KeepsSound
<1>6. h.role # "master" => Sound(h, BeginPreemption(h, m))
  <2> DEFINE r == BeginPreemption(h, m)
  <2>1. Keeps(h, r) /\ r.role = "awaiting-handoff" /\ r.out = Append(h.out, "CLAIM")
    BY <1>3, BeginPreemptionKeeps
  <2>2. r.out[Len(r.out)] = "CLAIM"
    BY <1>3, <2>1, SaidLast DEF Election, Datagram
  <2> HIDE DEF r
  <2>3. h.role # "master" => Sound(h, r)
    BY <1>1, <2>1, <2>2, KeepsSound
  <2> QED BY <2>3 DEF r
<1>7. h.role = "master" => Sound(h, ReconcileWithPeerHolder(n, h, m))
  <2>1. h.role = "master" => Sound(h, StopConsumerThenResign(h, m, "standby"))
    BY <1>1, StopConsumerThenResignSound DEF Continuation
  <2>2. Sound(h, Send(h, "HEARTBEAT"))
    BY <1>1, SendSound DEF Datagram
  <2> QED BY <2>1, <2>2 DEF ReconcileWithPeerHolder
<1>8. Sound(h, OnHeartbeat(n, s, m))
  <2>1. CASE s.role = "master"
    <3>1. OnHeartbeat(n, s, m) = ReconcileWithPeerHolder(n, h, m)
      BY <2>1 DEF OnHeartbeat, h
    <3> QED BY <1>1, <1>7, <2>1, <3>1
  <2>2. CASE s.role # "master"
    <3>1. OnHeartbeat(n, s, m) \in {h, BeginPreemption(h, m), BecomeStandby(h, m)}
      BY <2>2 DEF OnHeartbeat, h
    <3> QED BY <1>1, <1>4, <1>5, <1>6, <2>2, <3>1
  <2> QED BY <2>1, <2>2
<1> QED BY <1>2, <1>8

LEMMA OnClaimSound ==
  ASSUME NEW n \in Node, NEW s, Ready(s), NEW m \in Peer
  PROVE  Sound(s, OnClaim(n, s, m))
<1>1. s \in Election /\ s.role # "resigning" /\ s.out = <<>>
  BY DEF Ready, Tenured
<1>2. CASE s.role = "master"
  <2>1. Sound(s, StopConsumerThenResign(s, m, "standby"))
    BY <1>2, StopConsumerThenResignSound DEF Continuation
  <2>2. Sound(s, Send(s, "HEARTBEAT"))
    BY SendSound DEF Datagram
  <2> QED BY <1>2, <2>1, <2>2 DEF OnClaim
<1>3. CASE s.role # "master"
  <2>1. Sound(s, s)
    BY <1>1, KeepsSound DEF Keeps
  <2>2. Sound(s, BecomeStandby(s, m))
    BY <1>1, <1>3, BecomeStandbyKeeps, KeepsSound
  <2>3. Sound(s, SendClaim(s))
    <3> DEFINE c == [s EXCEPT !.claimed = TRUE]
    <3>1. Ready(c) /\ Keeps(s, c) /\ c.out = s.out
      BY DEF Ready, Election, Tenured, NoReprobe, Keeps
    <3>2. SendClaim(s) = Send(c, "CLAIM")
      BY DEF SendClaim
    <3> HIDE DEF c
    <3>3. Sound(c, Send(c, "CLAIM"))
      BY <3>1, SendSound DEF Datagram
    <3> QED BY <3>1, <3>2, <3>3 DEF Sound, Keeps, Candid, Orderly
  <2>4. OnClaim(n, s, m) \in {s, BecomeStandby(s, m), SendClaim(s)}
    BY <1>3 DEF OnClaim
  <2> QED BY <2>1, <2>2, <2>3, <2>4
<1> QED BY <1>2, <1>3

LEMMA ElectionsSound ==
  ASSUME NEW s, Ready(s), s.role # "master", NEW handoff \in Handoff, NEW window \in Nat,
         NEW r \in Elections(s, handoff, window)
  PROVE  Sound(s, r)
<1>1. s \in Election /\ s.out = <<>>
  BY DEF Ready
<1>2. PICK jitter \in 0..window : r = BeginElection(s, handoff, jitter)
  BY DEF Elections
<1>3. jitter \in Nat
  OBVIOUS
<1>4. Keeps(s, r) /\ r.role = "electing" /\ r.out = <<>>
  BY <1>1, <1>2, <1>3, BeginElectionKeeps
<1> QED BY <1>4, KeepsSound

LEMMA DispatchSound ==
  ASSUME NEW n \in Node, NEW s, Ready(s), NEW serves \in BOOLEAN,
         NEW i \in Item, i.kind \in Datagram, NEW r \in Dispatch(n, s, serves, i)
  PROVE  Sound(s, r)
<1> DEFINE m == i.from
<1>1. s \in Election /\ s.role # "resigning" /\ s.out = <<>> /\ m \in Peer
  BY DEF Ready, Tenured, Item, Peer
<1> HIDE DEF m
<1>2. Sound(s, s)
  BY <1>1, KeepsSound DEF Keeps
<1>3. Sound(s, OnProbe(s))
  BY <1>2, SendSound DEF OnProbe, Datagram
<1>4. Sound(s, OnHeartbeat(n, s, m)) /\ Sound(s, OnClaim(n, s, m))
  BY <1>1, OnHeartbeatSound, OnClaimSound
<1>5. ASSUME NEW x \in OnResign(s, serves, m)
      PROVE  Sound(s, x)
  <2>1. CASE s.role = "awaiting-handoff" /\ m = s.target
    <3>1. s.gate = "off"
      BY <2>1 DEF Ready, Tenured, Election, Gate
    <3> QED BY <2>1, <3>1, BecomeMasterSound DEF OnResign, Handoff
  <2>2. CASE s.role = "standby" /\ s.holder \in {NoNode, m}
    <3> DEFINE h == [s EXCEPT !.holder = NoNode]
    <3>1. Ready(h) /\ Keeps(s, h) /\ h.role = s.role /\ h.out = s.out
      BY DEF Ready, Election, Tenured, NoReprobe, Keeps
    <3>2. x \in Elections(h, "ordered", ResignWindow)
      BY <2>2 DEF OnResign
    <3> HIDE DEF h
    <3>3. Sound(h, x)
      BY <2>2, <3>1, <3>2, ElectionsSound, IntervalsAreNat DEF Handoff
    <3> QED BY <3>1, <3>3 DEF Sound, Keeps, Candid, Orderly
  <2>3. CASE ~(s.role = "awaiting-handoff" /\ m = s.target)
             /\ ~(s.role = "standby" /\ s.holder \in {NoNode, m})
    BY <1>2, <2>3 DEF OnResign
  <2> QED BY <2>1, <2>2, <2>3
<1>6. r \in {s, OnProbe(s), OnHeartbeat(n, s, m), OnClaim(n, s, m)}
        \cup OnResign(s, serves, m)
  BY DEF Dispatch, Datagram, m
<1> QED BY <1>2, <1>3, <1>4, <1>5, <1>6

LEMMA OnTimerSound ==
  ASSUME NEW n \in Node, NEW s, Ready(s), NEW serves \in BOOLEAN,
         NEW i \in Item, i.kind \in Timer \ {"reprobe"}, NEW r \in OnTimer(n, s, serves, i)
  PROVE  Sound(s, r)
<1>1. s \in Election /\ s.role # "resigning" /\ s.out = <<>> /\ i.handoff \in Handoff
  BY DEF Ready, Tenured, Item
<1>2. Sound(s, s)
  BY <1>1, KeepsSound DEF Keeps
<1>3. s.role # "master" => s.gate = "off"
  BY <1>1 DEF Ready, Tenured, Election, Gate
<1>4. CASE s.role \in {"probing", "awaiting-handoff"}
  <2>1. \E h \in Handoff : r \in {s, BecomeMaster(s, serves, h)}
    BY <1>4 DEF OnTimer, Handoff
  <2> QED BY <1>2, <1>3, <1>4, <2>1, BecomeMasterSound
<1>5. CASE s.role = "electing"
  <2> DEFINE e == [s EXCEPT !.handoff = i.handoff, !.claimed = TRUE]
             c == Send(e, "CLAIM")
  <2>1. Ready(e) /\ Keeps(s, e) /\ e.role = s.role
    BY <1>1 DEF Ready, Election, Tenured, NoReprobe, Keeps
  <2>2. SendClaim([s EXCEPT !.handoff = i.handoff]) = c
    BY DEF SendClaim
  <2> HIDE DEF e
  <2>3. Sound(e, Arm(Send(e, "CLAIM"), "settle", ClaimSettle))
    BY <2>1, SendThenArmSound DEF Datagram, Timer
  <2>4. Sound(s, Arm(c, "settle", ClaimSettle))
    BY <2>1, <2>3 DEF Sound, Keeps, Candid, Orderly
  <2>5. \/ r = s
        \/ r = Arm(c, "settle", ClaimSettle)
        \/ r = BecomeMaster(s, serves, i.handoff)
    BY <1>5, <2>2 DEF OnTimer
  <2> QED BY <1>1, <1>2, <1>3, <1>5, <2>4, <2>5, BecomeMasterSound
<1>6. CASE s.role = "standby"
  <2> DEFINE a == Arm(Send(s, "PROBE"), "candidacy", CandidacyPeriod)
  <2>1. Sound(s, a)
    BY SendThenArmSound DEF Datagram, Timer
  <2>2. r \in {s, a}
    BY <1>6 DEF OnTimer
  <2> QED BY <1>2, <2>1, <2>2
<1>7. CASE s.role = "master"
  <2> DEFINE a == Arm(Send(s, "HEARTBEAT"), "heartbeat", HeartbeatPeriod)
             y == Arm(s, "yield", YieldPeriod)
  <2>1. Sound(s, a)
    BY SendThenArmSound DEF Datagram, Timer
  <2>2. Sound(s, y)
    <3>1. Keeps(s, y) /\ y.role = s.role /\ y.out = s.out
      BY <1>1, ArmKeeps DEF Timer
    <3> QED BY <1>1, <1>7, <3>1, KeepsSound
  <2>3. \A m \in Node : Sound(s, StopConsumerThenResign(s, m, "standby"))
    BY <1>7, StopConsumerThenResignSound DEF Continuation, Peer
  <2>4. r \in {s, a, y} \cup {StopConsumerThenResign(s, m, "standby") : m \in Node}
    BY <1>7 DEF OnTimer, ConsiderYield
  <2> QED BY <1>2, <2>1, <2>2, <2>3, <2>4
<1>8. CASE s.role = "stopped"
  BY <1>2, <1>8 DEF OnTimer
<1>9. s.role \in {"stopped", "probing", "standby", "electing", "awaiting-handoff", "master"}
  BY <1>1 DEF Election, Role
<1> QED BY <1>4, <1>5, <1>6, <1>7, <1>8, <1>9

LEMMA BeginProbeSound ==
  ASSUME NEW s, Ready(s), s.role # "master"
  PROVE  Sound(s, BeginProbe(s))
<1> DEFINE p == BeginProbe(s)
<1>1. s \in Election
  BY DEF Ready
<1>2. Keeps(s, p) /\ p.role = "probing" /\ p.out = Append(s.out, "PROBE")
  BY <1>1, BeginProbeKeeps
<1>3. p.out[Len(p.out)] = "PROBE"
  BY <1>1, <1>2, SaidLast DEF Election, Datagram
<1> HIDE DEF p
<1>4. Sound(s, p)
  BY <1>2, <1>3, KeepsSound
<1> QED BY <1>4 DEF p

LEMMA OnSignalSound ==
  ASSUME NEW s, Ready(s), NEW i \in Item, i.kind \in Signal \ {"conflict"},
         i.kind = "boot" => s.role = "stopped", NEW r \in OnSignal(s, i)
  PROVE  Sound(s, r)
<1>1. s \in Election /\ s.role # "resigning" /\ s.out = <<>>
  BY DEF Ready, Tenured
<1>2. Sound(s, s)
  BY <1>1, KeepsSound DEF Keeps
<1>3. CASE s.role = "master"
  <2>1. \A then \in {"stopped", "probe"} : Sound(s, StopConsumerThenResign(s, NoNode, then))
    BY <1>3, StopConsumerThenResignSound DEF Continuation, Peer
  <2>2. r \in {s} \cup {StopConsumerThenResign(s, NoNode, then) : then \in {"stopped", "probe"}}
    BY <1>3 DEF OnSignal, Signal
  <2> QED BY <1>2, <2>1, <2>2
<1>4. CASE s.role # "master" /\ i.kind = "boot"
  BY <1>4, BeginProbeSound DEF OnSignal
<1>5. CASE s.role # "master" /\ i.kind = "stop"
  <2> DEFINE o == [s EXCEPT !.role = "stopped"]
             d == Disarm(o, Timer \ {"watchdog"})
  <2>1. o \in Election /\ Keeps(s, o) /\ o.role = "stopped" /\ o.out = <<>>
    BY <1>1 DEF Election, Role, Keeps
  <2>2. r = d
    BY <1>5 DEF OnSignal, Continue
  <2> HIDE DEF o
  <2>3. Keeps(o, d) /\ d.role = o.role /\ d.out = o.out
    BY <2>1, DisarmKeeps
  <2>4. Keeps(s, d) /\ d.role = "stopped" /\ d.out = <<>>
    BY <2>1, <2>3 DEF Keeps
  <2> HIDE DEF d
  <2> QED BY <1>5, <2>2, <2>4, KeepsSound
<1>6. CASE s.role # "master" /\ i.kind = "wake"
  <2> DEFINE o == [s EXCEPT !.heard = Never, !.heardAt = "null", !.holder = NoNode]
  <2>1. Ready(o) /\ Keeps(s, o) /\ o.role = s.role
    BY <1>1 DEF Ready, Election, HeardAt, Tenured, NoReprobe, Keeps
  <2>2. r = s \/ r = BeginProbe(o)
    BY <1>6 DEF OnSignal, Continue
  <2> HIDE DEF o
  <2>3. Sound(o, BeginProbe(o))
    BY <1>6, <2>1, BeginProbeSound
  <2>4. Sound(s, BeginProbe(o))
    BY <2>1, <2>3 DEF Sound, Keeps, Candid, Orderly
  <2> QED BY <1>2, <2>2, <2>4
<1>7. CASE s.role # "master" /\ i.kind = "timeout"
  <2>1. r = s \/ r \in Elections(s, "gap", ElectionWindow)
    BY <1>7 DEF OnSignal
  <2> QED BY <1>2, <1>7, <2>1, ElectionsSound, IntervalsAreNat DEF Handoff
<1> QED BY <1>3, <1>4, <1>5, <1>6, <1>7 DEF Signal

(* A handler keeps the bond between role and consumer.                       *)
LEMMA OutcomesSound ==
  ASSUME NEW n \in Node, NEW s, Ready(s), NEW serves \in BOOLEAN, NEW i \in Item,
         i.kind \notin {"reprobe", "conflict"}, i.kind = "boot" => s.role = "stopped",
         NEW r \in Outcomes(n, s, serves, i)
  PROVE  Sound(s, r)
<1>1. i.kind \in Datagram \cup Timer \cup Signal
  BY DEF Item
<1>2. CASE i.kind \in Datagram
  <2>1. i.kind \notin Timer /\ i.kind \notin Signal
    BY <1>2 DEF Datagram, Timer, Signal
  <2> QED BY <1>2, <2>1, DispatchSound DEF Outcomes
<1>3. CASE i.kind \in Timer
  <2>1. i.kind \notin Datagram /\ i.kind \notin Signal
    BY <1>3 DEF Datagram, Timer, Signal
  <2> QED BY <1>3, <2>1, OnTimerSound DEF Outcomes
<1>4. CASE i.kind \in Signal
  <2>1. i.kind \notin Datagram /\ i.kind \notin Timer
    BY <1>4 DEF Datagram, Timer, Signal
  <2> QED BY <1>4, <2>1, OnSignalSound DEF Outcomes
<1> QED BY <1>1, <1>2, <1>3, <1>4

(* Only a boot or a re-probe brings a stopped election back.                 *)
LEMMA OutcomesOfStopped ==
  ASSUME NEW n \in Node, NEW s \in Election, s.role = "stopped", NEW serves \in BOOLEAN,
         NEW i \in Item, i.kind \notin {"boot", "reprobe"},
         NEW r \in Outcomes(n, s, serves, i)
  PROVE  r.role = "stopped"
<1>1. i.kind \in Datagram \cup Timer \cup Signal
  BY DEF Item
<1>2. CASE i.kind \in Datagram
  <2>1. i.kind \notin Timer /\ i.kind \notin Signal
    BY <1>2 DEF Datagram, Timer, Signal
  <2>2. r \in Dispatch(n, s, serves, i)
    BY <1>2, <2>1 DEF Outcomes
  <2> QED BY <2>2 DEF Dispatch
<1>3. CASE i.kind \in Timer
  <2>1. i.kind \notin Datagram /\ i.kind \notin Signal
    BY <1>3 DEF Datagram, Timer, Signal
  <2>2. r \in OnTimer(n, s, serves, i)
    BY <1>3, <2>1 DEF Outcomes
  <2> QED BY <2>2 DEF OnTimer
<1>4. CASE i.kind \in Signal
  <2>1. i.kind \notin Datagram /\ i.kind \notin Timer
    BY <1>4 DEF Datagram, Timer, Signal
  <2>2. r \in OnSignal(s, i)
    BY <1>4, <2>1 DEF Outcomes
  <2>3. r = s \/ r = Disarm([s EXCEPT !.role = "stopped"], Timer \ {"watchdog"})
    BY <1>4, <2>2 DEF OnSignal, Continue, Signal
  <2>4. [s EXCEPT !.role = "stopped"] \in Election
    BY DEF Election, Role
  <2> QED BY <2>3, <2>4, DisarmKeeps DEF Election
<1> QED BY <1>1, <1>2, <1>3, <1>4

-----------------------------------------------------------------------------
(* Type correctness.                                                         *)

LEMMA NewElectionType == NewElection \in Election
<1>1. <<>> \in Seq(Item) /\ <<>> \in Seq(Datagram)
  OBVIOUS
<1>2. [t \in Timer |-> Off] \in [Timer -> Nat \cup {Off}]
  OBVIOUS
<1> QED
  BY <1>1, <1>2, NoTaskType DEF NewElection, Election, Role, Gate, HeardAt, Handoff

LEMMA StampedType ==
  ASSUME NEW out \in Seq(Datagram)
  PROVE  Stamped(out) \in Seq(InFlight)
<1>1. \A k \in 1..Len(out) : [type |-> out[k], due |-> MaxDelay] \in InFlight
  BY ElectionAssumption, ElementOfSeq DEF InFlight
<1>2. Len(out) \in Nat
  OBVIOUS
<1> QED BY <1>1, <1>2 DEF Stamped

LEMMA CommitType ==
  ASSUME TypeOK, NEW n \in Node, NEW s \in Election, Commit(n, s)
  PROVE  st' \in [Node -> Election] /\ net' \in [Node -> [Node -> Seq(InFlight)]]
<1>1. [s EXCEPT !.out = <<>>] \in Election
  <2>1. <<>> \in Seq(Datagram)
    OBVIOUS
  <2> QED BY <2>1 DEF Election
<1>2. st' \in [Node -> Election]
  BY <1>1 DEF Commit, TypeOK
<1>3. \A m \in Node : net[n][m] \o Stamped(s.out) \in Seq(InFlight)
  <2>1. s.out \in Seq(Datagram)
    BY DEF Election
  <2>2. \A m \in Node : net[n][m] \in Seq(InFlight)
    BY DEF TypeOK
  <2> QED BY <2>1, <2>2, StampedType, ConcatProperties
<1>4. net' \in [Node -> [Node -> Seq(InFlight)]]
  BY <1>3 DEF Commit, TypeOK
<1> QED BY <1>2, <1>4

LEMMA ReceiveType ==
  ASSUME TypeOK, NEW m \in Node, NEW n \in Node, Receive(m, n)
  PROVE  TypeOK'
<1>1. Head(net[m][n]) \in InFlight /\ Tail(net[m][n]) \in Seq(InFlight)
  BY HeadTailProperties DEF Receive, TypeOK
<1>2. FromPeer(Head(net[m][n]).type, m) \in Item
  BY <1>1 DEF FromPeer, Item, InFlight, Handoff
<1>3. Enqueue(st[n], FromPeer(Head(net[m][n]).type, m)) \in Election
  BY <1>2, EnqueueType DEF TypeOK
<1>4. st' \in [Node -> Election]
  BY <1>3 DEF Receive, TypeOK
<1>5. net' \in [Node -> [Node -> Seq(InFlight)]]
  BY <1>1 DEF Receive, TypeOK
<1> QED BY <1>4, <1>5 DEF Receive, TypeOK

LEMMA FireType ==
  ASSUME TypeOK, NEW n \in Node, NEW t \in Timer, Fire(n, t)
  PROVE  TypeOK'
<1> DEFINE a == Arm(st[n], t, Off)
<1>1. a \in Election
  BY ArmType DEF TypeOK
<1>2. Fired(t, a.handoff) \in Item
  <2> HIDE DEF a
  <2> QED BY <1>1 DEF Fired, Item, Election
<1>3. Enqueue(a, Fired(t, a.handoff)) \in Election
  <2> HIDE DEF a
  <2> QED BY <1>1, <1>2, EnqueueType
<1>4. a.handoff = st[n].handoff
  BY DEF Arm, TypeOK, Election
<1>5. st' = [st EXCEPT ![n] = Enqueue(a, Fired(t, a.handoff))]
  BY <1>4 DEF Fire, TypeOK
<1> QED BY <1>3, <1>5 DEF Fire, TypeOK

LEMMA RunType ==
  ASSUME TypeOK, NEW n \in Node, Run(n)
  PROVE  TypeOK'
<1> DEFINE i == Head(st[n].queue)
           s == [st[n] EXCEPT !.queue = Tail(@)]
<1>1. i \in Item /\ Tail(st[n].queue) \in Seq(Item)
  <2>1. st[n].queue \in Seq(Item)
    BY DEF TypeOK, Election
  <2>2. st[n].queue # <<>>
    BY DEF Run
  <2> QED BY <2>1, <2>2, HeadTailProperties
<1>2. s \in Election /\ canServe[n] \in BOOLEAN
  <2>1. st[n] \in Election /\ canServe[n] \in BOOLEAN
    BY DEF TypeOK
  <2> QED BY <1>1, <2>1 DEF Election
<1>3. PICK r \in Outcomes(n, s, canServe[n], i) : Commit(n, r)
  BY DEF Run
<1>4. r \in Election
  <2> HIDE DEF s, i
  <2> QED BY <1>1, <1>2, OutcomesType
<1> QED BY <1>3, <1>4, CommitType DEF Run, TypeOK

LEMMA FinishType ==
  ASSUME TypeOK, NEW n \in Node, FinishStart(n) \/ FinishStop(n)
  PROVE  TypeOK'
<1>1. st[n] \in Election /\ st[n].task \in Task
  BY DEF TypeOK, Election
<1>2. CASE FinishStart(n)
  <2>1. PICK reads \in BOOLEAN : Commit(n, ConsumerStarted(st[n], reads))
    BY <1>2 DEF FinishStart
  <2> QED BY <1>1, <1>2, <2>1, ConsumerStartedType, CommitType DEF FinishStart, TypeOK
<1>3. CASE FinishStop(n)
  <2> DEFINE k == st[n].task
  <2>1. PICK gate \in Gate : Commit(n, Resign(st[n], k.next, k.then, gate))
    BY <1>3 DEF FinishStop, Gate
  <2>2. k.next \in Peer /\ k.then \in Continuation
    BY <1>1 DEF Task, Peer
  <2> HIDE DEF k
  <2> QED BY <1>1, <1>3, <2>1, <2>2, ResignType, CommitType DEF FinishStop, TypeOK
<1> QED BY <1>2, <1>3

LEMMA TickType ==
  ASSUME TypeOK, Tick
  PROVE  TypeOK'
<1>1. st' \in [Node -> Election]
  BY ElapseType DEF Tick, TypeOK
<1>2. ASSUME NEW m \in Node, NEW n \in Node
      PROVE  [k \in DOMAIN net[m][n] |-> [net[m][n][k] EXCEPT !.due = CountDown(@)]]
                \in Seq(InFlight)
  <2>1. net[m][n] \in Seq(InFlight)
    BY DEF TypeOK
  <2>2. DOMAIN net[m][n] = 1..Len(net[m][n]) /\ Len(net[m][n]) \in Nat
    BY <2>1, LenProperties
  <2>3. \A k \in 1..Len(net[m][n]) : net[m][n][k] \in InFlight
    BY <2>1, ElementOfSeq
  <2>4. \A d \in InFlight : [d EXCEPT !.due = CountDown(@)] \in InFlight
    BY DEF InFlight, CountDown
  <2> QED BY <2>2, <2>3, <2>4
<1>3. net' \in [Node -> [Node -> Seq(InFlight)]]
  BY <1>2 DEF Tick
<1> QED BY <1>1, <1>3 DEF Tick, TypeOK

LEMMA SpendType ==
  ASSUME TypeOK, NEW f \in Fault, Spend(f)
  PROVE  left' \in [Fault -> Nat]
BY DEF Spend, TypeOK

LEMMA EnvironmentType ==
  ASSUME TypeOK, Environment
  PROVE  TypeOK'
<1>1. \A n \in Node : Discarded(n) \in [Node -> [Node -> Seq(InFlight)]]
  BY DEF Discarded, TypeOK
<1>2. \A s \in Election : \A g \in Signal : Enqueue(s, Signalled(g)) \in Election
  <2>1. \A g \in Signal : Signalled(g) \in Item
    BY DEF Signalled, Item, Handoff
  <2> QED BY <2>1, EnqueueType
<1>3. ASSUME NEW n \in Node, Boot(n) PROVE TypeOK'
  <2>1. Arm(NewElection, "watchdog", WatchdogPeriod) \in Election
    BY NewElectionType, ArmType, IntervalsAreNat DEF Timer
  <2>2. st' \in [Node -> Election]
    BY <1>2, <1>3, <2>1 DEF Boot, TypeOK, Signal
  <2> QED BY <1>3, <2>2, SpendType DEF Boot, TypeOK, Fault
<1>4. ASSUME NEW n \in Node, Crash(n) PROVE TypeOK'
  BY <1>1, <1>4, NewElectionType, SpendType DEF Crash, TypeOK, Fault
<1>5. ASSUME NEW n \in Node, Suspend(n) \/ Wake(n) \/ Partition(n) PROVE TypeOK'
  BY <1>5, SpendType DEF Suspend, Wake, Partition, TypeOK, Fault
<1>6. ASSUME NEW n \in Node, Conflict(n) PROVE TypeOK'
  <2>1. st' \in [Node -> Election]
    BY <1>2, <1>6 DEF Conflict, TypeOK, Signal
  <2> QED BY <1>6, <2>1, SpendType DEF Conflict, TypeOK, Fault
<1>7. ASSUME NEW n \in Node, Shutdown(n) \/ Withdraw(n) PROVE TypeOK'
  <2>1. PICK serves \in BOOLEAN : Leave(n, serves)
    BY <1>7 DEF Shutdown, Withdraw
  <2>2. Disarm(st[n], {"watchdog"}) \in Election
    BY DisarmType DEF TypeOK
  <2>3. st' \in [Node -> Election]
    BY <1>2, <2>1, <2>2 DEF Leave, TypeOK, Signal
  <2> QED BY <1>7, <2>1, <2>3, SpendType DEF Leave, Shutdown, Withdraw, TypeOK, Fault
<1>8. ASSUME NEW m \in Node, NEW n \in Node, Lose(m, n) PROVE TypeOK'
  <2>1. Tail(net[m][n]) \in Seq(InFlight)
    BY <1>8, HeadTailProperties DEF Lose, TypeOK
  <2> QED BY <1>8, <2>1, SpendType DEF Lose, TypeOK, Fault
<1>9. CASE Heal
  BY <1>9 DEF Heal, TypeOK
<1> QED
  BY <1>3, <1>4, <1>5, <1>6, <1>7, <1>8, <1>9 DEF Environment

LEMMA ExitType ==
  ASSUME TypeOK, NEW n \in Node, Exit(n)
  PROVE  TypeOK'
<1>1. Discarded(n) \in [Node -> [Node -> Seq(InFlight)]]
  BY DEF Discarded, TypeOK
<1> QED BY <1>1, NewElectionType DEF Exit, TypeOK

(* Every reachable state has its shape, whatever happens.                    *)
THEOREM TypeCorrect == Spec => []TypeOK
<1>1. Init => TypeOK
  BY NewElectionType, ElectionAssumption DEF Init, TypeOK
<1>2. TypeOK /\ [Next]_vars => TypeOK'
  <2> SUFFICES ASSUME TypeOK, [Next]_vars PROVE TypeOK'
    OBVIOUS
  <2>1. CASE Work
    BY <2>1, ReceiveType, FireType, RunType, FinishType, ExitType DEF Work, NodeStep
  <2>2. CASE Environment
    BY <2>2, EnvironmentType
  <2>3. CASE Tick
    BY <2>3, TickType
  <2>4. CASE UNCHANGED vars
    BY <2>4 DEF vars, TypeOK
  <2> QED BY <2>1, <2>2, <2>3, <2>4 DEF Next
<1> QED BY <1>1, <1>2, PTL DEF Spec

-----------------------------------------------------------------------------
(* The inductive invariant, while no provider reports a conflict.            *)

(* An election of a node in the power state p between two steps: role and    *)
(* consumer agree, and its boot, if still to come, comes first.              *)
Attended(s, p) ==
    /\ Tenured(s) /\ NoReprobe(s) /\ s.out = <<>>
    /\ \A k \in 1..Len(s.queue) :
          s.queue[k].kind = "boot" =>
             k = 1 /\ s.role = "stopped" /\ p \in {"on", "asleep"}

(* In none of the environments considered does f happen.                     *)
Excluded(f) == \A l \in Limits : l[f] = 0

Undisturbed ==
    /\ left["conflict"] = 0
    /\ \A n \in Node : Attended(st[n], power[n])

NoBoot(s) == \A k \in 1..Len(s.queue) : s.queue[k].kind # "boot"

LEMMA NewElectionAttended == \A p : Attended(NewElection, p)
BY DEF NewElection, Attended, Tenured, NoReprobe, NoTask, Timer

LEMMA EnqueueAttended ==
  ASSUME NEW s \in Election, NEW p, Attended(s, p),
         NEW i \in Item, i.kind \notin {"reprobe", "conflict", "boot"}
  PROVE  Attended(Enqueue(s, i), p)
<1> DEFINE r == Enqueue(s, i)
<1>1. s.queue \in Seq(Item)
  BY DEF Election
<1>2. /\ r.queue = Append(s.queue, i) /\ r.role = s.role /\ r.gate = s.gate
      /\ r.task = s.task /\ r.running = s.running /\ r.timer = s.timer /\ r.out = s.out
  BY DEF Enqueue, Election
<1>3. /\ Len(r.queue) = Len(s.queue) + 1 /\ Len(s.queue) \in Nat
      /\ \A k \in 1..Len(s.queue) : r.queue[k] = s.queue[k]
      /\ r.queue[Len(s.queue) + 1] = i
  BY <1>1, <1>2, AppendProperties, LenProperties
<1>4. \A k \in 1..Len(r.queue) : k \in 1..Len(s.queue) \/ r.queue[k] = i
  BY <1>3
<1> HIDE DEF r
<1>5. Tenured(r)
  BY <1>2 DEF Attended, Tenured
<1>6. NoReprobe(r)
  BY <1>2, <1>3, <1>4 DEF Attended, NoReprobe
<1>7. Attended(r, p)
  BY <1>2, <1>3, <1>4, <1>5, <1>6 DEF Attended
<1> QED BY <1>7 DEF r

LEMMA TimersAttended ==
  ASSUME NEW s \in Election, NEW p, Attended(s, p)
  PROVE  /\ \A t \in Timer \ {"reprobe"} : \A d : Attended(Arm(s, t, d), p)
         /\ \A ts : Attended(Disarm(s, ts), p)
BY ArmKeeps, DisarmKeeps DEF Attended, Tenured, NoReprobe, Keeps

LEMMA ElapseAttended ==
  ASSUME NEW s \in Election, NEW p, Attended(s, p)
  PROVE  Attended(Elapse(s), p) /\ Attended(Sleep(s), p)
<1> DEFINE e == [s EXCEPT !.timer = [t \in Timer |-> CountDown(@[t])],
                          !.heard = IF @ \in {Never, MasterTimeout} THEN @ ELSE @ + 1,
                          !.task.left = CountDown(@)]
           a == Arm(e, "watchdog", WatchdogPeriod)
           w == [a EXCEPT !.slept = 0]
<1>1. s.task \in Task
  BY DEF Election
<1>2. /\ e.role = s.role /\ e.gate = s.gate /\ e.running = s.running /\ e.queue = s.queue
      /\ e.out = s.out /\ e.task.op = s.task.op /\ e.task.then = s.task.then
      /\ e.timer["reprobe"] = CountDown(s.timer["reprobe"])
  BY <1>1 DEF Election, Task, Timer
<1>3. CountDown(Off) = Off
  BY DEF CountDown, Off
<1>4. Sleep(s) \in Election /\ Attended(Sleep(s), p)
  BY ElapseType DEF Sleep, Election, Attended, Tenured, NoReprobe
<1>5. e \in Election
  <2>1. [t \in Timer |-> CountDown(s.timer[t])] \in [Timer -> Nat \cup {Off}]
    BY DEF Election, CountDown, Off
  <2>2. [s.task EXCEPT !.left = CountDown(@)] \in Task
    BY <1>1 DEF Task, CountDown
  <2>3. (IF s.heard \in {Never, MasterTimeout} THEN s.heard ELSE s.heard + 1)
          \in Nat \cup {Never}
    BY DEF Election, Never
  <2> QED BY <2>1, <2>2, <2>3 DEF Election
<1> HIDE DEF e
<1>6. Attended(e, p)
  BY <1>2, <1>3 DEF Attended, Tenured, NoReprobe
<1>7. a \in Election /\ Attended(a, p)
  BY <1>5, <1>6, ArmType, TimersAttended, IntervalsAreNat DEF Timer
<1> HIDE DEF a
<1>8. w \in Election /\ Attended(w, p)
  BY ZenonT(60), <1>7 DEF Election, Attended, Tenured, NoReprobe
<1>9. \A g \in {"wake", "timeout"} : Attended(Enqueue(w, Signalled(g)), p)
  <2>1. \A g \in {"wake", "timeout"} : Signalled(g) \in Item /\ Signalled(g).kind = g
    BY DEF Signalled, Item, Signal, Handoff
  <2> HIDE DEF w
  <2> QED BY <1>8, <2>1, EnqueueAttended
<1>10. Attended(Watchdog(e), p)
  BY <1>8, <1>9 DEF Watchdog, w, a
<1>11. Elapse(s) \in {e, Watchdog(e)}
  BY DEF Elapse, e
<1> QED BY <1>4, <1>6, <1>10, <1>11

(* What Run, FinishStart and FinishStop commit for node n in the record r.   *)
Committed(n, r) ==
    /\ Commit(n, r) /\ Tenured(r) /\ NoReprobe(r) /\ NoBoot(r)
    /\ Candid(st[n], r) /\ Orderly(st[n], r)
    /\ st[n].role = "stopped" /\ power[n] = "leaving" => r.role = "stopped"

LEMMA RunCommits ==
  ASSUME TypeOK, Undisturbed, NEW n \in Node, Run(n)
  PROVE  \E r \in Election : Committed(n, r)
<1> DEFINE q == st[n].queue
           i == Head(q)
           s == [st[n] EXCEPT !.queue = Tail(@)]
<1>1. /\ q \in Seq(Item) /\ q # <<>> /\ st[n] \in Election /\ canServe[n] \in BOOLEAN
      /\ st[n].task.op = "none" /\ Attended(st[n], power[n])
  BY DEF Run, TypeOK, Election, Undisturbed
<1>2. /\ i \in Item /\ i = q[1] /\ Tail(q) \in Seq(Item)
      /\ Len(q) \in Nat /\ Len(q) > 0 /\ Len(Tail(q)) = Len(q) - 1
      /\ \A k \in 1..Len(Tail(q)) : Tail(q)[k] = q[k + 1]
  BY <1>1, HeadTailProperties, EmptySeq
<1>3. /\ s \in Election /\ s.queue = Tail(q) /\ s.role = st[n].role /\ s.gate = st[n].gate
      /\ s.task = st[n].task /\ s.running = st[n].running /\ s.timer = st[n].timer
      /\ s.out = st[n].out
  BY <1>1, <1>2 DEF Election
<1>4. PICK r \in Outcomes(n, s, canServe[n], i) : Commit(n, r)
  BY DEF Run
<1> HIDE DEF s, i
<1>5. Ready(s) /\ NoBoot(s)
  <2>1. Tenured(s)
    BY <1>1, <1>3 DEF Attended, Tenured
  <2>2. NoReprobe(s)
    BY <1>1, <1>2, <1>3 DEF Attended, NoReprobe
  <2>3. NoBoot(s)
    BY <1>1, <1>2, <1>3 DEF Attended, NoBoot
  <2> QED BY <1>1, <1>3, <2>1, <2>2, <2>3 DEF Ready, Attended
<1>6. /\ i.kind \notin {"reprobe", "conflict"}
      /\ i.kind = "boot" => s.role = "stopped" /\ power[n] # "leaving"
  BY <1>1, <1>2, <1>3 DEF Attended, NoReprobe
<1>7. r \in Election /\ Sound(s, r)
  BY <1>1, <1>2, <1>3, <1>4, <1>5, <1>6, OutcomesType, OutcomesSound
<1>8. s.role = "stopped" /\ power[n] = "leaving" => r.role = "stopped"
  BY <1>1, <1>2, <1>3, <1>4, <1>6, OutcomesOfStopped
<1>9. Tenured(r) /\ NoReprobe(r) /\ NoBoot(r) /\ Candid(st[n], r) /\ Orderly(st[n], r)
  BY <1>3, <1>5, <1>7 DEF Sound, NoBoot, Candid, Orderly
<1> QED BY <1>3, <1>4, <1>7, <1>8, <1>9 DEF Committed

LEMMA FinishCommits ==
  ASSUME TypeOK, Undisturbed, ~StopMayFail, NEW n \in Node, FinishStart(n) \/ FinishStop(n)
  PROVE  \E r \in Election : Committed(n, r)
<1> DEFINE k == st[n].task
<1>1. /\ st[n] \in Election /\ k \in Task /\ st[n].out = <<>>
      /\ Tenured(st[n]) /\ NoReprobe(st[n]) /\ st[n].role # "stopped" /\ NoBoot(st[n])
  BY DEF TypeOK, Election, Undisturbed, Attended, Tenured, FinishStart, FinishStop, NoBoot
<1>2. CASE FinishStart(n)
  <2>1. PICK reads \in BOOLEAN : Commit(n, ConsumerStarted(st[n], reads))
    BY <1>2 DEF FinishStart
  <2> DEFINE r == ConsumerStarted(st[n], reads)
  <2>2. r \in Election /\ Sound(st[n], r)
    BY <1>1, <1>2, ConsumerStartedType, ConsumerStartedSound DEF FinishStart
  <2>3. Commit(n, r)
    BY <2>1
  <2> HIDE DEF r
  <2> QED BY <1>1, <2>2, <2>3 DEF Committed, Sound, NoBoot
<1>3. CASE FinishStop(n)
  <2> DEFINE r == Resign(st[n], k.next, k.then, "off")
  <2>1. Commit(n, r)
    BY <1>3 DEF FinishStop
  <2>2. k.next \in Peer /\ k.then \in Continuation \ {"reprobe"}
    BY <1>1 DEF Task, Peer, NoReprobe
  <2>3. r \in Election /\ Sound(st[n], r)
    BY <1>1, <2>2, ResignType, ResignSound DEF Gate
  <2> HIDE DEF r
  <2> QED BY <1>1, <2>1, <2>3 DEF Committed, Sound, NoBoot
<1> QED BY <1>2, <1>3

LEMMA CommittedAttended ==
  ASSUME TypeOK, Undisturbed, NEW n \in Node, NEW r \in Election, Committed(n, r)
  PROVE  \A m \in Node : \A p : p = power[m] => Attended(st'[m], p)
<1> DEFINE e == [r EXCEPT !.out = <<>>]
<1>1. e.out = <<>> /\ \A p : Attended(e, p)
  BY DEF Election, Committed, Attended, Tenured, NoReprobe, NoBoot
<1>2. st' = [st EXCEPT ![n] = e]
  BY DEF Committed, Commit
<1> HIDE DEF e
<1> QED BY <1>1, <1>2 DEF TypeOK, Undisturbed

LEMMA ReceiveAttended ==
  ASSUME TypeOK, Undisturbed, NEW m \in Node, NEW n \in Node, Receive(m, n)
  PROVE  Undisturbed'
<1> DEFINE i == FromPeer(Head(net[m][n]).type, m)
<1>1. i \in Item /\ i.kind \in Datagram
  <2>1. Head(net[m][n]) \in InFlight
    BY HeadTailProperties DEF Receive, TypeOK
  <2> QED BY <2>1 DEF FromPeer, Item, InFlight, Handoff
<1> HIDE DEF i
<1>2. Attended(Enqueue(st[n], i), power[n])
  BY <1>1, EnqueueAttended DEF TypeOK, Undisturbed, Datagram
<1>3. st' = st \/ st' = [st EXCEPT ![n] = Enqueue(@, i)]
  BY DEF Receive, i
<1> QED BY <1>2, <1>3 DEF Receive, TypeOK, Undisturbed

LEMMA FireAttended ==
  ASSUME TypeOK, Undisturbed, NEW n \in Node, NEW t \in Timer, Fire(n, t)
  PROVE  Undisturbed'
<1> DEFINE a == Arm(st[n], t, Off)
           i == Fired(t, st[n].handoff)
<1>1. t # "reprobe"
  BY DEF Fire, Undisturbed, Attended, NoReprobe, Off
<1>2. i \in Item /\ i.kind = t
  BY DEF Fired, Item, TypeOK, Election
<1>3. a \in Election /\ Attended(a, power[n])
  BY <1>1, ArmType, TimersAttended DEF TypeOK, Undisturbed
<1>4. a.handoff = st[n].handoff
  BY DEF Arm, TypeOK, Election
<1>5. st' = [st EXCEPT ![n] = Enqueue(a, i)]
  BY <1>4 DEF Fire, TypeOK
<1> HIDE DEF a, i
<1>6. Attended(Enqueue(a, i), power[n])
  BY <1>1, <1>2, <1>3, EnqueueAttended DEF Timer
<1> QED BY <1>5, <1>6 DEF Fire, TypeOK, Undisturbed

LEMMA EnvironmentAttended ==
  ASSUME TypeOK, Undisturbed, Environment
  PROVE  Undisturbed'
<1>1. \A f \in Fault \ {"conflict"} : Spend(f) => left'["conflict"] = 0
  BY DEF Spend, TypeOK, Undisturbed, Fault
<1>2. ASSUME NEW n \in Node, Boot(n) PROVE Undisturbed'
  <2> DEFINE a == Arm(NewElection, "watchdog", WatchdogPeriod)
             r == Enqueue(a, Signalled("boot"))
  <2>1. /\ a \in Election /\ Attended(a, "on") /\ a.queue = <<>> /\ a.role = "stopped"
    <3>1. a \in Election /\ Attended(a, "on")
      BY NewElectionType, NewElectionAttended, ArmType, TimersAttended, IntervalsAreNat
      DEF Timer
    <3> QED BY <3>1 DEF Arm, NewElection
  <2> HIDE DEF a
  <2>2. Signalled("boot").kind = "boot" /\ Signalled("boot") \in Item
    BY DEF Signalled, Item, Signal, Handoff
  <2>3. /\ r.queue = <<Signalled("boot")>> /\ r.role = "stopped" /\ r.gate = a.gate
        /\ r.task = a.task /\ r.running = a.running /\ r.timer = a.timer /\ r.out = a.out
    BY <2>1 DEF Enqueue, Election
  <2> HIDE DEF r
  <2>4. Attended(r, "on")
    BY <2>1, <2>2, <2>3 DEF Attended, Tenured, NoReprobe
  <2>5. st' = [st EXCEPT ![n] = r] /\ power' = [power EXCEPT ![n] = "on"]
    BY <1>2 DEF Boot, r, a
  <2>6. left'["conflict"] = 0
    BY <1>1, <1>2 DEF Boot, Fault
  <2> QED BY <2>4, <2>5, <2>6 DEF TypeOK, Undisturbed
<1>3. ASSUME NEW n \in Node, Crash(n) PROVE Undisturbed'
  BY <1>1, <1>3, NewElectionAttended DEF Crash, TypeOK, Undisturbed, Fault
<1>4. ASSUME NEW n \in Node, Suspend(n) \/ Wake(n) PROVE Undisturbed'
  <2>1. ASSUME NEW m \in Node PROVE Attended(st[m], power'[m])
    <3>1. power'[m] = power[m] \/ power'[m] \in {"on", "asleep"}
      BY <1>4 DEF Suspend, Wake, TypeOK
    <3> QED BY <3>1 DEF Undisturbed, Attended
  <2>2. st' = st /\ left'["conflict"] = 0
    BY <1>1, <1>4 DEF Suspend, Wake, Undisturbed, Fault
  <2> QED BY <2>1, <2>2 DEF Undisturbed
<1>5. ASSUME NEW n \in Node, Partition(n) PROVE Undisturbed'
  BY <1>1, <1>5 DEF Partition, Undisturbed, Fault
<1>6. ASSUME NEW n \in Node, Conflict(n) PROVE FALSE
  BY <1>6 DEF Conflict, Spend, Undisturbed
<1>7. ASSUME NEW n \in Node, Shutdown(n) \/ Withdraw(n) PROVE Undisturbed'
  <2> DEFINE d == Disarm(st[n], {"watchdog"})
             r == Enqueue(d, Signalled("stop"))
  <2>1. PICK serves \in BOOLEAN : Leave(n, serves)
    BY <1>7 DEF Shutdown, Withdraw
  <2>2. d \in Election /\ d.role # "stopped" /\ Attended(d, power[n])
    BY <2>1, DisarmType, TimersAttended, DisarmKeeps DEF Leave, TypeOK, Undisturbed
  <2>3. Attended(d, "leaving")
    BY <2>2 DEF Attended
  <2>4. Signalled("stop").kind = "stop" /\ Signalled("stop") \in Item
    BY DEF Signalled, Item, Signal, Handoff
  <2> HIDE DEF d
  <2>5. Attended(r, "leaving")
    BY <2>2, <2>3, <2>4, EnqueueAttended
  <2>6. st' = [st EXCEPT ![n] = r] /\ power' = [power EXCEPT ![n] = "leaving"]
    BY <2>1 DEF Leave, d
  <2>7. left'["conflict"] = 0
    BY <1>1, <1>7 DEF Shutdown, Withdraw, Fault
  <2> HIDE DEF r
  <2> QED BY <2>5, <2>6, <2>7 DEF TypeOK, Undisturbed
<1>8. ASSUME NEW m \in Node, NEW n \in Node, Lose(m, n) PROVE Undisturbed'
  BY <1>1, <1>8 DEF Lose, Undisturbed, Fault
<1>9. CASE Heal
  BY <1>9 DEF Heal, Undisturbed
<1> QED
  BY <1>2, <1>3, <1>4, <1>5, <1>6, <1>7, <1>8, <1>9 DEF Environment

LEMMA UndisturbedStep ==
  ASSUME TypeOK, Undisturbed, ~StopMayFail, [Next]_vars
  PROVE  Undisturbed'
<1>1. ASSUME NEW n \in Node, Run(n) \/ FinishStart(n) \/ FinishStop(n) PROVE Undisturbed'
  <2>1. PICK r \in Election : Committed(n, r)
    BY <1>1, RunCommits, FinishCommits
  <2>2. power' = power /\ left' = left
    BY <1>1 DEF Run, FinishStart, FinishStop
  <2> QED BY <2>1, <2>2, CommittedAttended DEF Undisturbed
<1>2. ASSUME NEW n \in Node, Exit(n) PROVE Undisturbed'
  BY <1>2, NewElectionAttended DEF Exit, TypeOK, Undisturbed
<1>3. CASE Work
  BY <1>1, <1>2, <1>3, ReceiveAttended, FireAttended DEF Work, NodeStep
<1>4. CASE Environment
  BY <1>4, EnvironmentAttended
<1>5. CASE Tick
  <2>1. \A n \in Node : /\ Attended(Elapse(st[n]), power[n])
                        /\ Attended(Sleep(st[n]), power[n])
    BY ElapseAttended DEF TypeOK, Undisturbed
  <2>2. \A n \in Node : st'[n] \in {Elapse(st[n]), Sleep(st[n]), st[n]}
    BY <1>5 DEF Tick
  <2> QED BY <1>5, <2>1, <2>2 DEF Tick, Undisturbed
<1>6. CASE UNCHANGED vars
  BY <1>6 DEF vars, Undisturbed
<1> QED BY <1>3, <1>4, <1>5, <1>6 DEF Next

(* Undisturbed is an invariant: no step of the election, of the network or of *)
(* the environment leaves a consumer, a late closure or a stop unattended.    *)
THEOREM StaysUndisturbed ==
  ASSUME ~StopMayFail, Excluded("conflict")
  PROVE  Spec => []Undisturbed
<1>1. Init => Undisturbed
  BY NewElectionAttended DEF Init, Undisturbed, Excluded
<1>2. TypeOK /\ Undisturbed /\ [Next]_vars => Undisturbed'
  BY UndisturbedStep
<1> QED BY <1>1, <1>2, TypeCorrect, PTL DEF Spec

(* Whatever is lost, delayed, cut off, crashed or suspended, and whatever    *)
(* the timing: a node whose consumer runs is the master or hands over.       *)
THEOREM TenureSafe ==
  ASSUME ~StopMayFail, Excluded("conflict")
  PROVE  Spec => []ConsumerOnlyUnderTenure
<1>1. TypeOK /\ Undisturbed => ConsumerOnlyUnderTenure
  BY DEF TypeOK, Election, Gate, Undisturbed, Attended, Tenured, ConsumerOnlyUnderTenure
<1> QED BY <1>1, StaysUndisturbed, TypeCorrect, PTL

(* A stopped election of a node that leaves is never revived by what its     *)
(* queue still holds.                                                        *)
THEOREM StopSticks ==
  ASSUME ~StopMayFail, Excluded("conflict")
  PROVE  Spec => StopIsFinal
<1> DEFINE Sticks == \A n \in Node :
             power[n] = "leaving" /\ st[n].role = "stopped" => st'[n].role = "stopped"
<1>1. ASSUME TypeOK, Undisturbed, [Next]_vars PROVE Sticks
  <2> SUFFICES ASSUME NEW n \in Node, power[n] = "leaving", st[n].role = "stopped"
               PROVE  st'[n].role = "stopped"
    OBVIOUS
  <2> USE <1>1
  <2>1. /\ \A i : Enqueue(st[n], i).role = "stopped"
        /\ \A t \in Timer : \A i : Enqueue(Arm(st[n], t, Off), i).role = "stopped"
    BY DEF TypeOK, Election, Enqueue, Arm
  <2>2. NewElection.role = "stopped"
    BY DEF NewElection
  <2>3. ASSUME NEW m \in Node, NodeStep(m) PROVE st'[n].role = "stopped"
    <3>1. CASE \E l \in Node : Receive(l, m)
      BY <2>1, <3>1 DEF Receive, TypeOK
    <3>2. CASE \E t \in Timer : Fire(m, t)
      BY <2>1, <3>2 DEF Fire, TypeOK
    <3>3. CASE Run(m) \/ FinishStart(m) \/ FinishStop(m)
      <4>1. PICK r \in Election : Committed(m, r)
        BY <3>3, RunCommits, FinishCommits
      <4>2. [r EXCEPT !.out = <<>>].role = r.role
        BY DEF Election
      <4> QED BY <4>1, <4>2 DEF Committed, Commit, TypeOK
    <3>4. CASE Exit(m)
      BY <2>2, <3>4 DEF Exit, TypeOK
    <3> QED BY <2>3, <3>1, <3>2, <3>3, <3>4 DEF NodeStep
  <2>4. CASE Environment
    BY <2>2, <2>4 DEF Environment, Boot, Crash, Suspend, Wake, Partition, Conflict,
       Shutdown, Withdraw, Leave, Lose, Heal, TypeOK
  <2>5. CASE Tick
    <3>1. Elapse(st[n]).role = "stopped"
      BY DEF Elapse, Watchdog, Enqueue, Arm, TypeOK, Election
    <3> QED BY <2>5, <3>1 DEF Tick, Alive
  <2>6. CASE UNCHANGED vars
    BY <2>6 DEF vars
  <2> QED BY <2>3, <2>4, <2>5, <2>6 DEF Next, Work
<1>2. TypeOK /\ Undisturbed /\ [Next]_vars => [Sticks]_vars
  BY <1>1
<1> QED BY <1>2, StaysUndisturbed, TypeCorrect, PTL DEF Spec, StopIsFinal

-----------------------------------------------------------------------------
(* The meaning of RESIGN, while every node that runs hears every other.      *)

Whole ==
    /\ split = {} /\ left["split"] = 0 /\ left["sleep"] = 0
    /\ \A n \in Node : power[n] # "asleep" /\ net[n][n] = <<>>
    /\ \A m, n \in Node : power[n] = "off" => net[m][n] = <<>>

(* What m said last to n, if it is still in flight, is true.                 *)
Honest(said, s) ==
    said # <<>> /\ said[Len(said)].type = "RESIGN" => s.gate = "off"

LEMMA TailIsHonest ==
  ASSUME NEW said \in Seq(InFlight), said # <<>>, NEW s, Honest(said, s)
  PROVE  Honest(Tail(said), s)
<1>1. /\ Len(said) \in Nat /\ Len(said) > 0 /\ Tail(said) \in Seq(InFlight)
      /\ Len(Tail(said)) = Len(said) - 1
      /\ \A k \in 1..Len(Tail(said)) : Tail(said)[k] = said[k + 1]
  BY HeadTailProperties, EmptySeq
<1>2. Tail(said) # <<>> => Len(Tail(said)) > 0
  BY <1>1, EmptySeq
<1>3. Tail(said) # <<>> => Tail(said)[Len(Tail(said))] = said[Len(said)]
  BY <1>1, <1>2
<1> QED BY <1>3 DEF Honest

LEMMA NoTailIsHonest == \A s : Honest(<<>>, s)
BY DEF Honest

LEMMA MoreIsHonest ==
  ASSUME NEW said \in Seq(InFlight), NEW s, Honest(said, s),
         NEW r \in Election, Candid(s, r)
  PROVE  Honest(said \o Stamped(r.out), r)
<1> DEFINE more == Stamped(r.out)
<1>1. r.out \in Seq(Datagram) /\ more \in Seq(InFlight)
  BY StampedType DEF Election
<1>2. /\ Len(r.out) \in Nat /\ Len(more) = Len(r.out)
      /\ \A k \in 1..Len(r.out) : more[k].type = r.out[k]
  <2>1. Len(r.out) \in Nat
    BY <1>1
  <2> QED BY <2>1 DEF Stamped
<1> HIDE DEF more
<1>3. CASE r.out = <<>>
  <2>1. more = <<>>
    BY <1>1, <1>2, <1>3, EmptySeq
  <2>2. said \o more = said
    BY <2>1
  <2> QED BY <1>3, <2>2 DEF Honest, Candid, more
<1>4. CASE r.out # <<>>
  <2>1. Len(r.out) > 0 /\ Len(said) \in Nat
    BY <1>1, <1>2, <1>4, EmptySeq
  <2>2. /\ Len(said \o more) = Len(said) + Len(more)
        /\ (said \o more)[Len(said) + Len(more)] = more[Len(more)]
    <3>1. \A S : \A a, b \in Seq(S) :
             /\ Len(a \o b) = Len(a) + Len(b)
             /\ \A k \in 1..Len(a) + Len(b) :
                   (a \o b)[k] = IF k <= Len(a) THEN a[k] ELSE b[k - Len(a)]
      BY ConcatProperties
    <3>2. /\ Len(said \o more) = Len(said) + Len(more)
          /\ \A k \in 1..Len(said) + Len(more) :
                (said \o more)[k] = IF k <= Len(said) THEN said[k] ELSE more[k - Len(said)]
      BY <1>1, <3>1
    <3>3. /\ Len(said) + Len(more) \in 1..Len(said) + Len(more)
          /\ ~(Len(said) + Len(more) <= Len(said))
          /\ Len(said) + Len(more) - Len(said) = Len(more)
      BY <1>2, <2>1
    <3> QED BY <3>2, <3>3
  <2> QED BY <1>2, <1>4, <2>1, <2>2 DEF Honest, Candid, more
<1> QED BY <1>3, <1>4

LEMMA CommittedHonest ==
  ASSUME TypeOK, Whole, ResignIsHonest,
         NEW n \in Node, NEW r \in Election, Committed(n, r), UNCHANGED <<power, split, left>>
  PROVE  Whole' /\ ResignIsHonest'
<1> DEFINE e == [r EXCEPT !.out = <<>>]
<1>1. /\ st' = [st EXCEPT ![n] = e] /\ e.gate = r.gate
      /\ net' = [net EXCEPT ![n] = [m \in Node |->
                   IF Reaches(n, m) THEN @[m] \o Stamped(r.out) ELSE @[m]]]
  BY DEF Committed, Commit, Election
<1> HIDE DEF e
<1>2. ASSUME NEW m \in Node PROVE IF Reaches(n, m) THEN net'[n][m] = net[n][m] \o Stamped(r.out)
                                                   ELSE net'[n][m] = <<>>
  <2>1. ~Reaches(n, m) => m = n \/ power[m] = "off"
    BY DEF Reaches, Alive, Whole, TypeOK
  <2> QED BY <1>1, <2>1 DEF Whole, TypeOK
<1>3. \A l \in Node \ {n} : \A m \in Node : net'[l][m] = net[l][m] /\ st'[l] = st[l]
  BY <1>1 DEF TypeOK
<1>4. \A m \in Node : Honest(net'[n][m], r)
  BY <1>2, MoreIsHonest, NoTailIsHonest DEF ResignIsHonest, Honest, TypeOK, Committed
<1>5. Whole'
  <2>1. \A m \in Node : power[m] # "asleep" /\ net'[m][m] = <<>>
    BY <1>2, <1>3 DEF Whole, Reaches
  <2>2. ASSUME NEW l \in Node, NEW m \in Node, power[m] = "off" PROVE net'[l][m] = <<>>
    <3>1. ~Reaches(n, m) /\ net[l][m] = <<>>
      BY <2>2 DEF Whole, Reaches, Alive
    <3> QED BY <1>2, <1>3, <3>1
  <2> QED BY <2>1, <2>2 DEF Whole
<1>6. st'[n].gate = r.gate
  BY <1>1 DEF TypeOK
<1> QED BY <1>3, <1>4, <1>5, <1>6 DEF ResignIsHonest, Honest

LEMMA EnqueueKeepsGate ==
  ASSUME NEW s \in Election
  PROVE  /\ \A i : Enqueue(s, i).gate = s.gate
         /\ \A t \in Timer : \A d, i : Enqueue(Arm(s, t, d), i).gate = s.gate
         /\ \A ts, i : Enqueue(Disarm(s, ts), i).gate = s.gate
         /\ Elapse(s).gate = s.gate /\ Sleep(s).gate = s.gate
<1>1. /\ \A i : Enqueue(s, i).gate = s.gate
      /\ \A t \in Timer : \A d, i : Enqueue(Arm(s, t, d), i).gate = s.gate
      /\ \A ts, i : Enqueue(Disarm(s, ts), i).gate = s.gate
      /\ Sleep(s).gate = s.gate
  BY DEF Enqueue, Arm, Disarm, Sleep, Election
<1>2. Elapse(s).gate = s.gate
  BY DEF Elapse, Watchdog, Enqueue, Arm, Election
<1> QED BY <1>1, <1>2

(* What one node forgets when it goes, every other may as well have heard.   *)
LEMMA DiscardedHonest ==
  ASSUME TypeOK, Whole, ResignIsHonest, NEW n \in Node,
         st' = [st EXCEPT ![n] = NewElection], net' = Discarded(n)
  PROVE  /\ ResignIsHonest' /\ \A l \in Node : net'[l][n] = <<>>
         /\ \A l, m \in Node : net'[l][m] = net[l][m] \/ net'[l][m] = <<>>
<1>1. \A l, m \in Node : net'[l][m] = IF m = n THEN <<>> ELSE net[l][m]
  BY DEF Discarded, TypeOK
<1>2. NewElection.gate = "off"
  BY DEF NewElection
<1>3. \A l \in Node : st'[l].gate = st[l].gate \/ st'[l].gate = "off"
  BY <1>2 DEF TypeOK
<1> QED BY <1>1, <1>3 DEF ResignIsHonest

LEMMA HonestStep ==
  ASSUME TypeOK, Undisturbed, Whole, ResignIsHonest, ~StopMayFail, [Next]_vars
  PROVE  Whole' /\ ResignIsHonest'
<1>1. \A s \in Node : st[s] \in Election
  BY DEF TypeOK
<1>2. ASSUME NEW n \in Node, Run(n) \/ FinishStart(n) \/ FinishStop(n)
      PROVE  Whole' /\ ResignIsHonest'
  <2>1. PICK r \in Election : Committed(n, r)
    BY <1>2, RunCommits, FinishCommits
  <2>2. UNCHANGED <<power, split, left>>
    BY <1>2 DEF Run, FinishStart, FinishStop
  <2> QED BY <2>1, <2>2, CommittedHonest
<1>3. ASSUME NEW m \in Node, NEW n \in Node, Receive(m, n) \/ Lose(m, n)
      PROVE  Whole' /\ ResignIsHonest'
  <2>1. /\ \A l \in Node : st'[l].gate = st[l].gate
        /\ net' = [net EXCEPT ![m][n] = Tail(@)] /\ net[m][n] # <<>>
        /\ UNCHANGED <<power, split>> /\ left'["split"] = 0 /\ left'["sleep"] = 0
    <3>1. st' = st \/ \E i : st' = [st EXCEPT ![n] = Enqueue(@, i)]
      BY <1>3 DEF Receive, Lose
    <3>2. \A l \in Node : st'[l].gate = st[l].gate
      <4>1. st[n] \in Election
        BY <1>1
      <4>2. \A i : Enqueue(st[n], i).gate = st[n].gate
        BY <4>1, EnqueueKeepsGate
      <4> QED BY <3>1, <4>2 DEF TypeOK
    <3>3. left'["split"] = 0 /\ left'["sleep"] = 0
      BY <1>3 DEF Receive, Lose, Spend, TypeOK, Fault, Whole
    <3> QED BY <1>3, <3>2, <3>3 DEF Receive, Lose
  <2>2. \A k, l \in Node :
           net'[k][l] = IF k = m /\ l = n THEN Tail(net[m][n]) ELSE net[k][l]
    BY <2>1 DEF TypeOK
  <2>3. Honest(Tail(net[m][n]), st[m])
    BY <2>1, TailIsHonest DEF ResignIsHonest, Honest, TypeOK
  <2>4. ResignIsHonest'
    BY <2>1, <2>2, <2>3 DEF ResignIsHonest, Honest
  <2>5. m # n /\ power[n] # "off"
    BY <2>1 DEF Whole
  <2>6. Whole'
    BY <2>1, <2>2, <2>5 DEF Whole
  <2> QED BY <2>4, <2>6
<1>4. ASSUME NEW n \in Node, NEW t \in Timer, Fire(n, t) PROVE Whole' /\ ResignIsHonest'
  <2>1. \A l \in Node : st'[l].gate = st[l].gate
    BY <1>1, <1>4, EnqueueKeepsGate DEF Fire, TypeOK
  <2> QED BY <1>4, <2>1 DEF Fire, Whole, ResignIsHonest
<1>5. ASSUME NEW n \in Node, Exit(n) \/ Crash(n) PROVE Whole' /\ ResignIsHonest'
  <2>1. /\ st' = [st EXCEPT ![n] = NewElection] /\ net' = Discarded(n)
        /\ power' = [power EXCEPT ![n] = "off"] /\ split' = split
        /\ left'["split"] = 0 /\ left'["sleep"] = 0
    BY <1>5 DEF Exit, Crash, Spend, TypeOK, Fault, Whole
  <2> QED BY ZenonT(60), <2>1, DiscardedHonest DEF Whole, TypeOK
<1>6. ASSUME NEW n \in Node, Boot(n) PROVE Whole' /\ ResignIsHonest'
  <2>1. Enqueue(Arm(NewElection, "watchdog", WatchdogPeriod), Signalled("boot")).gate = "off"
    BY NewElectionType, EnqueueKeepsGate DEF NewElection, Timer
  <2>2. \A l \in Node : st'[l].gate = st[l].gate \/ st'[l].gate = "off"
    BY <1>6, <2>1 DEF Boot, TypeOK
  <2>3. UNCHANGED <<net, split>> /\ left'["split"] = 0 /\ left'["sleep"] = 0
    BY <1>6 DEF Boot, Spend, TypeOK, Fault, Whole
  <2>4. \A m \in Node : power'[m] = power[m] \/ power'[m] = "on"
    BY <1>6 DEF Boot, TypeOK
  <2> QED BY <2>2, <2>3, <2>4 DEF Whole, ResignIsHonest
<1>7. ASSUME NEW n \in Node, Suspend(n) \/ Wake(n) \/ Partition(n) PROVE FALSE
  BY <1>7 DEF Suspend, Wake, Partition, Spend, Whole
<1>8. ASSUME NEW n \in Node, Conflict(n) \/ Shutdown(n) \/ Withdraw(n)
      PROVE  Whole' /\ ResignIsHonest'
  <2>1. \A l \in Node : st'[l].gate = st[l].gate
    BY <1>1, <1>8, EnqueueKeepsGate DEF Conflict, Shutdown, Withdraw, Leave, TypeOK
  <2>2. UNCHANGED <<net, split>> /\ left'["split"] = 0 /\ left'["sleep"] = 0
    BY <1>8 DEF Conflict, Shutdown, Withdraw, Leave, Spend, TypeOK, Fault, Whole
  <2>3. \A m \in Node : power'[m] = power[m] \/ power'[m] = "leaving"
    BY <1>8 DEF Conflict, Shutdown, Withdraw, Leave, TypeOK
  <2> QED BY <2>1, <2>2, <2>3 DEF Whole, ResignIsHonest
<1>9. CASE Heal
  BY <1>9 DEF Heal, Whole
<1>10. CASE Tick
  <2>1. \A l \in Node : st'[l].gate = st[l].gate
    BY <1>1, <1>10, EnqueueKeepsGate DEF Tick
  <2>2. ASSUME NEW m \in Node, NEW n \in Node
        PROVE  /\ net[m][n] = <<>> => net'[m][n] = <<>>
               /\ net'[m][n] # <<>> =>
                    net[m][n] # <<>> /\
                    net'[m][n][Len(net'[m][n])].type = net[m][n][Len(net[m][n])].type
    <3> DEFINE q == net[m][n]
               d == [k \in DOMAIN q |-> [q[k] EXCEPT !.due = CountDown(@)]]
    <3>1. q \in Seq(InFlight) /\ net'[m][n] = d
      BY <1>10 DEF Tick, TypeOK
    <3>2. Len(q) \in Nat /\ DOMAIN q = 1..Len(q) /\ \A k \in 1..Len(q) : q[k] \in InFlight
      BY <3>1, LenProperties, ElementOfSeq
    <3>3. d \in Seq(InFlight) /\ Len(d) = Len(q) /\ \A k \in 1..Len(q) : d[k].type = q[k].type
      <4>1. \A k \in 1..Len(q) : d[k] \in InFlight /\ d[k].type = q[k].type
        BY <3>2 DEF InFlight, CountDown
      <4>2. d = [k \in 1..Len(q) |-> d[k]]
        BY <3>2
      <4> HIDE DEF d
      <4>3. d \in Seq(InFlight) /\ Len(d) = Len(q)
        BY <3>2, <4>1, <4>2
      <4> QED BY <4>1, <4>3
    <3> HIDE DEF q, d
    <3>4. (q = <<>> <=> Len(q) = 0) /\ (d = <<>> <=> Len(d) = 0)
      BY <3>1, <3>3, EmptySeq
    <3>5. d # <<>> => q # <<>> /\ d[Len(d)].type = q[Len(q)].type
      BY <3>2, <3>3, <3>4
    <3> QED BY <3>1, <3>3, <3>4, <3>5 DEF q
  <2>3. UNCHANGED <<power, split, left>>
    BY <1>10 DEF Tick
  <2>4. Whole'
    BY <2>2, <2>3 DEF Whole
  <2>5. ResignIsHonest'
    BY <2>1, <2>2 DEF ResignIsHonest
  <2> QED BY <2>4, <2>5
<1>11. CASE UNCHANGED vars
  BY <1>11 DEF vars, Whole, ResignIsHonest
<1> QED
  BY <1>2, <1>3, <1>4, <1>5, <1>6, <1>7, <1>8, <1>9, <1>10, <1>11
  DEF Next, Work, NodeStep, Environment

(* While every node hears every other, and messages may still be late or     *)
(* lost: a RESIGN that nothing has followed is true.                         *)
THEOREM HonestResign ==
  ASSUME ~StopMayFail, Excluded("conflict"), Excluded("split"), Excluded("sleep")
  PROVE  Spec => []ResignIsHonest
<1>1. Init => Whole /\ ResignIsHonest
  BY DEF Init, Whole, ResignIsHonest, Excluded
<1>2. TypeOK /\ Undisturbed /\ Whole /\ ResignIsHonest /\ [Next]_vars
         => Whole' /\ ResignIsHonest'
  BY HonestStep
<1> QED BY <1>1, <1>2, StaysUndisturbed, TypeCorrect, PTL DEF Spec

-----------------------------------------------------------------------------
(* The election implements SurfaceTenure, step by step, as long as no two    *)
(* nodes read at once and no host is suspended.  (A host that wakes up has a *)
(* consumer that goes on in the middle of a tenure nobody saw begin.)        *)

Awake == left["sleep"] = 0 /\ \A n \in Node : power[n] # "asleep"

LEMMA AwakeStep ==
  ASSUME TypeOK, Awake, [Next]_vars
  PROVE  Awake'
<1>1. \A f \in Fault \ {"sleep"} : Spend(f) => left'["sleep"] = 0
  BY DEF Spend, TypeOK, Awake, Fault
<1>2. ASSUME NEW n \in Node, Boot(n) \/ Crash(n) \/ Conflict(n) \/ Partition(n)
      PROVE  Awake'
  BY <1>1, <1>2 DEF Boot, Crash, Conflict, Partition, Awake, TypeOK, Fault
<1>3. ASSUME NEW n \in Node, Shutdown(n) \/ Withdraw(n) PROVE Awake'
  BY <1>1, <1>3 DEF Shutdown, Withdraw, Leave, Awake, TypeOK, Fault
<1>4. ASSUME NEW n \in Node, Suspend(n) \/ Wake(n) PROVE FALSE
  BY <1>4 DEF Suspend, Wake, Spend, Awake
<1>5. ASSUME NEW m \in Node, NEW n \in Node, Lose(m, n) PROVE Awake'
  BY <1>1, <1>5 DEF Lose, Awake, Fault
<1>6. CASE Heal \/ Tick \/ UNCHANGED vars
  BY <1>6 DEF Heal, Tick, vars, Awake
<1>7. ASSUME NEW n \in Node, NodeStep(n) PROVE Awake'
  <2>1. CASE Exit(n)
    BY <2>1 DEF Exit, Awake, TypeOK
  <2>2. CASE ~Exit(n)
    BY <1>7, <2>2 DEF NodeStep, Receive, Fire, Run, FinishStart, FinishStop, Awake
  <2> QED BY <2>1, <2>2
<1> QED
  BY <1>2, <1>3, <1>4, <1>5, <1>6, <1>7 DEF Next, Work, Environment

(* The consumer of node n as the provider sees it.                           *)
Seen(n) == IF Alive(n) THEN st[n].gate ELSE "off"

(* One consumer at most changes, and that one in order.                      *)
InTurn ==
    \/ \A m \in Node : Seen(m)' = Seen(m)
    \/ \E n \in Node :
          /\ \A m \in Node \ {n} : Seen(m)' = Seen(m)
          /\ \/ Seen(n)' \in {Seen(n), "off"}
             \/ Seen(n) = "off" /\ Seen(n)' = "starting"
             \/ Seen(n) = "starting" /\ Seen(n)' = "on"
             \/ Seen(n) = "on" /\ Seen(n)' = "stopping"

LEMMA StepInTurn ==
  ASSUME TypeOK, Undisturbed, Awake, ~StopMayFail, [Next]_vars
  PROVE  InTurn
<1>1. \A n \in Node : st[n] \in Election
  BY DEF TypeOK
<1>2. ASSUME NEW n \in Node, Run(n) \/ FinishStart(n) \/ FinishStop(n) PROVE InTurn
  <2>1. PICK r \in Election : Committed(n, r)
    BY <1>2, RunCommits, FinishCommits
  <2>2. power' = power /\ Alive(n)
    BY <1>2 DEF Run, FinishStart, FinishStop
  <2>3. [r EXCEPT !.out = <<>>].gate = r.gate
    BY DEF Election
  <2>4. /\ st'[n].gate = r.gate /\ Orderly(st[n], r)
        /\ \A m \in Node \ {n} : st'[m] = st[m]
    BY <2>1, <2>3 DEF Committed, Commit, TypeOK
  <2>5. Seen(n) = st[n].gate /\ Seen(n)' = r.gate
    BY <2>2, <2>4 DEF Seen, Alive
  <2>6. \A m \in Node \ {n} : Seen(m)' = Seen(m)
    BY <2>2, <2>4 DEF Seen, Alive
  <2> QED BY <2>4, <2>5, <2>6 DEF InTurn, Orderly
<1>3. ASSUME NEW n \in Node, Exit(n) \/ Crash(n) PROVE InTurn
  <2>1. /\ power' = [power EXCEPT ![n] = "off"]
        /\ st' = [st EXCEPT ![n] = NewElection]
    BY <1>3 DEF Exit, Crash
  <2>2. Seen(n)' = "off" /\ \A m \in Node \ {n} : Seen(m)' = Seen(m)
    BY <2>1 DEF Seen, Alive, TypeOK
  <2> QED BY <2>2 DEF InTurn
<1>4. ASSUME NEW n \in Node, Boot(n) PROVE InTurn
  <2>1. Enqueue(Arm(NewElection, "watchdog", WatchdogPeriod), Signalled("boot")).gate = "off"
    BY NewElectionType, EnqueueKeepsGate DEF NewElection, Timer
  <2>2. Seen(n)' = "off" /\ \A m \in Node \ {n} : Seen(m)' = Seen(m)
    BY <1>4, <2>1 DEF Boot, Seen, Alive, TypeOK
  <2> QED BY <2>2 DEF InTurn
<1>5. ASSUME NEW n \in Node, Suspend(n) \/ Wake(n) PROVE FALSE
  BY <1>5 DEF Suspend, Wake, Spend, Awake
<1>6. ASSUME \A m \in Node : st'[m].gate = st[m].gate,
             \A m \in Node : power'[m] = power[m] \/ {power'[m], power[m]} = {"on", "leaving"}
      PROVE  InTurn
  BY <1>6 DEF InTurn, Seen, Alive
<1>7. ASSUME NEW m \in Node, NEW n \in Node, Receive(m, n) \/ Lose(m, n) PROVE InTurn
  <2>1. st' = st \/ \E i : st' = [st EXCEPT ![n] = Enqueue(@, i)]
    BY <1>7 DEF Receive, Lose
  <2>2. \A i : Enqueue(st[n], i).gate = st[n].gate
    BY <1>1, EnqueueKeepsGate
  <2>3. \A l \in Node : st'[l].gate = st[l].gate
    BY <2>1, <2>2 DEF TypeOK
  <2> QED BY <1>6, <1>7, <2>3 DEF Receive, Lose
<1>8. ASSUME NEW n \in Node, NEW t \in Timer, Fire(n, t) PROVE InTurn
  <2>1. \A l \in Node : st'[l].gate = st[l].gate
    BY <1>1, <1>8, EnqueueKeepsGate DEF Fire, TypeOK
  <2> QED BY <1>6, <1>8, <2>1 DEF Fire
<1>9. ASSUME NEW n \in Node, Conflict(n) \/ Shutdown(n) \/ Withdraw(n) PROVE InTurn
  <2>1. \A l \in Node : st'[l].gate = st[l].gate
    BY <1>1, <1>9, EnqueueKeepsGate DEF Conflict, Shutdown, Withdraw, Leave, TypeOK
  <2>2. \A m \in Node : power'[m] = power[m] \/ (power[m] = "on" /\ power'[m] = "leaving")
    <3>1. power' = power \/ (power[n] = "on" /\ power' = [power EXCEPT ![n] = "leaving"])
      BY <1>9 DEF Conflict, Shutdown, Withdraw, Leave
    <3> QED BY <3>1 DEF TypeOK
  <2> QED BY <1>6, <2>1, <2>2
<1>10. CASE Tick
  <2>1. \A l \in Node : st'[l].gate = st[l].gate
    BY <1>1, <1>10, EnqueueKeepsGate DEF Tick
  <2> QED BY <1>6, <1>10, <2>1 DEF Tick
<1>11. CASE Heal \/ (\E n \in Node : Partition(n)) \/ UNCHANGED vars
  BY <1>6, <1>11 DEF Heal, Partition, vars
<1> QED
  BY <1>2, <1>3, <1>4, <1>5, <1>7, <1>8, <1>9, <1>10, <1>11
  DEF Next, Work, NodeStep, Environment

(* How far the consumer is whose tenure it is.                               *)
phase == IF reader = NoNode THEN "off" ELSE st[reader].gate

LEMMA SeenReader ==
  ASSUME SingleConsumer
  PROVE  /\ \A n \in Node : Seen(n) # "off" => reader = n /\ phase = Seen(n)
         /\ (\A n \in Node : Seen(n) = "off") => reader = NoNode /\ phase = "off"
<1>1. \A n \in Node : Reading(n) <=> Seen(n) # "off"
  BY DEF Reading, Seen
<1>2. ASSUME NEW n \in Node, Seen(n) # "off" PROVE reader = n /\ phase = Seen(n)
  <2>1. \A m \in Node : Reading(m) <=> m = n
    BY <1>1, <1>2 DEF SingleConsumer
  <2>2. reader = n
    BY <2>1 DEF reader
  <2> QED BY <1>2, <2>2, NodeAssumption DEF phase, Seen
<1>3. (\A n \in Node : Seen(n) = "off") => reader = NoNode /\ phase = "off"
  BY <1>1 DEF reader, phase
<1> QED BY <1>2, <1>3

LEMMA SeenNextReader ==
  ASSUME SingleConsumer'
  PROVE  /\ \A n \in Node : Seen(n)' # "off" => reader' = n /\ phase' = Seen(n)'
         /\ (\A n \in Node : Seen(n)' = "off") => reader' = NoNode /\ phase' = "off"
<1>1. \A n \in Node : Reading(n)' <=> Seen(n)' # "off"
  BY DEF Reading, Seen
<1>2. ASSUME NEW n \in Node, Seen(n)' # "off" PROVE reader' = n /\ phase' = Seen(n)'
  <2>1. \A m \in Node : Reading(m)' <=> m = n
    BY <1>1, <1>2 DEF SingleConsumer
  <2>2. reader' = n
    BY <2>1 DEF reader
  <2> QED BY <1>2, <2>2, NodeAssumption DEF phase, Seen
<1>3. (\A n \in Node : Seen(n)' = "off") => reader' = NoNode /\ phase' = "off"
  BY <1>1 DEF reader, phase
<1> QED BY <1>2, <1>3

LEMMA TurnsRefine ==
  ASSUME InTurn, SingleConsumer, SingleConsumer'
  PROVE  [Tenure!Next]_<<reader, phase>>
<1>1. CASE \A m \in Node : Seen(m)' = Seen(m)
  <2>1. CASE \A m \in Node : Seen(m) = "off"
    BY <1>1, <2>1, SeenReader, SeenNextReader
  <2>2. CASE \E m \in Node : Seen(m) # "off"
    BY <1>1, <2>2, SeenReader, SeenNextReader
  <2> QED BY <2>1, <2>2
<1>2. ASSUME NEW n \in Node, \A m \in Node \ {n} : Seen(m)' = Seen(m),
             Seen(n) = "off", Seen(n)' = "starting"
      PROVE  Tenure!Begin(n)
  <2>1. reader' = n /\ phase' = "starting"
    BY <1>2, SeenNextReader
  <2>2. \A m \in Node \ {n} : Seen(m)' = "off"
    BY <2>1, SeenNextReader
  <2>3. reader = NoNode
    BY <1>2, <2>2, SeenReader
  <2> QED BY <2>1, <2>3 DEF Tenure!Begin, phase
<1>3. ASSUME NEW n \in Node, \A m \in Node \ {n} : Seen(m)' = Seen(m),
             Seen(n) # "off", Seen(n)' = "off"
      PROVE  Tenure!End
  <2>1. reader = n
    BY <1>3, SeenReader
  <2>2. \A m \in Node \ {n} : Seen(m) = "off"
    BY <2>1, SeenReader
  <2>3. reader' = NoNode /\ phase' = "off"
    BY <1>3, <2>2, SeenNextReader
  <2> QED BY <2>1, <2>3, NodeAssumption DEF Tenure!End, phase
<1>4. ASSUME NEW n \in Node, Seen(n) # "off", Seen(n)' # "off"
      PROVE  /\ reader = n /\ reader' = n /\ phase = Seen(n) /\ phase' = Seen(n)'
             /\ phase = "starting" /\ phase' = "on" => Tenure!Read
             /\ phase = "on" /\ phase' = "stopping" => Tenure!Stop
  <2>1. reader = n /\ reader' = n /\ phase = Seen(n) /\ phase' = Seen(n)'
    BY <1>4, SeenReader, SeenNextReader
  <2> QED BY <2>1 DEF Tenure!Read, Tenure!Stop, phase
<1>5. CASE ~\A m \in Node : Seen(m)' = Seen(m)
  <2>1. PICK n \in Node :
          /\ \A m \in Node \ {n} : Seen(m)' = Seen(m)
          /\ \/ Seen(n)' \in {Seen(n), "off"}
             \/ Seen(n) = "off" /\ Seen(n)' = "starting"
             \/ Seen(n) = "starting" /\ Seen(n)' = "on"
             \/ Seen(n) = "on" /\ Seen(n)' = "stopping"
    BY <1>5 DEF InTurn
  <2>2. Seen(n)' # Seen(n)
    BY <1>5, <2>1
  <2>3. Tenure!Begin(n) \/ Tenure!End \/ Tenure!Read \/ Tenure!Stop
    BY <1>2, <1>3, <1>4, <2>1, <2>2
  <2> QED BY <2>3 DEF Tenure!Next
<1> QED BY <1>1, <1>5

(* While no two nodes read at once, a consumer is begun to start only after  *)
(* the one before it has stopped, reads only after it was begun to start and *)
(* is not read from again once it is being stopped: the nodes read in turns. *)
THEOREM TurnsAreTaken ==
  ASSUME ~StopMayFail, Excluded("conflict"), Excluded("sleep")
  PROVE  Spec /\ []SingleConsumer => ReadInTurns
<1>1. Init => Awake
  BY DEF Init, Awake, Excluded
<1>2. TypeOK /\ Awake /\ [Next]_vars => Awake'
  BY AwakeStep
<1>3. Init => Tenure!Init
  <2> SUFFICES ASSUME Init PROVE reader = NoNode /\ phase = "off"
    BY DEF Tenure!Init, phase
  <2>1. \A n \in Node : ~Reading(n)
    BY DEF Init, Reading, Alive
  <2> QED BY <2>1 DEF reader, phase
<1>4. TypeOK /\ Undisturbed /\ Awake /\ SingleConsumer /\ SingleConsumer' /\ [Next]_vars
         => [Tenure!Next]_<<reader, phase>>
  BY StepInTurn, TurnsRefine
<1> QED
  BY <1>1, <1>2, <1>3, <1>4, StaysUndisturbed, TypeCorrect, PTL
  DEF Spec, ReadInTurns, Tenure!Spec, phase

===============================================================================
