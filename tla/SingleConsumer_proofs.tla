------------------------ MODULE SingleConsumer_proofs ------------------------
(***************************************************************************)
(* At most one of two nodes reads a surface: the invariant of the header   *)
(* of election.ts, for every timing, every build and ranking of the nodes, *)
(* and every number of starts, shutdowns, withdrawals, yields and          *)
(* preemptions, while the network and the hosts do what they should.       *)
(***************************************************************************)
EXTENDS SurfaceElection_proofs

-----------------------------------------------------------------------------
(* What is assumed.                                                          *)

AtMostTwo == \A l, m, n \in Node : l = m \/ m = n \/ l = n

(* Both nodes have observed the same holdings.                               *)
OneRanking ==
    \A m, n \in Node : OutranksForSurface(m, m, n) <=> OutranksForSurface(n, m, n)

(* Nothing is late, lost, cut off, suspended or killed; nodes only come and  *)
(* go, shut down or withdrawn, and none comes while another is taking over.  *)
Calm ==
    /\ Timely /\ CalmBoot /\ ~StopMayFail /\ MaxDelay = 0 /\ MaxStart = 0
    /\ \A f \in Fault \ {"boot", "shutdown", "withdraw"} : Excluded(f)

(* A consumer stops within the boot probe and within the grace of a          *)
(* preemption; a boot probe is over before the watchdog has looked twice, and*)
(* before a holder that stops after it began can be missed.                  *)
Paced ==
    /\ MaxStop < BootProbe /\ MaxStop < PreemptGrace
    /\ BootProbe <= WatchdogPeriod
    /\ BootProbe + HeartbeatPeriod + MaxStop <= MasterTimeout
    /\ ElectionWindow + ClaimSettle < MasterTimeout

-----------------------------------------------------------------------------
(* What is ahead of a node: the items of its queue, the datagrams on their   *)
(* way to it and, if it is to drop those, a mark of it.                      *)

(* What is in a queue, and on its way to it.                                 *)
Kinds(q) == {q[k].kind : k \in 1..Len(q)}
Types(c) == {c[k].type : k \in 1..Len(c)}
Marks(serves) == {x \in {"withdrawn"} : ~serves}
Ahead(m, n) ==
    Kinds(st[n].queue) \cup Types(net[m][n]) \cup Marks(canServe[n] \/ ~Alive(n))

(* What a holder says while it holds or when it ceases to.                   *)
Word == {"HEARTBEAT", "CLAIM", "RESIGN"}

(* Nothing of this follows RESIGN; a watchdog's finding and a boot come      *)
(* first in the queue; the closures that end a bid are queued once.          *)
InOrder(q, c) ==
    /\ \A j, k \in 1..Len(q) :
          /\ q[j].kind = "RESIGN" /\ j < k => q[k].kind \notin Word
          /\ q[j].kind \in {"probe", "settle", "handoff"} /\ q[k].kind = q[j].kind => j = k
    /\ "RESIGN" \in Kinds(q) => Types(c) \cap Word = {}
    /\ \A j, k \in 1..Len(c) : c[j].type = "RESIGN" /\ j < k => c[k].type \notin Word
    /\ \A k \in 1..Len(q) : q[k].kind \in {"timeout", "boot"} => k = 1

-----------------------------------------------------------------------------
(* One node, in the state s, with h ahead of it.                             *)

(* What it is doing: it reads or may, wants to, or has just come.            *)
Holding(s) == s.role \in {"master", "resigning"}
Bidding(s) == s.role \in {"probing", "electing", "awaiting-handoff"}
Arriving(s, h) == s.role = "probing" \/ "boot" \in h

(* The bid of s does not end in the next d ticks.                            *)
Open(s, h, t, d) == t \notin h /\ (s.timer[t] = Off \/ s.timer[t] >= d)

(* Its bid, if it has one, does not end in the next d ticks.                 *)
Waits(s, h, d) ==
    /\ s.role = "probing" => Open(s, h, "probe", d)
    /\ s.role = "electing" => Open(s, h, "settle", d)
    /\ s.role = "awaiting-handoff" => Open(s, h, "handoff", d)

(* A timer runs in no other role, and for no longer than it was set.         *)
Belongs(s, t, role, max) ==
    s.timer[t] # Off => s.role = role /\ s.timer[t] <= max

(* It runs, or its closure is queued.                                        *)
Armed(s, h, t) == s.timer[t] # Off \/ t \in h

(* What ends a bid or keeps a tenure known is armed, and queued once.        *)
Timed(s, h) ==
    /\ Belongs(s, "probe", "probing", BootProbe)
    /\ Belongs(s, "election", "electing", ElectionWindow)
    /\ Belongs(s, "settle", "electing", ClaimSettle)
    /\ Belongs(s, "handoff", "awaiting-handoff", PreemptGrace)
    /\ Belongs(s, "heartbeat", "master", HeartbeatPeriod)
    /\ s.role = "probing" => Armed(s, h, "probe")
    /\ s.role = "electing" => Armed(s, h, "election") \/ Armed(s, h, "settle")
    /\ s.role = "master" /\ s.task.op = "none" => Armed(s, h, "heartbeat")
    /\ "probe" \in h => s.timer["probe"] # 0
    /\ "settle" \in h => s.timer["settle"] # 0 /\ s.role \in {"electing", "stopped"}
    /\ "handoff" \in h => s.timer["handoff"] # 0 /\ s.role \in {"awaiting-handoff", "stopped"}

(* An await belongs to its role.                                             *)
Tasked(s) ==
    /\ s.task.op = "start" => s.role = "master" /\ s.task.left = 0
    /\ s.task.op = "stop" <=> s.role = "resigning"
    /\ s.task.op = "stop" => s.task.left <= MaxStop

(* The watchdog of a node that runs.                                         *)
Watched(s, h, alive) ==
    /\ s.timer["watchdog"] <= WatchdogPeriod /\ s.timer["watchdog"] # 0
    /\ "timeout" \in h =>
          /\ s.role = "standby" /\ s.heard >= MasterTimeout
          /\ s.timer["watchdog"] \in {Off, WatchdogPeriod}
    /\ ~alive \/ (s.role = "stopped" /\ "boot" \notin h) => s.timer["watchdog"] = Off

(* A node that has just come has heard nothing and said nothing.             *)
Fresh(s, h) ==
    /\ s.role = "probing" => s.heard = Never
    /\ "boot" \in h =>
          /\ s.role = "stopped" /\ s.heard = Never /\ ~s.claimed
          /\ "probe" \notin h /\ "election" \notin h /\ "settle" \notin h
          /\ "handoff" \notin h /\ "heartbeat" \notin h /\ "timeout" \notin h
          /\ "withdrawn" \notin h

(* It has stopped, and nothing is left to do.                                *)
Gone(s, h) == s.role = "stopped" /\ h = {}

(* What holds of a node by itself.                                           *)
Own(s, h, alive) ==
    /\ Timed(s, h) /\ Tasked(s) /\ Watched(s, h, alive) /\ Fresh(s, h)
    /\ ~alive => Gone(s, h)
    /\ "withdrawn" \in h =>
          /\ s.timer["watchdog"] = Off
          /\ "stop" \in h \/ s.task.op = "stop" \/ s.role = "stopped"

-----------------------------------------------------------------------------
(* Two nodes m and n, in the states s and t, with h and k ahead of them.     *)

(* A bid that is about to succeed has no holder and no rival to fear.        *)
Unrivalled(s, h, t, k) ==
    ~Waits(s, h, 1) =>
        /\ ~Holding(t) /\ Waits(t, k, 1)
        /\ "HEARTBEAT" \notin h /\ "RESIGN" \notin h
        /\ "CLAIM" \in h => s.role = "probing"

(* A holder is heard, or has stopped, before a bid against it succeeds.      *)
Warned(s, h, t, k) ==
    Holding(s) /\ Bidding(t) =>
        /\ Waits(t, k, 1)
        /\ \/ t.role # "awaiting-handoff" /\ (s.task.op = "start" \/ "HEARTBEAT" \in k)
           \/ /\ s.task.op # "stop" /\ Waits(t, k, MaxStop + 1)
              /\ \/ t.role = "probing" /\ "PROBE" \in h
                 \/ t.role = "awaiting-handoff" /\ "CLAIM" \in h
                 \/ "withdrawn" \in h /\ t.role # "electing"
           \/ s.task.op = "stop" /\ t.role # "electing" /\ Waits(t, k, s.task.left + 1)
           \/ "withdrawn" \in k

(* The two do not arrive, elect or preempt at once.                          *)
Apart(m, n, s, h, t, k) ==
    /\ Arriving(s, h) => ~Arriving(t, k)
    /\ s.role = "electing" => t.role # "electing"
    /\ s.role = "awaiting-handoff" =>
          /\ ~Bidding(t) /\ "boot" \notin k /\ "timeout" \notin k
          /\ StrictlyNewer(m, n)
          /\ Holding(t) \/ "RESIGN" \in h \/ "withdrawn" \in h

(* Between a node that arrives and one that elects, the better is heard by   *)
(* the worse, unless its own bid succeeds at once.                           *)
Contested(m, n, s, h, t, k) ==
    Arriving(s, h) /\ t.role = "electing" =>
        /\ Waits(t, k, 1)
        /\ \/ /\ ~(s.claimed /\ OutranksForSurface(m, m, n))
              /\ t.timer["settle"] = Off \/ "CLAIM" \in h
           \/ OutranksForSurface(m, m, n) /\ "CLAIM" \in k
           \/ ~Waits(s, h, 1)
           \/ "withdrawn" \in h \cup k

(* An election is over before a standby misses the holder to come.           *)
Elected(s, h, t) ==
    s.role = "electing" /\ t.role = "standby" =>
        /\ t.heard < MasterTimeout
        /\ s.timer["settle"] # Off => t.heard + s.timer["settle"] < MasterTimeout
        /\ s.timer["election"] # Off =>
              t.heard + s.timer["election"] + ClaimSettle < MasterTimeout
        /\ "election" \in h => t.heard + ClaimSettle < MasterTimeout

(* A standby has heard of the holder lately, or is about to.                 *)
Followed(s, t, k) ==
    t.role = "standby" /\ "withdrawn" \notin k =>
        /\ s.role = "master" /\ s.task.op = "none" =>
              \/ "HEARTBEAT" \in k
              \/ /\ t.heard <= HeartbeatPeriod
                 /\ s.timer["heartbeat"] # Off =>
                       t.heard + s.timer["heartbeat"] <= HeartbeatPeriod
        /\ s.role = "resigning" =>
              "HEARTBEAT" \in k \/ t.heard + s.task.left <= HeartbeatPeriod + MaxStop

(* While a RESIGN of s is on its way to t.                                   *)
Released(s, h, t, k) ==
    "RESIGN" \in k =>
        /\ ~Holding(s) /\ ~Holding(t) /\ "RESIGN" \notin h
        /\ s.role \notin {"electing", "awaiting-handoff"}
        /\ s.role = "standby" => s.heard = 0
        /\ Arriving(s, h) =>
              /\ t.role # "awaiting-handoff" /\ ~Arriving(t, k)
              /\ Waits(s, h, 1) /\ "CLAIM" \notin h /\ ~s.claimed
        /\ t.role \in {"standby", "electing"} =>
              \/ "HEARTBEAT" \in k \/ "withdrawn" \in k
              \/ t.role = "standby" /\ t.heard <= HeartbeatPeriod + MaxStop

(* What a withdrawn node dropped is what ends a tenure it had heard of.      *)
Unheard(s, h, t, k) ==
    /\ "withdrawn" \in k /\ ~Holding(t)
    /\ Bidding(t) \/ "timeout" \in k =>
          /\ ~Holding(s) /\ ~Bidding(s) /\ (s.role = "standby" => s.heard = 0)
          /\ "boot" \notin h /\ "timeout" \notin h /\ "RESIGN" \notin h

(* What s said while it held or bid has an end on its way, too.              *)
Spoken(m, n, s, h, t, k) ==
    /\ "HEARTBEAT" \in k => Holding(s) \/ "RESIGN" \in k \/ Unheard(s, h, t, k)
    /\ /\ "CLAIM" \in k /\ s.role = "standby" /\ OutranksForSurface(m, m, n)
       /\ Arriving(t, k) \/ t.role = "electing"
       => "RESIGN" \in k \/ "withdrawn" \in h \cup k

(* Two standbys know of each other's end.                                    *)
Vacant(s, h, t, k) ==
    s.role = "standby" /\ t.role = "standby" =>
        "RESIGN" \in h \/ "RESIGN" \in k \/ "withdrawn" \in h \/ "withdrawn" \in k

(* A node that elects, or is about to, has no newcomer whose past is unheard.*)
Succeeds(s, h, t, k) ==
    (s.role = "electing" \/ "timeout" \in h) /\ "RESIGN" \in h =>
        ~Bidding(t) /\ ~Arriving(t, k)

(* A timeout of t that is still queued finds s no bidder it could surprise.  *)
Missed(s, h, t, k) ==
    "timeout" \in k =>
        /\ "CLAIM" \notin h
        /\ Arriving(s, h) /\ s.claimed => ~Waits(s, h, 1)
        /\ s.role \notin {"electing", "awaiting-handoff"}
        /\ s.role = "standby" => s.heard = 0 /\ ("RESIGN" \in k \/ "withdrawn" \in h \cup k)
        /\ Holding(s) => s.task.op = "start" \/ "HEARTBEAT" \in k \/ "withdrawn" \in k

(* How long a node that arrives goes on probing.                             *)
ProbeLeft(s, h) == IF "boot" \in h THEN BootProbe ELSE s.timer["probe"]

(* A node that arrives is through before a loser can bid again.              *)
Outlasted(s, h, t, k) ==
    Arriving(s, h) /\ (t.role = "electing" \/ "timeout" \in k \/ "CLAIM" \in h \/ s.claimed) =>
        \/ ~Waits(s, h, 1)
        \/ t.timer["watchdog"] = Off \/ t.timer["watchdog"] >= ProbeLeft(s, h)
        \/ t.heard + ProbeLeft(s, h) <= MasterTimeout

(* What holds of the two together, as n concerns m.                          *)
Pair(m, n, s, h, t, k) ==
    /\ Holding(s) => ~Holding(t)
    /\ Unrivalled(s, h, t, k) /\ Warned(s, h, t, k)
    /\ Apart(m, n, s, h, t, k) /\ Contested(m, n, s, h, t, k)
    /\ Elected(s, h, t) /\ Followed(s, t, k)
    /\ Released(s, h, t, k) /\ Spoken(m, n, s, h, t, k) /\ Vacant(s, h, t, k)
    /\ Succeeds(s, h, t, k) /\ Missed(s, h, t, k) /\ Outlasted(s, h, t, k)

(* What is queued at n comes from the other node, and no wake-up is.         *)
Addressed(n, q, watchdog) ==
    \A k \in 1..Len(q) :
       /\ q[k].kind # "wake"
       /\ q[k].kind = "stop" => watchdog = Off
       /\ q[k].kind \in Datagram => q[k].from \in Node \ {n}

(* Who an election of n knows of is the other node, and it leaves for good.  *)
Facing(n, s, p) ==
    /\ s.target # n /\ s.holder # n /\ s.slept = 0
    /\ s.role = "awaiting-handoff" => s.target # NoNode
    /\ s.role = "master" /\ s.task.op = "none" => s.running
    /\ s.task.then \in {"standby", "stopped"} /\ s.task.next # n
    /\ s.task.op = "stop" /\ s.task.then = "stopped" => s.timer["watchdog"] = Off
    /\ p = "leaving" => s.timer["watchdog"] = Off
    /\ Addressed(n, s.queue, s.timer["watchdog"])

(* A withdrawn node that hands over to stand by has still to stop.           *)
ToStop(s, serves) ==
    ~serves /\ s.task.op = "stop" /\ s.task.then = "standby" => "stop" \in Kinds(s.queue)

(* The two nodes agree, each with what is ahead of it.                       *)
Both(m, n, s, h, t, k, a, b) ==
    /\ Own(s, h, a) /\ Own(t, k, b)
    /\ Pair(m, n, s, h, t, k) /\ Pair(n, m, t, k, s, h)

(* What holds of every node, and of every two.                               *)
Solo(n) ==
    /\ power[n] = "on" => canServe[n]
    /\ power[n] # "asleep" /\ net[n][n] = <<>>
    /\ Facing(n, st[n], power[n]) /\ ToStop(st[n], canServe[n])
    /\ power[n] = "off" => st[n] = NewElection

Duo(m, n) ==
    /\ InOrder(st[m].queue, net[n][m]) /\ InOrder(st[n].queue, net[m][n])
    /\ Both(m, n, st[m], Ahead(n, m), st[n], Ahead(m, n), Alive(m), Alive(n))

(* Nothing happens to the nodes but that they come and go.                   *)
Unharmed ==
    /\ split = {} /\ \A f \in Fault \ {"boot", "shutdown", "withdraw"} : left[f] = 0
    /\ \A m, n \in Node : \A k \in 1..Len(net[m][n]) : net[m][n][k].due = 0

(* The inductive invariant.                                                  *)
OneAtATime ==
    /\ Unharmed
    /\ \A n \in Node : Solo(n)
    /\ \A m, n \in Node : m # n => Duo(m, n)

-----------------------------------------------------------------------------
(* What one step of a node does to what is ahead of it and of the other.     *)

(* The two nodes differ, and agree on which of them is better.               *)
Rivals(m, n) ==
    /\ m # n
    /\ OutranksForSurface(m, m, n) <=> OutranksForSurface(n, m, n)
    /\ OutranksForSurface(m, n, m) <=> OutranksForSurface(n, n, m)
    /\ OutranksForSurface(m, m, n) <=> ~OutranksForSurface(m, n, m)
    /\ StrictlyNewer(m, n) => OutranksForSurface(m, m, n) /\ ~OutranksStably(n, m)
    /\ StrictlyNewer(n, m) => OutranksForSurface(n, n, m) /\ ~OutranksStably(m, n)

(* What is counted in an election is a number, or Off, or Never.             *)
Counted(s) ==
    /\ s.heard \in Int /\ s.heard >= Never
    /\ s.task.op \in {"none", "start", "stop"}
    /\ s.task.left \in Int /\ s.task.left >= 0
    /\ s.timer["probe"] \in Int /\ s.timer["probe"] >= Off
    /\ s.timer["election"] \in Int /\ s.timer["election"] >= Off
    /\ s.timer["settle"] \in Int /\ s.timer["settle"] >= Off
    /\ s.timer["handoff"] \in Int /\ s.timer["handoff"] >= Off
    /\ s.timer["heartbeat"] \in Int /\ s.timer["heartbeat"] >= Off
    /\ s.timer["watchdog"] \in Int /\ s.timer["watchdog"] >= Off

(* The intervals as numbers, and what Paced says of them.                    *)
Steady ==
    /\ HeartbeatPeriod \in Int /\ HeartbeatPeriod >= 1
    /\ MasterTimeout \in Int /\ MasterTimeout >= HeartbeatPeriod + HeartbeatPeriod
    /\ BootProbe \in Int /\ BootProbe >= 1
    /\ ElectionWindow \in Int /\ ElectionWindow >= 1
    /\ ResignWindow = ElectionWindow
    /\ ClaimSettle \in Int /\ ClaimSettle >= 1
    /\ WatchdogPeriod \in Int /\ WatchdogPeriod >= 1
    /\ PreemptGrace \in Int /\ MaxStop \in Int /\ MaxStop >= 0
    /\ MaxStop < BootProbe /\ MaxStop < PreemptGrace
    /\ BootProbe <= WatchdogPeriod
    /\ BootProbe + HeartbeatPeriod + MaxStop <= MasterTimeout
    /\ ElectionWindow + ClaimSettle < MasterTimeout

(* Node m is in the state s with h ahead, the other, n, which runs if b is   *)
(* TRUE, in the state t with k ahead.                                        *)
Scene(m, n, s, h, t, k, b) ==
    /\ Rivals(m, n) /\ Counted(s) /\ Counted(t) /\ b \in BOOLEAN
    /\ Both(m, n, s, h, t, k, TRUE, b)

(* The head of the queue, an item of kind i, is run, and g is what is left.  *)
Turn(s, h, i, g) ==
    /\ s.task.op = "none"
    /\ i # "boot" => "boot" \notin h
    /\ i # "timeout" => "timeout" \notin h
    /\ i \in h /\ \A x : x # i => (x \in g <=> x \in h)
    /\ i \in g => i \notin {"boot", "timeout", "probe", "settle", "handoff", "RESIGN"} /\ i \in h
    /\ i = "RESIGN" => "HEARTBEAT" \notin h /\ "CLAIM" \notin h
    /\ i # "withdrawn"

(* The datagram d is said, and l is then ahead of the other node.            *)
Told(d, k, l, b) == l = IF b THEN k \cup {d} ELSE k

(* Role and counters of r.                                                   *)
Mark(r, role, heard, claimed, op, rest) ==
    /\ r.role = role /\ r.heard = heard /\ r.claimed = claimed
    /\ r.task.op = op /\ r.task.left = rest

(* The timers of r.                                                          *)
Dials(r, probe, election, settle, handoff, heartbeat, watchdog) ==
    /\ r.timer["probe"] = probe /\ r.timer["election"] = election
    /\ r.timer["settle"] = settle /\ r.timer["handoff"] = handoff
    /\ r.timer["heartbeat"] = heartbeat /\ r.timer["watchdog"] = watchdog

(* Nothing is armed but what runs in every role.                             *)
Quiet(r, s) ==
    Dials(r, Off, Off, Off, Off, s.timer["heartbeat"], s.timer["watchdog"])

(* A node is told to stop, and may be withdrawn.                             *)
Parting(h, g) ==
    /\ "stop" \in g /\ ("withdrawn" \in h => "withdrawn" \in g)
    /\ \A x : x \notin {"stop", "withdrawn"} => (x \in g <=> x \in h)

(* A node that is withdrawn no longer gets what was on its way to it.        *)
Dropped(h, g) ==
    /\ "withdrawn" \in h /\ \A x : x \in g => x \in h
    /\ \A x : x \in h /\ x \notin Datagram => x \in g

(* g is h with x, and x is no longer armed.                                  *)
Joined(h, x, g) == \A y : y \in g <=> (y \in h \/ y = x)
Expired(s, x, r) == \A y \in Timer : r.timer[y] = IF y = x THEN Off ELSE s.timer[y]
-----------------------------------------------------------------------------
(* What a step of one node does to the agreement of the two.                 *)

(* Shown as formulas of role, timers and what is ahead, for the moves.       *)
USE DEF Both, Own, Pair, Scene, Counted, Turn, Told, Mark, Dials, Quiet, Holding, Bidding, Unheard,
        Word, Off, Never

(* What a node is told does not disturb what holds of it alone.              *)
LEMMA ToldOwn ==
  ASSUME NEW t, NEW k, NEW b, NEW d \in Datagram, NEW l,
         Own(t, k, b), Told(d, k, l, b)
  PROVE  Own(t, l, b)
<1> d \notin Timer \cup Signal
  BY DEF Datagram, Timer, Signal
<1> USE DEF Timer, Signal
<1>1. Timed(t, l)
  BY DEF Timed, Armed, Belongs
<1>2. Watched(t, l, b) /\ Fresh(t, l) /\ (~b => Gone(t, l))
  BY DEF Watched, Fresh, Gone, Datagram
<1> QED BY <1>1, <1>2 DEF Datagram

(* A probe that is over, a claim that has settled, a holder that resigned or *)
(* a grace that has run out: the bid succeeds.                               *)
LEMMA MasterMove ==
  ASSUME NEW m \in Node, NEW n \in Node, NEW s, NEW h, NEW t, NEW k, NEW b, NEW i,
         NEW g, NEW r, NEW l,
         Scene(m, n, s, h, t, k, b), Steady, Turn(s, h, i, g),
         \/ i = "probe" /\ s.role = "probing"
         \/ i = "settle" /\ s.role = "electing"
         \/ i \in {"handoff", "RESIGN"} /\ s.role = "awaiting-handoff",
         Mark(r, "master", s.heard, s.claimed, "start", 0), Quiet(r, s),
         Told("CLAIM", k, l, b)
  PROVE  Both(m, n, r, g, t, l, TRUE, b) /\ "RESIGN" \notin k
<1>1. Own(r, g, TRUE)
  <2>1. Timed(r, g)
    BY DEF Timed, Unrivalled, Apart, Arriving, Waits, Open, Belongs, Armed,
         Steady
  <2>2. Tasked(r)
    BY DEF Tasked, Steady
  <2>3. Watched(r, g, TRUE)
    BY DEF Tasked, Watched, Steady
  <2>4. Fresh(r, g)
    BY DEF Tasked, Fresh
  <2>5. "withdrawn" \in g =>
          /\ r.timer["watchdog"] = Off
          /\ "stop" \in g \/ r.task.op = "stop" \/ r.role = "stopped"
    OBVIOUS
  <2> QED BY <2>1, <2>2, <2>3, <2>4, <2>5
<1>2. Own(t, l, b)
  BY ToldOwn DEF Datagram
<1>3. Pair(m, n, r, g, t, l)
  <2>1. Holding(r) => ~Holding(t)
    BY DEF Unrivalled, Released, Arriving, Waits, Open
  <2>2. Unrivalled(r, g, t, l)
    BY DEF Unrivalled, Waits, Open
  <2>3. Warned(r, g, t, l)
    BY DEF Warned, Apart, Contested, Arriving, Waits, Open, Steady, Rivals
  <2>4. Apart(m, n, r, g, t, l)
    BY DEF Apart, Arriving, Rivals
  <2>5. Contested(m, n, r, g, t, l)
    BY DEF Contested, Arriving, Waits, Open, Rivals
  <2>6. Elected(r, g, t)
    BY DEF Elected, Steady
  <2>7. Followed(r, t, l)
    BY DEF Followed, Steady
  <2>8. Released(r, g, t, l)
    BY DEF Released, Arriving, Waits, Open, Steady
  <2>9. Spoken(m, n, r, g, t, l)
    BY DEF Spoken, Arriving, Rivals
  <2>10. Vacant(r, g, t, l)
    BY DEF Vacant
  <2>11. Succeeds(r, g, t, l)
    BY DEF Succeeds, Arriving
  <2>12. Missed(r, g, t, l)
    BY DEF Apart, Missed, Arriving, Waits, Open
  <2>13. Outlasted(r, g, t, l)
    BY DEF Outlasted, Arriving, Waits, Open, ProbeLeft, Steady
  <2> QED BY <2>1, <2>2, <2>3, <2>4, <2>5, <2>6, <2>7, <2>8, <2>9, <2>10, <2>11, <2>12, <2>13
<1>4. Pair(n, m, t, l, r, g)
  <2>1. Holding(t) => ~Holding(r)
    BY DEF Unrivalled, Released, Arriving, Waits, Open
  <2>2. Unrivalled(t, l, r, g)
    BY DEF Timed, Unrivalled, Apart, Arriving, Waits, Open, Belongs, Armed
  <2>3. Warned(t, l, r, g)
    BY DEF Warned, Waits, Open, Steady
  <2>4. Apart(n, m, t, l, r, g)
    BY DEF Apart, Arriving, Rivals
  <2>5. Contested(n, m, t, l, r, g)
    BY DEF Contested, Arriving, Waits, Open, Rivals
  <2>6. Elected(t, l, r)
    BY DEF Elected, Steady
  <2>7. Followed(t, r, g)
    BY DEF Followed, Steady
  <2>8. Released(t, l, r, g)
    BY DEF Unrivalled, Released, Arriving, Waits, Open, Steady
  <2>9. Spoken(n, m, t, l, r, g)
    BY DEF Unrivalled, Spoken, Arriving, Waits, Open, Rivals
  <2>10. Vacant(t, l, r, g)
    BY DEF Vacant
  <2>11. Succeeds(t, l, r, g)
    BY DEF Succeeds, Arriving
  <2>12. Missed(t, l, r, g)
    BY DEF Missed, Arriving, Waits, Open
  <2>13. Outlasted(t, l, r, g)
    BY DEF Apart, Contested, Outlasted, Arriving, Waits, Open, ProbeLeft,
         Steady, Rivals
  <2> QED BY <2>1, <2>2, <2>3, <2>4, <2>5, <2>6, <2>7, <2>8, <2>9, <2>10, <2>11, <2>12, <2>13
<1>5. "RESIGN" \notin k
  BY DEF Released, Holding, Arriving, Apart, Contested, Unrivalled, Waits, Open, Fresh, Tasked, Spoken, Watched, Rivals
<1> QED BY <1>1, <1>2, <1>3, <1>4, <1>5

(* An item that finds the node in another role, or a claim that is not worth *)
(* an answer, changes nothing.                                               *)
LEMMA SkipMove ==
  ASSUME NEW m \in Node, NEW n \in Node, NEW s, NEW h, NEW t, NEW k, NEW b, NEW i,
         NEW g, NEW r,
         Scene(m, n, s, h, t, k, b), Steady, Turn(s, h, i, g),
         \/ /\ i \notin Word /\ i # "boot"
            /\ i = "timeout" => s.role # "standby"
            /\ i = "probe" => s.role # "probing"
            /\ i \in {"election", "settle"} => s.role # "electing"
            /\ i = "handoff" => s.role # "awaiting-handoff"
            /\ i = "heartbeat" => s.role # "master"
            /\ i = "PROBE" => s.role # "master"
            /\ i = "stop" => s.role = "stopped"
         \/ i \in Word /\ s.role = "stopped"
         \/ i = "CLAIM" /\ s.role = "standby"
         \/ /\ i = "CLAIM" /\ ~OutranksForSurface(m, n, m)
            /\ s.role = "awaiting-handoff" \/ (Bidding(s) /\ s.claimed)
         \/ i = "RESIGN" /\ s.role \notin {"awaiting-handoff", "standby"},
         Mark(r, s.role, s.heard, s.claimed, "none", s.task.left),
         Dials(r, s.timer["probe"], s.timer["election"], s.timer["settle"],
           s.timer["handoff"], s.timer["heartbeat"], s.timer["watchdog"])
  PROVE  Both(m, n, r, g, t, k, TRUE, b)
<1>1. Own(r, g, TRUE)
  <2>1. Timed(r, g)
    BY DEF Timed, Tasked, Watched, Belongs, Armed, Steady
  <2>2. Tasked(r)
    BY DEF Tasked, Watched, Steady
  <2>3. Watched(r, g, TRUE)
    BY DEF Tasked, Watched, Steady
  <2>4. Fresh(r, g)
    BY DEF Timed, Tasked, Fresh, Belongs, Armed
  <2>5. "withdrawn" \in g =>
          /\ r.timer["watchdog"] = Off
          /\ "stop" \in g \/ r.task.op = "stop" \/ r.role = "stopped"
    OBVIOUS
  <2> QED BY <2>1, <2>2, <2>3, <2>4, <2>5
<1>2. Own(t, k, b)
  OBVIOUS
<1>3. Pair(m, n, r, g, t, k)
  <2>1. Holding(r) => ~Holding(t)
    BY DEF Tasked, Watched, Released, Arriving, Waits, Open
  <2>2. Unrivalled(r, g, t, k)
    BY DEF Timed, Tasked, Watched, Unrivalled, Waits, Open, Belongs, Armed
  <2>3. Warned(r, g, t, k)
    BY DEF Timed, Tasked, Watched, Warned, Released, Arriving, Waits, Open,
         Belongs, Armed, Steady
  <2>4. Apart(m, n, r, g, t, k)
    BY DEF Tasked, Watched, Apart, Arriving, Rivals
  <2>5. Contested(m, n, r, g, t, k)
    BY DEF Timed, Tasked, Watched, Contested, Released, Arriving, Waits, Open,
         Belongs, Armed, Rivals
  <2>6. Elected(r, g, t)
    BY DEF Tasked, Watched, Elected, Released, Arriving, Waits, Open, Steady
  <2>7. Followed(r, t, k)
    BY DEF Tasked, Watched, Followed, Steady
  <2>8. Released(r, g, t, k)
    BY DEF Tasked, Watched, Released, Arriving, Waits, Open, Steady
  <2>9. Spoken(m, n, r, g, t, k)
    BY DEF Tasked, Watched, Spoken, Arriving, Rivals
  <2>10. Vacant(r, g, t, k)
    BY DEF Timed, Vacant, Belongs, Armed
  <2>11. Succeeds(r, g, t, k)
    BY DEF Tasked, Watched, Succeeds, Arriving
  <2>12. Missed(r, g, t, k)
    BY DEF Tasked, Watched, Apart, Missed, Arriving, Waits, Open
  <2>13. Outlasted(r, g, t, k)
    BY DEF Timed, Tasked, Watched, Outlasted, Arriving, Waits, Open, Belongs,
         Armed, ProbeLeft, Steady
  <2> QED BY <2>1, <2>2, <2>3, <2>4, <2>5, <2>6, <2>7, <2>8, <2>9, <2>10, <2>11, <2>12, <2>13
<1>4. Pair(n, m, t, k, r, g)
  <2>1. Holding(t) => ~Holding(r)
    BY DEF Tasked, Watched, Released, Arriving, Waits, Open
  <2>2. Unrivalled(t, k, r, g)
    BY DEF Timed, Tasked, Watched, Unrivalled, Apart, Arriving, Waits, Open,
         Belongs, Armed
  <2>3. Warned(t, k, r, g)
    BY DEF Timed, Tasked, Watched, Warned, Released, Arriving, Waits, Open,
         Belongs, Armed, Steady
  <2>4. Apart(n, m, t, k, r, g)
    BY DEF Tasked, Watched, Apart, Released, Arriving, Waits, Open, Rivals
  <2>5. Contested(n, m, t, k, r, g)
    BY DEF Timed, Tasked, Watched, Contested, Released, Arriving, Waits, Open,
         Belongs, Armed, Rivals
  <2>6. Elected(t, k, r)
    BY DEF Timed, Elected, Belongs, Armed, Steady
  <2>7. Followed(t, r, g)
    BY DEF Followed, Steady
  <2>8. Released(t, k, r, g)
    BY DEF Tasked, Watched, Released, Arriving, Waits, Open, Steady
  <2>9. Spoken(n, m, t, k, r, g)
    BY DEF Tasked, Watched, Apart, Spoken, Arriving, Rivals
  <2>10. Vacant(t, k, r, g)
    BY DEF Timed, Vacant, Belongs, Armed
  <2>11. Succeeds(t, k, r, g)
    BY DEF Tasked, Watched, Released, Succeeds, Arriving, Waits, Open
  <2>12. Missed(t, k, r, g)
    BY DEF Missed, Arriving, Waits, Open
  <2>13. Outlasted(t, k, r, g)
    BY DEF Timed, Tasked, Watched, Apart, Released, Outlasted, Arriving, Waits,
         Open, Belongs, Armed, ProbeLeft, Steady
  <2> QED BY <2>1, <2>2, <2>3, <2>4, <2>5, <2>6, <2>7, <2>8, <2>9, <2>10, <2>11, <2>12, <2>13
<1> QED BY <1>1, <1>2, <1>3, <1>4

(* A standby asks who holds the surface, for the holder to be known.         *)
LEMMA AskMove ==
  ASSUME NEW m \in Node, NEW n \in Node, NEW s, NEW h, NEW t, NEW k, NEW b, NEW i,
         NEW g, NEW r, NEW l,
         Scene(m, n, s, h, t, k, b), Steady, Turn(s, h, i, g), i = "candidacy",
         s.role = "standby",
         Mark(r, s.role, s.heard, s.claimed, "none", s.task.left),
         Dials(r, s.timer["probe"], s.timer["election"], s.timer["settle"],
           s.timer["handoff"], s.timer["heartbeat"], s.timer["watchdog"]),
         Told("PROBE", k, l, b)
  PROVE  Both(m, n, r, g, t, l, TRUE, b)
<1>1. Own(r, g, TRUE)
  <2>1. Timed(r, g)
    BY DEF Timed, Belongs, Armed, Steady
  <2>2. Tasked(r)
    BY DEF Tasked, Steady
  <2>3. Watched(r, g, TRUE)
    BY DEF Tasked, Watched, Steady
  <2>4. Fresh(r, g)
    BY DEF Tasked, Fresh
  <2>5. "withdrawn" \in g =>
          /\ r.timer["watchdog"] = Off
          /\ "stop" \in g \/ r.task.op = "stop" \/ r.role = "stopped"
    OBVIOUS
  <2> QED BY <2>1, <2>2, <2>3, <2>4, <2>5
<1>2. Own(t, l, b)
  BY ToldOwn DEF Datagram
<1>3. Pair(m, n, r, g, t, l)
  <2>1. Holding(r) => ~Holding(t)
    OBVIOUS
  <2>2. Unrivalled(r, g, t, l)
    BY DEF Unrivalled, Waits, Open
  <2>3. Warned(r, g, t, l)
    BY DEF Warned, Waits, Open, Steady
  <2>4. Apart(m, n, r, g, t, l)
    BY DEF Apart, Arriving, Rivals
  <2>5. Contested(m, n, r, g, t, l)
    BY DEF Contested, Arriving, Waits, Open, Rivals
  <2>6. Elected(r, g, t)
    BY DEF Elected, Steady
  <2>7. Followed(r, t, l)
    BY DEF Followed, Steady
  <2>8. Released(r, g, t, l)
    BY DEF Released, Arriving, Waits, Open, Steady
  <2>9. Spoken(m, n, r, g, t, l)
    BY DEF Spoken, Arriving, Rivals
  <2>10. Vacant(r, g, t, l)
    BY DEF Vacant
  <2>11. Succeeds(r, g, t, l)
    BY DEF Succeeds, Arriving
  <2>12. Missed(r, g, t, l)
    BY DEF Missed, Arriving, Waits, Open
  <2>13. Outlasted(r, g, t, l)
    BY DEF Outlasted, Arriving, Waits, Open, ProbeLeft, Steady
  <2> QED BY <2>1, <2>2, <2>3, <2>4, <2>5, <2>6, <2>7, <2>8, <2>9, <2>10, <2>11, <2>12, <2>13
<1>4. Pair(n, m, t, l, r, g)
  <2>1. Holding(t) => ~Holding(r)
    OBVIOUS
  <2>2. Unrivalled(t, l, r, g)
    BY DEF Unrivalled, Waits, Open
  <2>3. Warned(t, l, r, g)
    BY DEF Warned, Waits, Open, Steady
  <2>4. Apart(n, m, t, l, r, g)
    BY DEF Apart, Arriving, Rivals
  <2>5. Contested(n, m, t, l, r, g)
    BY DEF Contested, Arriving, Waits, Open, Rivals
  <2>6. Elected(t, l, r)
    BY DEF Elected, Steady
  <2>7. Followed(t, r, g)
    BY DEF Followed, Steady
  <2>8. Released(t, l, r, g)
    BY DEF Released, Arriving, Waits, Open, Steady
  <2>9. Spoken(n, m, t, l, r, g)
    BY DEF Spoken, Arriving, Rivals
  <2>10. Vacant(t, l, r, g)
    BY DEF Vacant
  <2>11. Succeeds(t, l, r, g)
    BY DEF Succeeds, Arriving
  <2>12. Missed(t, l, r, g)
    BY DEF Missed, Arriving, Waits, Open
  <2>13. Outlasted(t, l, r, g)
    BY DEF Outlasted, Arriving, Waits, Open, ProbeLeft, Steady
  <2> QED BY <2>1, <2>2, <2>3, <2>4, <2>5, <2>6, <2>7, <2>8, <2>9, <2>10, <2>11, <2>12, <2>13
<1> QED BY <1>1, <1>2, <1>3, <1>4

(* A master answers PROBE, a CLAIM that does not preempt it and a HEARTBEAT  *)
(* of a worse one, or its period is over: it says HEARTBEAT.                 *)
LEMMA BeatMove ==
  ASSUME NEW m \in Node, NEW n \in Node, NEW s, NEW h, NEW t, NEW k, NEW b, NEW i,
         NEW g, NEW r, NEW d, NEW e, NEW l,
         Scene(m, n, s, h, t, k, b), Steady, Turn(s, h, i, g), s.role = "master",
         i \in {"PROBE", "CLAIM", "HEARTBEAT", "heartbeat"},
         i = "CLAIM" => ~StrictlyNewer(n, m),
         Mark(r, "master", d, s.claimed, "none", s.task.left),
         d = (IF i = "HEARTBEAT" THEN 0 ELSE s.heard),
         e = (IF i = "heartbeat" THEN HeartbeatPeriod ELSE s.timer["heartbeat"]),
         Dials(r, s.timer["probe"], s.timer["election"], s.timer["settle"],
           s.timer["handoff"], e, s.timer["watchdog"]),
         Told("HEARTBEAT", k, l, b)
  PROVE  Both(m, n, r, g, t, l, TRUE, b) /\ "RESIGN" \notin k
<1>1. Own(r, g, TRUE)
  <2>1. Timed(r, g)
    BY DEF Timed, Released, Spoken, Arriving, Waits, Open, Belongs, Armed,
         Steady, Rivals
  <2>2. Tasked(r)
    BY DEF Tasked, Steady
  <2>3. Watched(r, g, TRUE)
    BY DEF Tasked, Watched, Released, Spoken, Arriving, Waits, Open, Steady,
         Rivals
  <2>4. Fresh(r, g)
    BY DEF Tasked, Fresh
  <2>5. "withdrawn" \in g =>
          /\ r.timer["watchdog"] = Off
          /\ "stop" \in g \/ r.task.op = "stop" \/ r.role = "stopped"
    OBVIOUS
  <2> QED BY <2>1, <2>2, <2>3, <2>4, <2>5
<1>2. Own(t, l, b)
  BY ToldOwn DEF Datagram
<1>3. Pair(m, n, r, g, t, l)
  <2>1. Holding(r) => ~Holding(t)
    OBVIOUS
  <2>2. Unrivalled(r, g, t, l)
    BY DEF Unrivalled, Released, Spoken, Arriving, Waits, Open, Rivals
  <2>3. Warned(r, g, t, l)
    BY DEF Gone, Warned, Apart, Released, Spoken, Arriving, Waits, Open,
         Steady, Rivals
  <2>4. Apart(m, n, r, g, t, l)
    BY DEF Apart, Arriving, Rivals
  <2>5. Contested(m, n, r, g, t, l)
    BY DEF Contested, Arriving, Waits, Open, Rivals
  <2>6. Elected(r, g, t)
    BY DEF Elected, Steady
  <2>7. Followed(r, t, l)
    BY DEF Gone, Followed, Steady
  <2>8. Released(r, g, t, l)
    BY DEF Released, Arriving, Waits, Open, Steady
  <2>9. Spoken(m, n, r, g, t, l)
    BY DEF Spoken, Arriving, Rivals
  <2>10. Vacant(r, g, t, l)
    BY DEF Vacant
  <2>11. Succeeds(r, g, t, l)
    BY DEF Succeeds, Arriving
  <2>12. Missed(r, g, t, l)
    BY DEF Missed, Arriving, Waits, Open
  <2>13. Outlasted(r, g, t, l)
    BY DEF Outlasted, Arriving, Waits, Open, ProbeLeft, Steady
  <2> QED BY <2>1, <2>2, <2>3, <2>4, <2>5, <2>6, <2>7, <2>8, <2>9, <2>10, <2>11, <2>12, <2>13
<1>4. Pair(n, m, t, l, r, g)
  <2>1. Holding(t) => ~Holding(r)
    OBVIOUS
  <2>2. Unrivalled(t, l, r, g)
    BY DEF Unrivalled, Released, Spoken, Arriving, Waits, Open, Rivals
  <2>3. Warned(t, l, r, g)
    BY DEF Warned, Waits, Open, Steady
  <2>4. Apart(n, m, t, l, r, g)
    BY DEF Apart, Arriving, Rivals
  <2>5. Contested(n, m, t, l, r, g)
    BY DEF Contested, Arriving, Waits, Open, Rivals
  <2>6. Elected(t, l, r)
    BY DEF Elected, Steady
  <2>7. Followed(t, r, g)
    BY DEF Followed, Steady
  <2>8. Released(t, l, r, g)
    BY DEF Released, Arriving, Waits, Open, Steady
  <2>9. Spoken(n, m, t, l, r, g)
    BY DEF Spoken, Arriving, Rivals
  <2>10. Vacant(t, l, r, g)
    BY DEF Vacant
  <2>11. Succeeds(t, l, r, g)
    BY DEF Succeeds, Arriving
  <2>12. Missed(t, l, r, g)
    BY DEF Missed, Arriving, Waits, Open
  <2>13. Outlasted(t, l, r, g)
    BY DEF Released, Spoken, Outlasted, Arriving, Waits, Open, ProbeLeft,
         Steady, Rivals
  <2> QED BY <2>1, <2>2, <2>3, <2>4, <2>5, <2>6, <2>7, <2>8, <2>9, <2>10, <2>11, <2>12, <2>13
<1>5. "RESIGN" \notin k
  BY DEF Released, Holding, Arriving, Apart, Contested, Unrivalled, Waits, Open, Fresh, Tasked, Spoken, Watched, Rivals
<1> QED BY <1>1, <1>2, <1>3, <1>4, <1>5

(* A standby, or one that waits for the handoff, hears the holder.           *)
LEMMA HearMove ==
  ASSUME NEW m \in Node, NEW n \in Node, NEW s, NEW h, NEW t, NEW k, NEW b, NEW i,
         NEW g, NEW r,
         Scene(m, n, s, h, t, k, b), Steady, Turn(s, h, i, g), i = "HEARTBEAT",
         s.role \in {"standby", "awaiting-handoff"},
         Mark(r, s.role, 0, s.claimed, "none", s.task.left),
         Dials(r, s.timer["probe"], s.timer["election"], s.timer["settle"],
           s.timer["handoff"], s.timer["heartbeat"], s.timer["watchdog"])
  PROVE  Both(m, n, r, g, t, k, TRUE, b)
<1>1. Own(r, g, TRUE)
  <2>1. Timed(r, g)
    BY DEF Timed, Belongs, Armed, Steady
  <2>2. Tasked(r)
    BY DEF Tasked, Steady
  <2>3. Watched(r, g, TRUE)
    BY DEF Tasked, Watched, Steady
  <2>4. Fresh(r, g)
    BY DEF Tasked, Fresh
  <2>5. "withdrawn" \in g =>
          /\ r.timer["watchdog"] = Off
          /\ "stop" \in g \/ r.task.op = "stop" \/ r.role = "stopped"
    OBVIOUS
  <2> QED BY <2>1, <2>2, <2>3, <2>4, <2>5
<1>2. Own(t, k, b)
  OBVIOUS
<1>3. Pair(m, n, r, g, t, k)
  <2>1. Holding(r) => ~Holding(t)
    OBVIOUS
  <2>2. Unrivalled(r, g, t, k)
    BY DEF Unrivalled, Waits, Open
  <2>3. Warned(r, g, t, k)
    BY DEF Warned, Waits, Open, Steady
  <2>4. Apart(m, n, r, g, t, k)
    BY DEF Apart, Arriving, Rivals
  <2>5. Contested(m, n, r, g, t, k)
    BY DEF Contested, Arriving, Waits, Open, Rivals
  <2>6. Elected(r, g, t)
    BY DEF Elected, Steady
  <2>7. Followed(r, t, k)
    BY DEF Followed, Steady
  <2>8. Released(r, g, t, k)
    BY DEF Released, Arriving, Waits, Open, Steady
  <2>9. Spoken(m, n, r, g, t, k)
    BY DEF Spoken, Arriving, Rivals
  <2>10. Vacant(r, g, t, k)
    BY DEF Vacant
  <2>11. Succeeds(r, g, t, k)
    BY DEF Succeeds, Arriving
  <2>12. Missed(r, g, t, k)
    BY DEF Apart, Missed, Arriving, Waits, Open
  <2>13. Outlasted(r, g, t, k)
    BY DEF Outlasted, Arriving, Waits, Open, ProbeLeft, Steady
  <2> QED BY <2>1, <2>2, <2>3, <2>4, <2>5, <2>6, <2>7, <2>8, <2>9, <2>10, <2>11, <2>12, <2>13
<1>4. Pair(n, m, t, k, r, g)
  <2>1. Holding(t) => ~Holding(r)
    OBVIOUS
  <2>2. Unrivalled(t, k, r, g)
    BY DEF Unrivalled, Waits, Open
  <2>3. Warned(t, k, r, g)
    BY DEF Warned, Waits, Open, Steady
  <2>4. Apart(n, m, t, k, r, g)
    BY DEF Apart, Arriving, Rivals
  <2>5. Contested(n, m, t, k, r, g)
    BY DEF Contested, Arriving, Waits, Open, Rivals
  <2>6. Elected(t, k, r)
    BY DEF Timed, Belongs, Elected, Released, Spoken, Arriving, Waits, Open, Steady, Rivals
  <2>7. Followed(t, r, g)
    BY DEF Timed, Tasked, Followed, Belongs, Armed, Steady
  <2>8. Released(t, k, r, g)
    BY DEF Released, Arriving, Waits, Open, Steady
  <2>9. Spoken(n, m, t, k, r, g)
    BY DEF Apart, Spoken, Arriving, Rivals
  <2>10. Vacant(t, k, r, g)
    BY DEF Vacant
  <2>11. Succeeds(t, k, r, g)
    BY DEF Released, Succeeds, Arriving, Waits, Open
  <2>12. Missed(t, k, r, g)
    BY DEF Missed, Arriving, Waits, Open
  <2>13. Outlasted(t, k, r, g)
    BY DEF Timed, Belongs, ProbeLeft, Tasked, Fresh, Apart, Released, Spoken, Outlasted, Arriving, Waits,
         Open, ProbeLeft, Steady, Rivals
  <2> QED BY <2>1, <2>2, <2>3, <2>4, <2>5, <2>6, <2>7, <2>8, <2>9, <2>10, <2>11, <2>12, <2>13
<1> QED BY <1>1, <1>2, <1>3, <1>4

(* A node that bids gives way to a holder, or to a better node that claims.  *)
LEMMA StandbyMove ==
  ASSUME NEW m \in Node, NEW n \in Node, NEW s, NEW h, NEW t, NEW k, NEW b, NEW i,
         NEW g, NEW r, NEW d,
         Scene(m, n, s, h, t, k, b), Steady, Turn(s, h, i, g),
         \/ /\ i = "HEARTBEAT" /\ s.role \in {"probing", "electing"}
            /\ s.role = "probing" => ~StrictlyNewer(m, n)
         \/ i = "CLAIM" /\ Bidding(s) /\ OutranksForSurface(m, n, m)
         \/ /\ "withdrawn" \in h
            /\ \/ i = "probe" /\ s.role = "probing"
               \/ i = "settle" /\ s.role = "electing"
               \/ i \in {"handoff", "RESIGN"} /\ s.role = "awaiting-handoff",
         Mark(r, "standby", d, s.claimed, "none", s.task.left), Quiet(r, s),
         d = (IF i = "HEARTBEAT" \/ s.heard = Never THEN 0 ELSE s.heard)
  PROVE  Both(m, n, r, g, t, k, TRUE, b)
<1>1. Own(r, g, TRUE)
  <2>1. Timed(r, g)
    BY DEF Timed, Unrivalled, Waits, Open, Belongs, Armed, Steady
  <2>2. Tasked(r)
    BY DEF Tasked, Steady
  <2>3. Watched(r, g, TRUE)
    BY DEF Tasked, Watched, Steady
  <2>4. Fresh(r, g)
    BY DEF Tasked, Fresh
  <2>5. "withdrawn" \in g =>
          /\ r.timer["watchdog"] = Off
          /\ "stop" \in g \/ r.task.op = "stop" \/ r.role = "stopped"
    OBVIOUS
  <2> QED BY <2>1, <2>2, <2>3, <2>4, <2>5
<1>2. Own(t, k, b)
  OBVIOUS
<1>3. Pair(m, n, r, g, t, k)
  <2>1. Holding(r) => ~Holding(t)
    OBVIOUS
  <2>2. Unrivalled(r, g, t, k)
    BY DEF Unrivalled, Waits, Open
  <2>3. Warned(r, g, t, k)
    BY DEF Warned, Waits, Open, Steady
  <2>4. Apart(m, n, r, g, t, k)
    BY DEF Apart, Arriving, Rivals
  <2>5. Contested(m, n, r, g, t, k)
    BY DEF Contested, Arriving, Waits, Open, Rivals
  <2>6. Elected(r, g, t)
    BY DEF Elected, Steady
  <2>7. Followed(r, t, k)
    BY DEF Followed, Steady
  <2>8. Released(r, g, t, k)
    BY DEF Fresh, Released, Arriving, Waits, Open, Steady
  <2>9. Spoken(m, n, r, g, t, k)
    BY DEF Tasked, Fresh, Apart, Released, Spoken, Succeeds, Arriving, Waits,
         Open, Rivals
  <2>10. Vacant(r, g, t, k)
    BY DEF Apart, Spoken, Vacant, Arriving, Rivals
  <2>11. Succeeds(r, g, t, k)
    BY DEF Succeeds, Arriving
  <2>12. Missed(r, g, t, k)
    BY DEF Fresh, Tasked, Watched, Released, Spoken, Missed, Arriving, Waits, Open,
         Steady, Rivals
  <2>13. Outlasted(r, g, t, k)
    BY DEF Outlasted, Arriving, Waits, Open, ProbeLeft, Steady
  <2> QED BY <2>1, <2>2, <2>3, <2>4, <2>5, <2>6, <2>7, <2>8, <2>9, <2>10, <2>11, <2>12, <2>13
<1>4. Pair(n, m, t, k, r, g)
  <2>1. Holding(t) => ~Holding(r)
    OBVIOUS
  <2>2. Unrivalled(t, k, r, g)
    BY DEF Unrivalled, Waits, Open
  <2>3. Warned(t, k, r, g)
    BY DEF Warned, Waits, Open, Steady
  <2>4. Apart(n, m, t, k, r, g)
    BY DEF Apart, Arriving, Rivals
  <2>5. Contested(n, m, t, k, r, g)
    BY DEF Contested, Arriving, Waits, Open, Rivals
  <2>6. Elected(t, k, r)
    BY DEF Timed, Tasked, Fresh, Apart, Elected, Released, Spoken, Arriving,
         Waits, Open, Belongs, Armed, Steady, Rivals
  <2>7. Followed(t, r, g)
    BY DEF Timed, Tasked, Fresh, Warned, Apart, Followed, Arriving, Waits,
         Open, Belongs, Armed, Steady, Rivals
  <2>8. Released(t, k, r, g)
    BY DEF Tasked, Fresh, Apart, Released, Arriving, Waits, Open, Steady,
         Rivals
  <2>9. Spoken(n, m, t, k, r, g)
    BY DEF Spoken, Arriving, Rivals
  <2>10. Vacant(t, k, r, g)
    BY DEF Apart, Spoken, Vacant, Arriving, Rivals
  <2>11. Succeeds(t, k, r, g)
    BY DEF Succeeds, Arriving
  <2>12. Missed(t, k, r, g)
    BY DEF Missed, Arriving, Waits, Open
  <2>13. Outlasted(t, k, r, g)
    BY DEF Timed, Tasked, Fresh, Apart, Spoken, Succeeds, Outlasted, Arriving,
         Waits, Open, Belongs, Armed, ProbeLeft, Steady, Rivals
  <2> QED BY <2>1, <2>2, <2>3, <2>4, <2>5, <2>6, <2>7, <2>8, <2>9, <2>10, <2>11, <2>12, <2>13
<1> QED BY <1>1, <1>2, <1>3, <1>4

(* A newer build that boots finds a holder and claims the surface from it.   *)
LEMMA PreemptMove ==
  ASSUME NEW m \in Node, NEW n \in Node, NEW s, NEW h, NEW t, NEW k, NEW b, NEW i,
         NEW g, NEW r, NEW l,
         Scene(m, n, s, h, t, k, b), Steady, Turn(s, h, i, g), i = "HEARTBEAT",
         s.role = "probing", StrictlyNewer(m, n),
         Mark(r, "awaiting-handoff", 0, s.claimed, "none", s.task.left),
         Dials(r, Off, Off, Off, PreemptGrace, s.timer["heartbeat"], s.timer["watchdog"]),
         Told("CLAIM", k, l, b)
  PROVE  Both(m, n, r, g, t, l, TRUE, b) /\ "RESIGN" \notin k
<1>1. Own(r, g, TRUE)
  <2>1. Timed(r, g)
    BY DEF Timed, Belongs, Armed, Steady
  <2>2. Tasked(r)
    BY DEF Tasked, Steady
  <2>3. Watched(r, g, TRUE)
    BY DEF Tasked, Watched, Steady
  <2>4. Fresh(r, g)
    BY DEF Tasked, Fresh
  <2>5. "withdrawn" \in g =>
          /\ r.timer["watchdog"] = Off
          /\ "stop" \in g \/ r.task.op = "stop" \/ r.role = "stopped"
    OBVIOUS
  <2> QED BY <2>1, <2>2, <2>3, <2>4, <2>5
<1>2. Own(t, l, b)
  BY ToldOwn DEF Datagram
<1>3. Pair(m, n, r, g, t, l)
  <2>1. Holding(r) => ~Holding(t)
    OBVIOUS
  <2>2. Unrivalled(r, g, t, l)
    BY DEF Timed, Unrivalled, Waits, Open, Belongs, Armed, Steady
  <2>3. Warned(r, g, t, l)
    BY DEF Warned, Waits, Open, Steady
  <2>4. Apart(m, n, r, g, t, l)
    BY DEF Tasked, Watched, Apart, Released, Spoken, Arriving, Waits, Open,
         Steady, Rivals
  <2>5. Contested(m, n, r, g, t, l)
    BY DEF Contested, Arriving, Waits, Open, Rivals
  <2>6. Elected(r, g, t)
    BY DEF Elected, Steady
  <2>7. Followed(r, t, l)
    BY DEF Followed, Steady
  <2>8. Released(r, g, t, l)
    BY DEF Released, Spoken, Arriving, Waits, Open, Steady, Rivals
  <2>9. Spoken(m, n, r, g, t, l)
    BY DEF Spoken, Arriving, Rivals
  <2>10. Vacant(r, g, t, l)
    BY DEF Vacant
  <2>11. Succeeds(r, g, t, l)
    BY DEF Succeeds, Arriving
  <2>12. Missed(r, g, t, l)
    BY DEF Tasked, Watched, Released, Spoken, Missed, Arriving, Waits, Open,
         Steady, Rivals
  <2>13. Outlasted(r, g, t, l)
    BY DEF Outlasted, Arriving, Waits, Open, ProbeLeft, Steady
  <2> QED BY <2>1, <2>2, <2>3, <2>4, <2>5, <2>6, <2>7, <2>8, <2>9, <2>10, <2>11, <2>12, <2>13
<1>4. Pair(n, m, t, l, r, g)
  <2>1. Holding(t) => ~Holding(r)
    OBVIOUS
  <2>2. Unrivalled(t, l, r, g)
    BY DEF Timed, Unrivalled, Apart, Contested, Arriving, Waits, Open, Belongs,
         Armed, Rivals
  <2>3. Warned(t, l, r, g)
    BY DEF Timed, Tasked, Gone, Warned, Waits, Open, Belongs, Armed, Steady
  <2>4. Apart(n, m, t, l, r, g)
    BY DEF Apart, Arriving, Rivals
  <2>5. Contested(n, m, t, l, r, g)
    BY DEF Contested, Arriving, Waits, Open, Rivals
  <2>6. Elected(t, l, r)
    BY DEF Elected, Steady
  <2>7. Followed(t, r, g)
    BY DEF Followed, Steady
  <2>8. Released(t, l, r, g)
    BY DEF Released, Arriving, Waits, Open, Steady
  <2>9. Spoken(n, m, t, l, r, g)
    BY DEF Spoken, Arriving, Rivals
  <2>10. Vacant(t, l, r, g)
    BY DEF Vacant
  <2>11. Succeeds(t, l, r, g)
    BY DEF Released, Spoken, Succeeds, Arriving, Waits, Open, Rivals
  <2>12. Missed(t, l, r, g)
    BY DEF Missed, Arriving, Waits, Open
  <2>13. Outlasted(t, l, r, g)
    BY DEF Apart, Outlasted, Arriving, Waits, Open, ProbeLeft, Steady
  <2> QED BY <2>1, <2>2, <2>3, <2>4, <2>5, <2>6, <2>7, <2>8, <2>9, <2>10, <2>11, <2>12, <2>13
<1>5. "RESIGN" \notin k
  BY DEF Released, Holding, Arriving, Apart, Contested, Unrivalled, Waits, Open, Fresh, Tasked, Spoken, Watched, Rivals
<1> QED BY <1>1, <1>2, <1>3, <1>4, <1>5

(* A holder hands over: to a better holder, to a newer build, to a node that *)
(* holds less, or because it leaves.                                         *)
LEMMA StopMove ==
  ASSUME NEW m \in Node, NEW n \in Node, NEW s, NEW h, NEW t, NEW k, NEW b, NEW i,
         NEW g, NEW r, NEW d,
         Scene(m, n, s, h, t, k, b), Steady, Turn(s, h, i, g), s.role = "master",
         i \in {"HEARTBEAT", "CLAIM", "yield", "stop"},
         i = "HEARTBEAT" => OutranksStably(n, m),
         i = "CLAIM" => StrictlyNewer(n, m),
         i = "stop" => s.timer["watchdog"] = Off,
         Mark(r, "resigning", d, s.claimed, "stop", MaxStop),
         d = (IF i = "HEARTBEAT" THEN 0 ELSE s.heard),
         Dials(r, s.timer["probe"], s.timer["election"], s.timer["settle"],
           s.timer["handoff"], Off, s.timer["watchdog"])
  PROVE  Both(m, n, r, g, t, k, TRUE, b)
<1>1. Own(r, g, TRUE)
  <2>1. Timed(r, g)
    BY DEF Timed, Released, Spoken, Arriving, Waits, Open, Belongs, Armed,
         Steady, Rivals
  <2>2. Tasked(r)
    BY DEF Tasked, Steady
  <2>3. Watched(r, g, TRUE)
    BY DEF Tasked, Watched, Released, Spoken, Arriving, Waits, Open, Steady,
         Rivals
  <2>4. Fresh(r, g)
    BY DEF Tasked, Fresh
  <2>5. "withdrawn" \in g =>
          /\ r.timer["watchdog"] = Off
          /\ "stop" \in g \/ r.task.op = "stop" \/ r.role = "stopped"
    OBVIOUS
  <2> QED BY <2>1, <2>2, <2>3, <2>4, <2>5
<1>2. Own(t, k, b)
  OBVIOUS
<1>3. Pair(m, n, r, g, t, k)
  <2>1. Holding(r) => ~Holding(t)
    OBVIOUS
  <2>2. Unrivalled(r, g, t, k)
    BY DEF Unrivalled, Released, Spoken, Arriving, Waits, Open, Rivals
  <2>3. Warned(r, g, t, k)
    BY DEF Warned, Released, Spoken, Arriving, Waits, Open, Steady, Rivals
  <2>4. Apart(m, n, r, g, t, k)
    BY DEF Apart, Arriving, Rivals
  <2>5. Contested(m, n, r, g, t, k)
    BY DEF Contested, Arriving, Waits, Open, Rivals
  <2>6. Elected(r, g, t)
    BY DEF Elected, Steady
  <2>7. Followed(r, t, k)
    BY DEF Followed, Steady
  <2>8. Released(r, g, t, k)
    BY DEF Released, Arriving, Waits, Open, Steady
  <2>9. Spoken(m, n, r, g, t, k)
    BY DEF Spoken, Arriving, Rivals
  <2>10. Vacant(r, g, t, k)
    BY DEF Vacant
  <2>11. Succeeds(r, g, t, k)
    BY DEF Succeeds, Arriving
  <2>12. Missed(r, g, t, k)
    BY DEF Released, Spoken, Missed, Arriving, Waits, Open, Rivals
  <2>13. Outlasted(r, g, t, k)
    BY DEF Outlasted, Arriving, Waits, Open, ProbeLeft, Steady
  <2> QED BY <2>1, <2>2, <2>3, <2>4, <2>5, <2>6, <2>7, <2>8, <2>9, <2>10, <2>11, <2>12, <2>13
<1>4. Pair(n, m, t, k, r, g)
  <2>1. Holding(t) => ~Holding(r)
    OBVIOUS
  <2>2. Unrivalled(t, k, r, g)
    BY DEF Unrivalled, Released, Spoken, Arriving, Waits, Open, Rivals
  <2>3. Warned(t, k, r, g)
    BY DEF Warned, Waits, Open, Steady
  <2>4. Apart(n, m, t, k, r, g)
    BY DEF Apart, Arriving, Rivals
  <2>5. Contested(n, m, t, k, r, g)
    BY DEF Contested, Arriving, Waits, Open, Rivals
  <2>6. Elected(t, k, r)
    BY DEF Elected, Steady
  <2>7. Followed(t, r, g)
    BY DEF Followed, Steady
  <2>8. Released(t, k, r, g)
    BY DEF Released, Arriving, Waits, Open, Steady
  <2>9. Spoken(n, m, t, k, r, g)
    BY DEF Spoken, Arriving, Rivals
  <2>10. Vacant(t, k, r, g)
    BY DEF Vacant
  <2>11. Succeeds(t, k, r, g)
    BY DEF Succeeds, Arriving
  <2>12. Missed(t, k, r, g)
    BY DEF Missed, Arriving, Waits, Open
  <2>13. Outlasted(t, k, r, g)
    BY DEF Released, Spoken, Outlasted, Arriving, Waits, Open, ProbeLeft,
         Steady, Rivals
  <2> QED BY <2>1, <2>2, <2>3, <2>4, <2>5, <2>6, <2>7, <2>8, <2>9, <2>10, <2>11, <2>12, <2>13
<1> QED BY <1>1, <1>2, <1>3, <1>4

(* A node that bids answers the first claim of a worse one.                  *)
LEMMA ClaimMove ==
  ASSUME NEW m \in Node, NEW n \in Node, NEW s, NEW h, NEW t, NEW k, NEW b, NEW i,
         NEW g, NEW r, NEW l,
         Scene(m, n, s, h, t, k, b), Steady, Turn(s, h, i, g), i = "CLAIM",
         s.role \in {"probing", "electing"}, ~s.claimed,
         ~OutranksForSurface(m, n, m),
         Mark(r, s.role, s.heard, TRUE, "none", s.task.left),
         Dials(r, s.timer["probe"], s.timer["election"], s.timer["settle"],
           s.timer["handoff"], s.timer["heartbeat"], s.timer["watchdog"]),
         Told("CLAIM", k, l, b)
  PROVE  Both(m, n, r, g, t, l, TRUE, b) /\ "RESIGN" \notin k
<1>1. Own(r, g, TRUE)
  <2>1. Timed(r, g)
    BY DEF Timed, Belongs, Armed, Steady
  <2>2. Tasked(r)
    BY DEF Tasked, Steady
  <2>3. Watched(r, g, TRUE)
    BY DEF Tasked, Watched, Steady
  <2>4. Fresh(r, g)
    BY DEF Tasked, Fresh
  <2>5. "withdrawn" \in g =>
          /\ r.timer["watchdog"] = Off
          /\ "stop" \in g \/ r.task.op = "stop" \/ r.role = "stopped"
    OBVIOUS
  <2> QED BY <2>1, <2>2, <2>3, <2>4, <2>5
<1>2. Own(t, l, b)
  BY ToldOwn DEF Datagram
<1>3. Pair(m, n, r, g, t, l)
  <2>1. Holding(r) => ~Holding(t)
    OBVIOUS
  <2>2. Unrivalled(r, g, t, l)
    BY DEF Unrivalled, Waits, Open
  <2>3. Warned(r, g, t, l)
    BY DEF Warned, Waits, Open, Steady
  <2>4. Apart(m, n, r, g, t, l)
    BY DEF Apart, Arriving, Rivals
  <2>5. Contested(m, n, r, g, t, l)
    BY DEF Gone, Contested, Arriving, Waits, Open, Rivals
  <2>6. Elected(r, g, t)
    BY DEF Elected, Steady
  <2>7. Followed(r, t, l)
    BY DEF Followed, Steady
  <2>8. Released(r, g, t, l)
    BY DEF Released, Arriving, Waits, Open, Steady
  <2>9. Spoken(m, n, r, g, t, l)
    BY DEF Spoken, Arriving, Rivals
  <2>10. Vacant(r, g, t, l)
    BY DEF Vacant
  <2>11. Succeeds(r, g, t, l)
    BY DEF Succeeds, Arriving
  <2>12. Missed(r, g, t, l)
    BY DEF Missed, Arriving, Waits, Open
  <2>13. Outlasted(r, g, t, l)
    BY DEF Outlasted, Arriving, Waits, Open, ProbeLeft, Steady
  <2> QED BY <2>1, <2>2, <2>3, <2>4, <2>5, <2>6, <2>7, <2>8, <2>9, <2>10, <2>11, <2>12, <2>13
<1>4. Pair(n, m, t, l, r, g)
  <2>1. Holding(t) => ~Holding(r)
    OBVIOUS
  <2>2. Unrivalled(t, l, r, g)
    BY DEF Timed, Unrivalled, Apart, Contested, Arriving, Waits, Open, Belongs,
         Armed, Rivals
  <2>3. Warned(t, l, r, g)
    BY DEF Warned, Waits, Open, Steady
  <2>4. Apart(n, m, t, l, r, g)
    BY DEF Apart, Arriving, Rivals
  <2>5. Contested(n, m, t, l, r, g)
    BY DEF Timed, Gone, Unrivalled, Contested, Arriving, Waits, Open, Belongs,
         Armed, Rivals
  <2>6. Elected(t, l, r)
    BY DEF Elected, Steady
  <2>7. Followed(t, r, g)
    BY DEF Followed, Steady
  <2>8. Released(t, l, r, g)
    BY DEF Released, Succeeds, Arriving, Waits, Open, Steady
  <2>9. Spoken(n, m, t, l, r, g)
    BY DEF Spoken, Arriving, Rivals
  <2>10. Vacant(t, l, r, g)
    BY DEF Vacant
  <2>11. Succeeds(t, l, r, g)
    BY DEF Released, Succeeds, Arriving, Waits, Open
  <2>12. Missed(t, l, r, g)
    BY DEF Missed, Arriving, Waits, Open
  <2>13. Outlasted(t, l, r, g)
    BY DEF Apart, Outlasted, Arriving, Waits, Open, ProbeLeft, Steady
  <2> QED BY <2>1, <2>2, <2>3, <2>4, <2>5, <2>6, <2>7, <2>8, <2>9, <2>10, <2>11, <2>12, <2>13
<1>5. "RESIGN" \notin k
  BY DEF Released, Holding, Arriving, Apart, Contested, Unrivalled, Waits, Open, Fresh, Tasked, Spoken, Watched, Rivals
<1> QED BY <1>1, <1>2, <1>3, <1>4, <1>5

(* A standby whose holder resigned, or has not been heard for too long, bids.*)
LEMMA ElectMove ==
  ASSUME NEW m \in Node, NEW n \in Node, NEW s, NEW h, NEW t, NEW k, NEW b, NEW i,
         NEW g, NEW e \in 0..ElectionWindow, NEW r,
         Scene(m, n, s, h, t, k, b), Steady, Turn(s, h, i, g),
         i \in {"RESIGN", "timeout"}, s.role = "standby",
         Mark(r, "electing", s.heard, FALSE, "none", s.task.left),
         Dials(r, Off, e, Off, Off, s.timer["heartbeat"], s.timer["watchdog"])
  PROVE  Both(m, n, r, g, t, k, TRUE, b)
<1>1. Own(r, g, TRUE)
  <2>1. Timed(r, g)
    BY DEF Timed, Belongs, Armed, Steady
  <2>2. Tasked(r)
    BY DEF Tasked, Steady
  <2>3. Watched(r, g, TRUE)
    BY DEF Tasked, Watched, Steady
  <2>4. Fresh(r, g)
    BY DEF Tasked, Fresh
  <2>5. "withdrawn" \in g =>
          /\ r.timer["watchdog"] = Off
          /\ "stop" \in g \/ r.task.op = "stop" \/ r.role = "stopped"
    OBVIOUS
  <2> QED BY <2>1, <2>2, <2>3, <2>4, <2>5
<1>2. Own(t, k, b)
  OBVIOUS
<1>3. Pair(m, n, r, g, t, k)
  <2>1. Holding(r) => ~Holding(t)
    OBVIOUS
  <2>2. Unrivalled(r, g, t, k)
    BY DEF Timed, Unrivalled, Waits, Open, Belongs, Armed
  <2>3. Warned(r, g, t, k)
    BY DEF Warned, Waits, Open, Steady
  <2>4. Apart(m, n, r, g, t, k)
    BY DEF Apart, Released, Missed, Arriving, Waits, Open, Rivals
  <2>5. Contested(m, n, r, g, t, k)
    BY DEF Contested, Arriving, Waits, Open, Rivals
  <2>6. Elected(r, g, t)
    BY DEF Elected, Released, Missed, Arriving, Waits, Open, Steady
  <2>7. Followed(r, t, k)
    BY DEF Followed, Steady
  <2>8. Released(r, g, t, k)
    BY DEF Tasked, Watched, Released, Arriving, Waits, Open, Steady
  <2>9. Spoken(m, n, r, g, t, k)
    BY DEF Spoken, Arriving, Rivals
  <2>10. Vacant(r, g, t, k)
    BY DEF Vacant
  <2>11. Succeeds(r, g, t, k)
    BY DEF Succeeds, Arriving
  <2>12. Missed(r, g, t, k)
    BY DEF Tasked, Watched, Released, Missed, Steady, Arriving, Waits, Open
  <2>13. Outlasted(r, g, t, k)
    BY DEF Outlasted, Arriving, Waits, Open, ProbeLeft, Steady
  <2> QED BY <2>1, <2>2, <2>3, <2>4, <2>5, <2>6, <2>7, <2>8, <2>9, <2>10, <2>11, <2>12, <2>13
<1>4. Pair(n, m, t, k, r, g)
  <2>1. Holding(t) => ~Holding(r)
    OBVIOUS
  <2>2. Unrivalled(t, k, r, g)
    BY DEF Timed, Unrivalled, Waits, Open, Belongs, Armed
  <2>3. Warned(t, k, r, g)
    BY DEF Timed, Warned, Released, Missed, Arriving, Waits, Open, Belongs,
         Armed, Steady
  <2>4. Apart(n, m, t, k, r, g)
    BY DEF Apart, Released, Missed, Arriving, Waits, Open, Rivals
  <2>5. Contested(n, m, t, k, r, g)
    BY DEF Timed, Contested, Released, Missed, Arriving, Waits, Open, Belongs,
         Armed, Rivals
  <2>6. Elected(t, k, r)
    BY DEF Elected, Steady
  <2>7. Followed(t, r, g)
    BY DEF Followed, Steady
  <2>8. Released(t, k, r, g)
    BY DEF Tasked, Watched, Released, Arriving, Waits, Open, Steady
  <2>9. Spoken(n, m, t, k, r, g)
    BY DEF Spoken, Released, Tasked, Watched, Steady, Missed, Arriving, Waits, Open, Rivals
  <2>10. Vacant(t, k, r, g)
    BY DEF Vacant
  <2>11. Succeeds(t, k, r, g)
    BY DEF Tasked, Watched, Released, Succeeds, Steady, Missed, Arriving, Waits, Open
  <2>12. Missed(t, k, r, g)
    BY DEF Missed, Arriving, Waits, Open
  <2>13. Outlasted(t, k, r, g)
    BY DEF Timed, Released, Outlasted, Arriving, Waits, Open, Belongs, Armed,
         ProbeLeft, Steady
  <2> QED BY <2>1, <2>2, <2>3, <2>4, <2>5, <2>6, <2>7, <2>8, <2>9, <2>10, <2>11, <2>12, <2>13
<1> QED BY <1>1, <1>2, <1>3, <1>4

(* The jitter of an election is over: the node claims the surface.           *)
LEMMA SettleMove ==
  ASSUME NEW m \in Node, NEW n \in Node, NEW s, NEW h, NEW t, NEW k, NEW b, NEW i,
         NEW g, NEW r, NEW l,
         Scene(m, n, s, h, t, k, b), Steady, Turn(s, h, i, g), i = "election",
         s.role = "electing",
         Mark(r, "electing", s.heard, TRUE, "none", s.task.left),
         Dials(r, s.timer["probe"], s.timer["election"], ClaimSettle, s.timer["handoff"],
           s.timer["heartbeat"], s.timer["watchdog"]),
         Told("CLAIM", k, l, b)
  PROVE  Both(m, n, r, g, t, l, TRUE, b) /\ "RESIGN" \notin k
<1>1. Own(r, g, TRUE)
  <2>1. Timed(r, g)
    BY DEF Timed, Belongs, Armed, Steady
  <2>2. Tasked(r)
    BY DEF Tasked, Steady
  <2>3. Watched(r, g, TRUE)
    BY DEF Tasked, Watched, Steady
  <2>4. Fresh(r, g)
    BY DEF Tasked, Fresh
  <2>5. "withdrawn" \in g =>
          /\ r.timer["watchdog"] = Off
          /\ "stop" \in g \/ r.task.op = "stop" \/ r.role = "stopped"
    OBVIOUS
  <2> QED BY <2>1, <2>2, <2>3, <2>4, <2>5
<1>2. Own(t, l, b)
  BY ToldOwn DEF Datagram
<1>3. Pair(m, n, r, g, t, l)
  <2>1. Holding(r) => ~Holding(t)
    OBVIOUS
  <2>2. Unrivalled(r, g, t, l)
    BY DEF Unrivalled, Waits, Open, Steady
  <2>3. Warned(r, g, t, l)
    BY DEF Warned, Waits, Open, Steady
  <2>4. Apart(m, n, r, g, t, l)
    BY DEF Apart, Arriving, Rivals
  <2>5. Contested(m, n, r, g, t, l)
    BY DEF Contested, Arriving, Waits, Open, Rivals
  <2>6. Elected(r, g, t)
    BY DEF Elected, Steady
  <2>7. Followed(r, t, l)
    BY DEF Followed, Steady
  <2>8. Released(r, g, t, l)
    BY DEF Released, Arriving, Waits, Open, Steady
  <2>9. Spoken(m, n, r, g, t, l)
    BY DEF Spoken, Arriving, Rivals
  <2>10. Vacant(r, g, t, l)
    BY DEF Vacant
  <2>11. Succeeds(r, g, t, l)
    BY DEF Succeeds, Arriving
  <2>12. Missed(r, g, t, l)
    BY DEF Missed, Arriving, Waits, Open
  <2>13. Outlasted(r, g, t, l)
    BY DEF Outlasted, Arriving, Waits, Open, ProbeLeft, Steady
  <2> QED BY <2>1, <2>2, <2>3, <2>4, <2>5, <2>6, <2>7, <2>8, <2>9, <2>10, <2>11, <2>12, <2>13
<1>4. Pair(n, m, t, l, r, g)
  <2>1. Holding(t) => ~Holding(r)
    OBVIOUS
  <2>2. Unrivalled(t, l, r, g)
    BY DEF Timed, Unrivalled, Apart, Arriving, Waits, Open, Belongs, Armed,
         Steady
  <2>3. Warned(t, l, r, g)
    BY DEF Warned, Waits, Open, Steady
  <2>4. Apart(n, m, t, l, r, g)
    BY DEF Apart, Arriving, Rivals
  <2>5. Contested(n, m, t, l, r, g)
    BY DEF Gone, Contested, Arriving, Waits, Open, Steady, Rivals
  <2>6. Elected(t, l, r)
    BY DEF Elected, Steady
  <2>7. Followed(t, r, g)
    BY DEF Followed, Steady
  <2>8. Released(t, l, r, g)
    BY DEF Released, Succeeds, Arriving, Waits, Open, Steady
  <2>9. Spoken(n, m, t, l, r, g)
    BY DEF Spoken, Arriving, Rivals
  <2>10. Vacant(t, l, r, g)
    BY DEF Vacant
  <2>11. Succeeds(t, l, r, g)
    BY DEF Released, Succeeds, Arriving, Waits, Open
  <2>12. Missed(t, l, r, g)
    BY DEF Missed, Arriving, Waits, Open
  <2>13. Outlasted(t, l, r, g)
    BY DEF Outlasted, Arriving, Waits, Open, ProbeLeft, Steady
  <2> QED BY <2>1, <2>2, <2>3, <2>4, <2>5, <2>6, <2>7, <2>8, <2>9, <2>10, <2>11, <2>12, <2>13
<1>5. "RESIGN" \notin k
  BY DEF Released, Holding, Arriving, Apart, Contested, Unrivalled, Waits, Open, Fresh, Tasked, Spoken, Watched, Rivals
<1> QED BY <1>1, <1>2, <1>3, <1>4, <1>5

(* A node that does not hold the surface leaves its election.                *)
LEMMA QuitMove ==
  ASSUME NEW m \in Node, NEW n \in Node, NEW s, NEW h, NEW t, NEW k, NEW b, NEW i,
         NEW g, NEW r,
         Scene(m, n, s, h, t, k, b), Steady, Turn(s, h, i, g), i = "stop",
         s.role # "master", s.timer["watchdog"] = Off,
         Mark(r, "stopped", s.heard, s.claimed, "none", s.task.left),
         Dials(r, Off, Off, Off, Off, Off, Off)
  PROVE  Both(m, n, r, g, t, k, TRUE, b)
<1>1. Own(r, g, TRUE)
  <2>1. Timed(r, g)
    BY DEF Timed, Belongs, Armed, Steady
  <2>2. Tasked(r)
    BY DEF Tasked, Steady
  <2>3. Watched(r, g, TRUE)
    BY DEF Tasked, Watched, Steady
  <2>4. Fresh(r, g)
    BY DEF Tasked, Fresh
  <2>5. "withdrawn" \in g =>
          /\ r.timer["watchdog"] = Off
          /\ "stop" \in g \/ r.task.op = "stop" \/ r.role = "stopped"
    OBVIOUS
  <2> QED BY <2>1, <2>2, <2>3, <2>4, <2>5
<1>2. Own(t, k, b)
  OBVIOUS
<1>3. Pair(m, n, r, g, t, k)
  <2>1. Holding(r) => ~Holding(t)
    OBVIOUS
  <2>2. Unrivalled(r, g, t, k)
    BY DEF Unrivalled, Waits, Open
  <2>3. Warned(r, g, t, k)
    BY DEF Warned, Waits, Open, Steady
  <2>4. Apart(m, n, r, g, t, k)
    BY DEF Apart, Arriving, Rivals
  <2>5. Contested(m, n, r, g, t, k)
    BY DEF Contested, Arriving, Waits, Open, Rivals
  <2>6. Elected(r, g, t)
    BY DEF Elected, Steady
  <2>7. Followed(r, t, k)
    BY DEF Followed, Steady
  <2>8. Released(r, g, t, k)
    BY DEF Released, Arriving, Waits, Open, Steady
  <2>9. Spoken(m, n, r, g, t, k)
    BY DEF Tasked, Spoken, Arriving, Rivals
  <2>10. Vacant(r, g, t, k)
    BY DEF Vacant
  <2>11. Succeeds(r, g, t, k)
    BY DEF Succeeds, Arriving
  <2>12. Missed(r, g, t, k)
    BY DEF Missed, Arriving, Waits, Open
  <2>13. Outlasted(r, g, t, k)
    BY DEF Outlasted, Arriving, Waits, Open, ProbeLeft, Steady
  <2> QED BY <2>1, <2>2, <2>3, <2>4, <2>5, <2>6, <2>7, <2>8, <2>9, <2>10, <2>11, <2>12, <2>13
<1>4. Pair(n, m, t, k, r, g)
  <2>1. Holding(t) => ~Holding(r)
    OBVIOUS
  <2>2. Unrivalled(t, k, r, g)
    BY DEF Unrivalled, Waits, Open
  <2>3. Warned(t, k, r, g)
    BY DEF Warned, Waits, Open, Steady
  <2>4. Apart(n, m, t, k, r, g)
    BY DEF Tasked, Apart, Arriving, Rivals
  <2>5. Contested(n, m, t, k, r, g)
    BY DEF Contested, Arriving, Waits, Open, Rivals
  <2>6. Elected(t, k, r)
    BY DEF Elected, Steady
  <2>7. Followed(t, r, g)
    BY DEF Followed, Steady
  <2>8. Released(t, k, r, g)
    BY DEF Released, Arriving, Waits, Open, Steady
  <2>9. Spoken(n, m, t, k, r, g)
    BY DEF Spoken, Arriving, Rivals
  <2>10. Vacant(t, k, r, g)
    BY DEF Vacant
  <2>11. Succeeds(t, k, r, g)
    BY DEF Succeeds, Arriving
  <2>12. Missed(t, k, r, g)
    BY DEF Missed, Arriving, Waits, Open
  <2>13. Outlasted(t, k, r, g)
    BY DEF Outlasted, Arriving, Waits, Open, ProbeLeft, Steady
  <2> QED BY <2>1, <2>2, <2>3, <2>4, <2>5, <2>6, <2>7, <2>8, <2>9, <2>10, <2>11, <2>12, <2>13
<1> QED BY <1>1, <1>2, <1>3, <1>4

(* A node that has started asks whether the surface is held.                 *)
LEMMA ProbeMove ==
  ASSUME NEW m \in Node, NEW n \in Node, NEW s, NEW h, NEW t, NEW k, NEW b, NEW i,
         NEW g, NEW r, NEW l,
         Scene(m, n, s, h, t, k, b), Steady, Turn(s, h, i, g), i = "boot",
         Mark(r, "probing", s.heard, s.claimed, "none", s.task.left),
         Dials(r, BootProbe, Off, Off, Off, s.timer["heartbeat"], s.timer["watchdog"]),
         Told("PROBE", k, l, b)
  PROVE  Both(m, n, r, g, t, l, TRUE, b)
<1>1. Own(r, g, TRUE)
  <2>1. Timed(r, g)
    BY DEF Timed, Tasked, Fresh, Belongs, Armed, Steady
  <2>2. Tasked(r)
    BY DEF Tasked, Steady
  <2>3. Watched(r, g, TRUE)
    BY DEF Tasked, Watched, Steady
  <2>4. Fresh(r, g)
    BY DEF Tasked, Fresh
  <2>5. "withdrawn" \in g =>
          /\ r.timer["watchdog"] = Off
          /\ "stop" \in g \/ r.task.op = "stop" \/ r.role = "stopped"
    BY DEF Fresh
  <2> QED BY <2>1, <2>2, <2>3, <2>4, <2>5
<1>2. Own(t, l, b)
  BY ToldOwn DEF Datagram
<1>3. Pair(m, n, r, g, t, l)
  <2>1. Holding(r) => ~Holding(t)
    OBVIOUS
  <2>2. Unrivalled(r, g, t, l)
    BY DEF Tasked, Fresh, Unrivalled, Waits, Open, Steady
  <2>3. Warned(r, g, t, l)
    BY DEF Warned, Waits, Open, Steady
  <2>4. Apart(m, n, r, g, t, l)
    BY DEF Apart, Arriving, Rivals
  <2>5. Contested(m, n, r, g, t, l)
    BY DEF Timed, Tasked, Fresh, Contested, Arriving, Waits, Open, Belongs,
         Armed, Rivals
  <2>6. Elected(r, g, t)
    BY DEF Elected, Steady
  <2>7. Followed(r, t, l)
    BY DEF Followed, Steady
  <2>8. Released(r, g, t, l)
    BY DEF Tasked, Fresh, Released, Arriving, Waits, Open, Steady
  <2>9. Spoken(m, n, r, g, t, l)
    BY DEF Tasked, Fresh, Spoken, Arriving, Rivals
  <2>10. Vacant(r, g, t, l)
    BY DEF Vacant
  <2>11. Succeeds(r, g, t, l)
    BY DEF Succeeds, Arriving
  <2>12. Missed(r, g, t, l)
    BY DEF Tasked, Fresh, Missed, Arriving, Waits, Open
  <2>13. Outlasted(r, g, t, l)
    BY DEF Timed, Tasked, Fresh, Outlasted, Arriving, Waits, Open, Belongs,
         Armed, ProbeLeft, Steady
  <2> QED BY <2>1, <2>2, <2>3, <2>4, <2>5, <2>6, <2>7, <2>8, <2>9, <2>10, <2>11, <2>12, <2>13
<1>4. Pair(n, m, t, l, r, g)
  <2>1. Holding(t) => ~Holding(r)
    OBVIOUS
  <2>2. Unrivalled(t, l, r, g)
    BY DEF Tasked, Fresh, Unrivalled, Waits, Open, Steady
  <2>3. Warned(t, l, r, g)
    BY DEF Tasked, Fresh, Gone, Warned, Waits, Open, Steady
  <2>4. Apart(n, m, t, l, r, g)
    BY DEF Apart, Arriving, Rivals
  <2>5. Contested(n, m, t, l, r, g)
    BY DEF Contested, Arriving, Waits, Open, Rivals
  <2>6. Elected(t, l, r)
    BY DEF Elected, Steady
  <2>7. Followed(t, r, g)
    BY DEF Followed, Steady
  <2>8. Released(t, l, r, g)
    BY DEF Released, Arriving, Waits, Open, Steady
  <2>9. Spoken(n, m, t, l, r, g)
    BY DEF Spoken, Fresh, Arriving, Rivals
  <2>10. Vacant(t, l, r, g)
    BY DEF Vacant
  <2>11. Succeeds(t, l, r, g)
    BY DEF Succeeds, Arriving
  <2>12. Missed(t, l, r, g)
    BY DEF Missed, Arriving, Waits, Open
  <2>13. Outlasted(t, l, r, g)
    BY DEF Apart, Outlasted, Arriving, Waits, Open, ProbeLeft, Steady
  <2> QED BY <2>1, <2>2, <2>3, <2>4, <2>5, <2>6, <2>7, <2>8, <2>9, <2>10, <2>11, <2>12, <2>13
<1> QED BY <1>1, <1>2, <1>3, <1>4

(* The consumer has started, and the holder says so.                         *)
LEMMA StartedMove ==
  ASSUME NEW m \in Node, NEW n \in Node, NEW s, NEW h, NEW t, NEW k, NEW b, NEW r,
         NEW l,
         Scene(m, n, s, h, t, k, b), Steady, s.task.op = "start",
         Mark(r, s.role, s.heard, s.claimed, "none", 0),
         Dials(r, s.timer["probe"], s.timer["election"], s.timer["settle"],
           s.timer["handoff"], HeartbeatPeriod, s.timer["watchdog"]),
         Told("HEARTBEAT", k, l, b)
  PROVE  Both(m, n, r, h, t, l, TRUE, b) /\ "RESIGN" \notin k
<1>1. Own(r, h, TRUE)
  <2>1. Timed(r, h)
    BY DEF Timed, Tasked, Belongs, Armed, Steady
  <2>2. Tasked(r)
    BY DEF Tasked, Steady
  <2>3. Watched(r, h, TRUE)
    BY DEF Tasked, Watched, Steady
  <2>4. Fresh(r, h)
    BY DEF Tasked, Fresh
  <2>5. "withdrawn" \in h =>
          /\ r.timer["watchdog"] = Off
          /\ "stop" \in h \/ r.task.op = "stop" \/ r.role = "stopped"
    OBVIOUS
  <2> QED BY <2>1, <2>2, <2>3, <2>4, <2>5
<1>2. Own(t, l, b)
  BY ToldOwn DEF Datagram
<1>3. Pair(m, n, r, h, t, l)
  <2>1. Holding(r) => ~Holding(t)
    OBVIOUS
  <2>2. Unrivalled(r, h, t, l)
    BY DEF Unrivalled, Waits, Open
  <2>3. Warned(r, h, t, l)
    BY DEF Gone, Warned, Waits, Open, Steady
  <2>4. Apart(m, n, r, h, t, l)
    BY DEF Apart, Arriving, Rivals
  <2>5. Contested(m, n, r, h, t, l)
    BY DEF Contested, Arriving, Waits, Open, Rivals
  <2>6. Elected(r, h, t)
    BY DEF Elected, Steady
  <2>7. Followed(r, t, l)
    BY DEF Gone, Followed, Steady
  <2>8. Released(r, h, t, l)
    BY DEF Released, Arriving, Waits, Open, Steady
  <2>9. Spoken(m, n, r, h, t, l)
    BY DEF Tasked, Spoken, Arriving, Rivals
  <2>10. Vacant(r, h, t, l)
    BY DEF Vacant
  <2>11. Succeeds(r, h, t, l)
    BY DEF Tasked, Released, Succeeds, Arriving, Waits, Open
  <2>12. Missed(r, h, t, l)
    BY DEF Gone, Missed, Arriving, Waits, Open
  <2>13. Outlasted(r, h, t, l)
    BY DEF Tasked, Fresh, Outlasted, Arriving, Waits, Open, ProbeLeft, Steady
  <2> QED BY <2>1, <2>2, <2>3, <2>4, <2>5, <2>6, <2>7, <2>8, <2>9, <2>10, <2>11, <2>12, <2>13
<1>4. Pair(n, m, t, l, r, h)
  <2>1. Holding(t) => ~Holding(r)
    OBVIOUS
  <2>2. Unrivalled(t, l, r, h)
    BY DEF Tasked, Unrivalled, Waits, Open
  <2>3. Warned(t, l, r, h)
    BY DEF Tasked, Warned, Waits, Open, Steady
  <2>4. Apart(n, m, t, l, r, h)
    BY DEF Apart, Arriving, Rivals
  <2>5. Contested(n, m, t, l, r, h)
    BY DEF Tasked, Contested, Arriving, Waits, Open, Rivals
  <2>6. Elected(t, l, r)
    BY DEF Elected, Steady
  <2>7. Followed(t, r, h)
    BY DEF Followed, Steady
  <2>8. Released(t, l, r, h)
    BY DEF Released, Arriving, Waits, Open, Steady
  <2>9. Spoken(n, m, t, l, r, h)
    BY DEF Spoken, Arriving, Rivals
  <2>10. Vacant(t, l, r, h)
    BY DEF Vacant
  <2>11. Succeeds(t, l, r, h)
    BY DEF Tasked, Released, Succeeds, Arriving, Waits, Open
  <2>12. Missed(t, l, r, h)
    BY DEF Missed, Arriving, Waits, Open
  <2>13. Outlasted(t, l, r, h)
    BY DEF Outlasted, Arriving, Waits, Open, ProbeLeft, Steady
  <2> QED BY <2>1, <2>2, <2>3, <2>4, <2>5, <2>6, <2>7, <2>8, <2>9, <2>10, <2>11, <2>12, <2>13
<1>5. "RESIGN" \notin k
  BY DEF Released, Holding, Arriving, Apart, Contested, Unrivalled, Waits, Open, Fresh, Tasked, Spoken, Watched, Rivals
<1> QED BY <1>1, <1>2, <1>3, <1>4, <1>5

(* The consumer has stopped: the node says so and stands by, or has left.    *)
LEMMA ResignMove ==
  ASSUME NEW m \in Node, NEW n \in Node, NEW s, NEW h, NEW t, NEW k, NEW b, NEW r,
         NEW l,
         Scene(m, n, s, h, t, k, b), Steady, s.task.op = "stop",
         \/ /\ Mark(r, "standby", 0, s.claimed, "none", 0) /\ Quiet(r, s)
            /\ "withdrawn" \in h => "stop" \in h
         \/ /\ Mark(r, "stopped", 0, s.claimed, "none", 0)
            /\ s.timer["watchdog"] = Off /\ Dials(r, Off, Off, Off, Off, Off, Off),
         Told("RESIGN", k, l, b)
  PROVE  Both(m, n, r, h, t, l, TRUE, b) /\ "RESIGN" \notin k
<1>1. Own(r, h, TRUE)
  <2>1. Timed(r, h)
    BY DEF Timed, Tasked, Belongs, Armed, Steady
  <2>2. Tasked(r)
    BY DEF Tasked, Steady
  <2>3. Watched(r, h, TRUE)
    BY DEF Tasked, Watched, Steady
  <2>4. Fresh(r, h)
    BY DEF Tasked, Fresh
  <2>5. "withdrawn" \in h =>
          /\ r.timer["watchdog"] = Off
          /\ "stop" \in h \/ r.task.op = "stop" \/ r.role = "stopped"
    OBVIOUS
  <2> QED BY <2>1, <2>2, <2>3, <2>4, <2>5
<1>2. Own(t, l, b)
  BY ToldOwn DEF Datagram
<1>3. Pair(m, n, r, h, t, l)
  <2>1. Holding(r) => ~Holding(t)
    OBVIOUS
  <2>2. Unrivalled(r, h, t, l)
    BY DEF Unrivalled, Waits, Open
  <2>3. Warned(r, h, t, l)
    BY DEF Warned, Waits, Open, Steady
  <2>4. Apart(m, n, r, h, t, l)
    BY DEF Apart, Arriving, Rivals
  <2>5. Contested(m, n, r, h, t, l)
    BY DEF Tasked, Fresh, Contested, Arriving, Waits, Open, Rivals
  <2>6. Elected(r, h, t)
    BY DEF Elected, Steady
  <2>7. Followed(r, t, l)
    BY DEF Followed, Steady
  <2>8. Released(r, h, t, l)
    BY DEF Tasked, Fresh, Warned, Followed, Released, Arriving, Waits, Open,
         Steady
  <2>9. Spoken(m, n, r, h, t, l)
    BY DEF Gone, Spoken, Arriving, Rivals
  <2>10. Vacant(r, h, t, l)
    BY DEF Gone, Vacant
  <2>11. Succeeds(r, h, t, l)
    BY DEF Tasked, Released, Succeeds, Arriving, Waits, Open
  <2>12. Missed(r, h, t, l)
    BY DEF Tasked, Fresh, Gone, Missed, Arriving, Waits, Open
  <2>13. Outlasted(r, h, t, l)
    BY DEF Tasked, Fresh, Outlasted, Arriving, Waits, Open, ProbeLeft, Steady
  <2> QED BY <2>1, <2>2, <2>3, <2>4, <2>5, <2>6, <2>7, <2>8, <2>9, <2>10, <2>11, <2>12, <2>13
<1>4. Pair(n, m, t, l, r, h)
  <2>1. Holding(t) => ~Holding(r)
    OBVIOUS
  <2>2. Unrivalled(t, l, r, h)
    BY DEF Tasked, Unrivalled, Waits, Open
  <2>3. Warned(t, l, r, h)
    BY DEF Warned, Waits, Open, Steady
  <2>4. Apart(n, m, t, l, r, h)
    BY DEF Gone, Apart, Arriving, Rivals
  <2>5. Contested(n, m, t, l, r, h)
    BY DEF Contested, Arriving, Waits, Open, Rivals
  <2>6. Elected(t, l, r)
    BY DEF Timed, Elected, Belongs, Armed, Steady
  <2>7. Followed(t, r, h)
    BY DEF Tasked, Followed, Steady
  <2>8. Released(t, l, r, h)
    BY DEF Tasked, Released, Arriving, Waits, Open, Steady
  <2>9. Spoken(n, m, t, l, r, h)
    BY DEF Spoken, Tasked, Arriving, Rivals
  <2>10. Vacant(t, l, r, h)
    BY DEF Gone, Vacant
  <2>11. Succeeds(t, l, r, h)
    BY DEF Tasked, Fresh, Succeeds, Arriving
  <2>12. Missed(t, l, r, h)
    BY DEF Missed, Arriving, Waits, Open
  <2>13. Outlasted(t, l, r, h)
    BY DEF Timed, Tasked, Outlasted, Arriving, Waits, Open, Belongs, Armed,
         ProbeLeft, Steady
  <2> QED BY <2>1, <2>2, <2>3, <2>4, <2>5, <2>6, <2>7, <2>8, <2>9, <2>10, <2>11, <2>12, <2>13
<1>5. "RESIGN" \notin k
  BY DEF Released, Holding, Arriving, Apart, Contested, Unrivalled, Waits, Open, Fresh, Tasked, Spoken, Watched, Rivals
<1> QED BY <1>1, <1>2, <1>3, <1>4, <1>5

(* A timer that has run out queues its closure.                              *)
LEMMA FireMove ==
  ASSUME NEW m \in Node, NEW n \in Node, NEW s, NEW h, NEW t, NEW k, NEW b, NEW x,
         NEW g, NEW r,
         Scene(m, n, s, h, t, k, b), Steady, s.timer[x] = 0,
         x \in {"probe", "election", "settle", "handoff", "candidacy", "heartbeat", "yield"},
         Joined(h, x, g),
         Mark(r, s.role, s.heard, s.claimed, s.task.op, s.task.left), Expired(s, x, r)
  PROVE  Both(m, n, r, g, t, k, TRUE, b)
<1> USE DEF Joined, Expired
<1>0. Dials(r, IF x = "probe" THEN Off ELSE s.timer["probe"],
              IF x = "election" THEN Off ELSE s.timer["election"],
              IF x = "settle" THEN Off ELSE s.timer["settle"],
              IF x = "handoff" THEN Off ELSE s.timer["handoff"],
              IF x = "heartbeat" THEN Off ELSE s.timer["heartbeat"],
              s.timer["watchdog"])
  BY DEF Timer
<1>1. Own(r, g, TRUE)
  <2>1. Timed(r, g)
    BY <1>0 DEF Timed, Belongs, Armed, Steady
  <2>2. Tasked(r)
    BY <1>0 DEF Tasked, Steady
  <2>3. Watched(r, g, TRUE)
    BY <1>0 DEF Tasked, Watched, Steady
  <2>4. Fresh(r, g)
    BY <1>0 DEF Timed, Tasked, Fresh, Unrivalled, Apart, Arriving, Waits, Open,
         Belongs, Armed
  <2>5. "withdrawn" \in g =>
          /\ r.timer["watchdog"] = Off
          /\ "stop" \in g \/ r.task.op = "stop" \/ r.role = "stopped"
    BY <1>0
  <2> QED BY <2>1, <2>2, <2>3, <2>4, <2>5
<1>2. Own(t, k, b)
  OBVIOUS
<1>3. Pair(m, n, r, g, t, k)
  <2>1. Holding(r) => ~Holding(t)
    BY <1>0 DEF Unrivalled, Waits, Open
  <2>2. Unrivalled(r, g, t, k)
    BY <1>0 DEF Unrivalled, Waits, Open
  <2>3. Warned(r, g, t, k)
    BY <1>0 DEF Timed, Warned, Waits, Open, Belongs, Armed, Steady
  <2>4. Apart(m, n, r, g, t, k)
    BY <1>0 DEF Apart, Arriving, Rivals
  <2>5. Contested(m, n, r, g, t, k)
    BY <1>0 DEF Timed, Apart, Contested, Arriving, Waits, Open, Belongs, Armed,
         Rivals
  <2>6. Elected(r, g, t)
    BY <1>0 DEF Elected, Steady
  <2>7. Followed(r, t, k)
    BY <1>0 DEF Followed, Steady
  <2>8. Released(r, g, t, k)
    BY <1>0 DEF Released, Arriving, Waits, Open, Steady
  <2>9. Spoken(m, n, r, g, t, k)
    BY <1>0 DEF Spoken, Arriving, Rivals
  <2>10. Vacant(r, g, t, k)
    BY <1>0 DEF Vacant
  <2>11. Succeeds(r, g, t, k)
    BY <1>0 DEF Timed, Unrivalled, Released, Succeeds, Arriving, Waits, Open,
         Belongs, Armed
  <2>12. Missed(r, g, t, k)
    BY <1>0 DEF Timed, Tasked, Fresh, Apart, Missed, Arriving, Waits, Open, Belongs,
         Armed
  <2>13. Outlasted(r, g, t, k)
    BY <1>0 DEF Timed, Tasked, Fresh, Outlasted, Arriving, Waits, Open, Belongs,
         Armed, ProbeLeft, Steady
  <2> QED BY <2>1, <2>2, <2>3, <2>4, <2>5, <2>6, <2>7, <2>8, <2>9, <2>10, <2>11, <2>12, <2>13
<1>4. Pair(n, m, t, k, r, g)
  <2>1. Holding(t) => ~Holding(r)
    BY <1>0 DEF Unrivalled, Waits, Open
  <2>2. Unrivalled(t, k, r, g)
    BY <1>0 DEF Unrivalled, Waits, Open
  <2>3. Warned(t, k, r, g)
    BY <1>0 DEF Timed, Unrivalled, Warned, Waits, Open, Belongs, Armed, Steady
  <2>4. Apart(n, m, t, k, r, g)
    BY <1>0 DEF Apart, Arriving, Rivals
  <2>5. Contested(n, m, t, k, r, g)
    BY <1>0 DEF Timed, Contested, Arriving, Waits, Open, Belongs, Armed, Rivals
  <2>6. Elected(t, k, r)
    BY <1>0 DEF Timed, Elected, Belongs, Armed, Steady
  <2>7. Followed(t, r, g)
    BY <1>0 DEF Followed, Steady
  <2>8. Released(t, k, r, g)
    BY <1>0 DEF Unrivalled, Released, Arriving, Waits, Open, Steady
  <2>9. Spoken(n, m, t, k, r, g)
    BY <1>0 DEF Spoken, Arriving, Rivals
  <2>10. Vacant(t, k, r, g)
    BY <1>0 DEF Vacant
  <2>11. Succeeds(t, k, r, g)
    BY <1>0 DEF Timed, Released, Succeeds, Arriving, Waits, Open, Belongs, Armed
  <2>12. Missed(t, k, r, g)
    BY <1>0 DEF Missed, Arriving, Waits, Open
  <2>13. Outlasted(t, k, r, g)
    BY <1>0 DEF Timed, Apart, Contested, Outlasted, Arriving, Waits, Open, Belongs,
         Armed, ProbeLeft, Steady, Rivals
  <2> QED BY <2>1, <2>2, <2>3, <2>4, <2>5, <2>6, <2>7, <2>8, <2>9, <2>10, <2>11, <2>12, <2>13
<1> QED BY <1>1, <1>2, <1>3, <1>4

(* A node is told to leave its election.                                     *)
LEMMA LeaveMove ==
  ASSUME NEW m \in Node, NEW n \in Node, NEW s, NEW h, NEW t, NEW k, NEW b, NEW g,
         NEW r,
         Scene(m, n, s, h, t, k, b), Steady, s.role # "stopped",
         Parting(h, g),
         Mark(r, s.role, s.heard, s.claimed, s.task.op, s.task.left),
         Dials(r, s.timer["probe"], s.timer["election"], s.timer["settle"],
           s.timer["handoff"], s.timer["heartbeat"], Off)
  PROVE  Both(m, n, r, g, t, k, TRUE, b)
<1> USE DEF Parting
<1>1. Own(r, g, TRUE)
  <2>1. Timed(r, g)
    BY DEF Timed, Belongs, Armed, Steady
  <2>2. Tasked(r)
    BY DEF Tasked, Steady
  <2>3. Watched(r, g, TRUE)
    BY DEF Tasked, Watched, Steady
  <2>4. Fresh(r, g)
    BY DEF Tasked, Fresh
  <2>5. "withdrawn" \in g =>
          /\ r.timer["watchdog"] = Off
          /\ "stop" \in g \/ r.task.op = "stop" \/ r.role = "stopped"
    OBVIOUS
  <2> QED BY <2>1, <2>2, <2>3, <2>4, <2>5
<1>2. Own(t, k, b)
  OBVIOUS
<1>3. Pair(m, n, r, g, t, k)
  <2>1. Holding(r) => ~Holding(t)
    OBVIOUS
  <2>2. Unrivalled(r, g, t, k)
    BY DEF Unrivalled, Waits, Open
  <2>3. Warned(r, g, t, k)
    BY DEF Warned, Waits, Open, Steady
  <2>4. Apart(m, n, r, g, t, k)
    BY DEF Apart, Arriving, Rivals
  <2>5. Contested(m, n, r, g, t, k)
    BY DEF Contested, Arriving, Waits, Open, Rivals
  <2>6. Elected(r, g, t)
    BY DEF Elected, Steady
  <2>7. Followed(r, t, k)
    BY DEF Followed, Steady
  <2>8. Released(r, g, t, k)
    BY DEF Released, Arriving, Waits, Open, Steady
  <2>9. Spoken(m, n, r, g, t, k)
    BY DEF Spoken, Arriving, Rivals
  <2>10. Vacant(r, g, t, k)
    BY DEF Vacant
  <2>11. Succeeds(r, g, t, k)
    BY DEF Succeeds, Arriving
  <2>12. Missed(r, g, t, k)
    BY DEF Missed, Arriving, Waits, Open
  <2>13. Outlasted(r, g, t, k)
    BY DEF Outlasted, Arriving, Waits, Open, ProbeLeft, Steady
  <2> QED BY <2>1, <2>2, <2>3, <2>4, <2>5, <2>6, <2>7, <2>8, <2>9, <2>10, <2>11, <2>12, <2>13
<1>4. Pair(n, m, t, k, r, g)
  <2>1. Holding(t) => ~Holding(r)
    OBVIOUS
  <2>2. Unrivalled(t, k, r, g)
    BY DEF Unrivalled, Waits, Open
  <2>3. Warned(t, k, r, g)
    BY DEF Warned, Waits, Open, Steady
  <2>4. Apart(n, m, t, k, r, g)
    BY DEF Apart, Arriving, Rivals
  <2>5. Contested(n, m, t, k, r, g)
    BY DEF Contested, Arriving, Waits, Open, Rivals
  <2>6. Elected(t, k, r)
    BY DEF Elected, Steady
  <2>7. Followed(t, r, g)
    BY DEF Followed, Steady
  <2>8. Released(t, k, r, g)
    BY DEF Released, Arriving, Waits, Open, Steady
  <2>9. Spoken(n, m, t, k, r, g)
    BY DEF Spoken, Arriving, Rivals
  <2>10. Vacant(t, k, r, g)
    BY DEF Vacant
  <2>11. Succeeds(t, k, r, g)
    BY DEF Succeeds, Arriving
  <2>12. Missed(t, k, r, g)
    BY DEF Missed, Arriving, Waits, Open
  <2>13. Outlasted(t, k, r, g)
    BY DEF Outlasted, Arriving, Waits, Open, ProbeLeft, Steady
  <2> QED BY <2>1, <2>2, <2>3, <2>4, <2>5, <2>6, <2>7, <2>8, <2>9, <2>10, <2>11, <2>12, <2>13
<1> QED BY <1>1, <1>2, <1>3, <1>4

(* A node that has been withdrawn gets no datagram any more.                 *)
LEMMA DropMove ==
  ASSUME NEW m \in Node, NEW n \in Node, NEW s, NEW h, NEW t, NEW k, NEW b, NEW g,
         Scene(m, n, s, h, t, k, b), Steady, Dropped(h, g)
  PROVE  Both(m, n, s, g, t, k, TRUE, b)
<1> USE DEF Dropped, Datagram
<1>1. Own(s, g, TRUE)
  <2>1. Timed(s, g)
    BY DEF Timed, Belongs, Armed, Steady
  <2>2. Tasked(s)
    BY DEF Tasked, Steady
  <2>3. Watched(s, g, TRUE)
    BY DEF Tasked, Watched, Steady
  <2>4. Fresh(s, g)
    BY DEF Tasked, Fresh
  <2>5. "withdrawn" \in g =>
          /\ s.timer["watchdog"] = Off
          /\ "stop" \in g \/ s.task.op = "stop" \/ s.role = "stopped"
    OBVIOUS
  <2> QED BY <2>1, <2>2, <2>3, <2>4, <2>5
<1>2. Own(t, k, b)
  OBVIOUS
<1>3. Pair(m, n, s, g, t, k)
  <2>1. Holding(s) => ~Holding(t)
    OBVIOUS
  <2>2. Unrivalled(s, g, t, k)
    BY DEF Unrivalled, Waits, Open
  <2>3. Warned(s, g, t, k)
    BY DEF Warned, Waits, Open, Steady
  <2>4. Apart(m, n, s, g, t, k)
    BY DEF Apart, Arriving, Rivals
  <2>5. Contested(m, n, s, g, t, k)
    BY DEF Contested, Arriving, Waits, Open, Rivals
  <2>6. Elected(s, g, t)
    BY DEF Elected, Steady
  <2>7. Followed(s, t, k)
    BY DEF Followed, Steady
  <2>8. Released(s, g, t, k)
    BY DEF Released, Arriving, Waits, Open, Steady
  <2>9. Spoken(m, n, s, g, t, k)
    BY DEF Spoken, Arriving, Rivals
  <2>10. Vacant(s, g, t, k)
    BY DEF Vacant
  <2>11. Succeeds(s, g, t, k)
    BY DEF Succeeds, Arriving
  <2>12. Missed(s, g, t, k)
    BY DEF Missed, Arriving, Waits, Open
  <2>13. Outlasted(s, g, t, k)
    BY DEF Outlasted, Arriving, Waits, Open, ProbeLeft, Steady
  <2> QED BY <2>1, <2>2, <2>3, <2>4, <2>5, <2>6, <2>7, <2>8, <2>9, <2>10, <2>11, <2>12, <2>13
<1>4. Pair(n, m, t, k, s, g)
  <2>1. Holding(t) => ~Holding(s)
    OBVIOUS
  <2>2. Unrivalled(t, k, s, g)
    BY DEF Unrivalled, Waits, Open
  <2>3. Warned(t, k, s, g)
    BY DEF Warned, Waits, Open, Steady
  <2>4. Apart(n, m, t, k, s, g)
    BY DEF Apart, Arriving, Rivals
  <2>5. Contested(n, m, t, k, s, g)
    BY DEF Contested, Arriving, Waits, Open, Rivals
  <2>6. Elected(t, k, s)
    BY DEF Elected, Steady
  <2>7. Followed(t, s, g)
    BY DEF Followed, Steady
  <2>8. Released(t, k, s, g)
    BY DEF Released, Arriving, Waits, Open, Steady
  <2>9. Spoken(n, m, t, k, s, g)
    BY DEF Spoken, Released, Succeeds, Missed, Watched, Steady, Arriving, Rivals
  <2>10. Vacant(t, k, s, g)
    BY DEF Vacant
  <2>11. Succeeds(t, k, s, g)
    BY DEF Succeeds, Arriving
  <2>12. Missed(t, k, s, g)
    BY DEF Missed, Arriving, Waits, Open
  <2>13. Outlasted(t, k, s, g)
    BY DEF Outlasted, Arriving, Waits, Open, ProbeLeft, Steady
  <2> QED BY <2>1, <2>2, <2>3, <2>4, <2>5, <2>6, <2>7, <2>8, <2>9, <2>10, <2>11, <2>12, <2>13
<1> QED BY <1>1, <1>2, <1>3, <1>4

(* A node starts, while the other does not take over.                        *)
LEMMA BootMove ==
  ASSUME NEW m \in Node, NEW n \in Node, NEW s, NEW h, NEW t, NEW k, NEW b, NEW g,
         NEW r,
         Rivals(m, n), Counted(s), Counted(t), b \in BOOLEAN,
         Both(m, n, s, h, t, k, FALSE, b), Steady,
         t.role \in {"stopped", "standby", "master"}, t.task.op = "none",
         k \subseteq Datagram \cup {"withdrawn"}, \A y : y \in g <=> y = "boot",
         Mark(r, "stopped", Never, FALSE, "none", 0),
         Dials(r, Off, Off, Off, Off, Off, WatchdogPeriod)
  PROVE  Both(m, n, r, g, t, k, TRUE, b)
<1>0. /\ "boot" \notin k /\ "timeout" \notin k /\ "probe" \notin k /\ "election" \notin k
      /\ "settle" \notin k /\ "handoff" \notin k /\ "heartbeat" \notin k
  BY DEF Datagram
<1>1. Own(r, g, TRUE)
  <2>1. Timed(r, g)
    BY <1>0 DEF Timed, Belongs, Armed, Steady
  <2>2. Tasked(r)
    BY <1>0 DEF Tasked, Steady
  <2>3. Watched(r, g, TRUE)
    BY <1>0 DEF Tasked, Watched, Steady
  <2>4. Fresh(r, g)
    BY <1>0 DEF Tasked, Fresh
  <2>5. "withdrawn" \in g =>
          /\ r.timer["watchdog"] = Off
          /\ "stop" \in g \/ r.task.op = "stop" \/ r.role = "stopped"
    BY <1>0
  <2> QED BY <2>1, <2>2, <2>3, <2>4, <2>5
<1>2. Own(t, k, b)
  OBVIOUS
<1>3. Pair(m, n, r, g, t, k)
  <2>1. Holding(r) => ~Holding(t)
    BY <1>0
  <2>2. Unrivalled(r, g, t, k)
    BY <1>0 DEF Unrivalled, Waits, Open
  <2>3. Warned(r, g, t, k)
    BY <1>0 DEF Warned, Waits, Open, Steady
  <2>4. Apart(m, n, r, g, t, k)
    BY <1>0 DEF Apart, Arriving, Rivals
  <2>5. Contested(m, n, r, g, t, k)
    BY <1>0 DEF Contested, Arriving, Waits, Open, Rivals
  <2>6. Elected(r, g, t)
    BY <1>0 DEF Elected, Steady
  <2>7. Followed(r, t, k)
    BY <1>0 DEF Followed, Steady
  <2>8. Released(r, g, t, k)
    BY <1>0 DEF Gone, Released, Arriving, Waits, Open, Steady
  <2>9. Spoken(m, n, r, g, t, k)
    BY <1>0 DEF Gone, Spoken, Arriving, Rivals
  <2>10. Vacant(r, g, t, k)
    BY <1>0 DEF Vacant
  <2>11. Succeeds(r, g, t, k)
    BY <1>0 DEF Succeeds, Arriving
  <2>12. Missed(r, g, t, k)
    BY <1>0 DEF Missed, Arriving, Waits, Open
  <2>13. Outlasted(r, g, t, k)
    BY <1>0 DEF Gone, Outlasted, Arriving, Waits, Open, ProbeLeft, Steady
  <2> QED BY <2>1, <2>2, <2>3, <2>4, <2>5, <2>6, <2>7, <2>8, <2>9, <2>10, <2>11, <2>12, <2>13
<1>4. Pair(n, m, t, k, r, g)
  <2>1. Holding(t) => ~Holding(r)
    BY <1>0
  <2>2. Unrivalled(t, k, r, g)
    BY <1>0 DEF Unrivalled, Waits, Open
  <2>3. Warned(t, k, r, g)
    BY <1>0 DEF Warned, Waits, Open, Steady
  <2>4. Apart(n, m, t, k, r, g)
    BY <1>0 DEF Apart, Arriving, Rivals
  <2>5. Contested(n, m, t, k, r, g)
    BY <1>0 DEF Contested, Arriving, Waits, Open, Rivals
  <2>6. Elected(t, k, r)
    BY <1>0 DEF Elected, Steady
  <2>7. Followed(t, r, g)
    BY <1>0 DEF Followed, Steady
  <2>8. Released(t, k, r, g)
    BY <1>0 DEF Gone, Released, Arriving, Waits, Open, Steady
  <2>9. Spoken(n, m, t, k, r, g)
    BY <1>0 DEF Gone, Spoken, Arriving, Rivals
  <2>10. Vacant(t, k, r, g)
    BY <1>0 DEF Vacant
  <2>11. Succeeds(t, k, r, g)
    BY <1>0 DEF Succeeds, Arriving
  <2>12. Missed(t, k, r, g)
    BY <1>0 DEF Missed, Arriving, Waits, Open
  <2>13. Outlasted(t, k, r, g)
    BY <1>0 DEF Outlasted, Arriving, Waits, Open, ProbeLeft, Steady
  <2> QED BY <2>1, <2>2, <2>3, <2>4, <2>5, <2>6, <2>7, <2>8, <2>9, <2>10, <2>11, <2>12, <2>13
<1> QED BY <1>1, <1>2, <1>3, <1>4

(* A node that has left its election is gone.                                *)
LEMMA ExitMove ==
  ASSUME NEW m \in Node, NEW n \in Node, NEW s, NEW h, NEW t, NEW k, NEW b, NEW r,
         Scene(m, n, s, h, t, k, b), Steady, s.role = "stopped", s.task.op = "none",
         h \subseteq Datagram \cup {"withdrawn"}, Mark(r, "stopped", Never, FALSE, "none", 0),
         Dials(r, Off, Off, Off, Off, Off, Off)
  PROVE  Both(m, n, r, {}, t, k, FALSE, b)
<1>1. Own(r, {}, FALSE)
  <2>1. Timed(r, {})
    BY DEF Timed, Belongs, Armed, Steady
  <2>2. Tasked(r)
    BY DEF Tasked, Steady
  <2>3. Watched(r, {}, FALSE)
    BY DEF Tasked, Watched, Steady
  <2>4. Fresh(r, {})
    BY DEF Tasked, Fresh
  <2>5. ~FALSE => Gone(r, {})
    BY DEF Gone
  <2>6. "withdrawn" \in {} =>
          /\ r.timer["watchdog"] = Off
          /\ "stop" \in {} \/ r.task.op = "stop" \/ r.role = "stopped"
    OBVIOUS
  <2> QED BY <2>1, <2>2, <2>3, <2>4, <2>5, <2>6
<1>2. Own(t, k, b)
  OBVIOUS
<1>3. Pair(m, n, r, {}, t, k)
  <2>1. Holding(r) => ~Holding(t)
    OBVIOUS
  <2>2. Unrivalled(r, {}, t, k)
    BY DEF Unrivalled, Waits, Open
  <2>3. Warned(r, {}, t, k)
    BY DEF Warned, Waits, Open, Steady
  <2>4. Apart(m, n, r, {}, t, k)
    BY DEF Apart, Arriving, Rivals
  <2>5. Contested(m, n, r, {}, t, k)
    BY DEF Contested, Arriving, Waits, Open, Rivals
  <2>6. Elected(r, {}, t)
    BY DEF Elected, Steady
  <2>7. Followed(r, t, k)
    BY DEF Followed, Steady
  <2>8. Released(r, {}, t, k)
    BY DEF Released, Arriving, Waits, Open, Steady
  <2>9. Spoken(m, n, r, {}, t, k)
    BY DEF Spoken, Arriving, Rivals
  <2>10. Vacant(r, {}, t, k)
    BY DEF Vacant
  <2>11. Succeeds(r, {}, t, k)
    BY DEF Succeeds, Arriving
  <2>12. Missed(r, {}, t, k)
    BY DEF Missed, Arriving, Waits, Open
  <2>13. Outlasted(r, {}, t, k)
    BY DEF Outlasted, Arriving, Waits, Open, ProbeLeft, Steady
  <2> QED BY <2>1, <2>2, <2>3, <2>4, <2>5, <2>6, <2>7, <2>8, <2>9, <2>10, <2>11, <2>12, <2>13
<1>4. Pair(n, m, t, k, r, {})
  <2>1. Holding(t) => ~Holding(r)
    OBVIOUS
  <2>2. Unrivalled(t, k, r, {})
    BY DEF Unrivalled, Waits, Open
  <2>3. Warned(t, k, r, {})
    BY DEF Warned, Waits, Open, Steady
  <2>4. Apart(n, m, t, k, r, {})
    BY DEF Apart, Arriving, Rivals
  <2>5. Contested(n, m, t, k, r, {})
    BY DEF Contested, Arriving, Waits, Open, Rivals
  <2>6. Elected(t, k, r)
    BY DEF Elected, Steady
  <2>7. Followed(t, r, {})
    BY DEF Followed, Steady
  <2>8. Released(t, k, r, {})
    BY DEF Released, Arriving, Waits, Open, Steady
  <2>9. Spoken(n, m, t, k, r, {})
    BY DEF Spoken, Arriving, Rivals
  <2>10. Vacant(t, k, r, {})
    BY DEF Vacant
  <2>11. Succeeds(t, k, r, {})
    BY DEF Succeeds, Arriving
  <2>12. Missed(t, k, r, {})
    BY DEF Missed, Arriving, Waits, Open
  <2>13. Outlasted(t, k, r, {})
    BY DEF Outlasted, Arriving, Waits, Open, ProbeLeft, Steady
  <2> QED BY <2>1, <2>2, <2>3, <2>4, <2>5, <2>6, <2>7, <2>8, <2>9, <2>10, <2>11, <2>12, <2>13
<1> QED BY <1>1, <1>2, <1>3, <1>4

(* What is counted down, unless it is Off or zero.                           *)
Down(x, y) == y \in Int /\ (x <= 0 => y = x) /\ (x > 0 => y = x - 1)

(* A tick: nothing is due, what is counted is counted down, and the watchdog *)
(* of a standby finds out that the holder has not been heard for too long.   *)
Ticked(s, h, r, g, a) ==
    /\ Counted(s) /\ a \in BOOLEAN
    /\ r.role = s.role /\ r.claimed = s.claimed /\ r.task.op = s.task.op
    /\ Down(s.task.left, r.task.left)
    /\ Down(s.timer["probe"], r.timer["probe"]) /\ Down(s.timer["election"], r.timer["election"])
    /\ Down(s.timer["settle"], r.timer["settle"]) /\ Down(s.timer["handoff"], r.timer["handoff"])
    /\ Down(s.timer["heartbeat"], r.timer["heartbeat"])
    /\ s.timer["watchdog"] = 1 => r.timer["watchdog"] = WatchdogPeriod
    /\ s.timer["watchdog"] # 1 => Down(s.timer["watchdog"], r.timer["watchdog"])
    /\ a /\ s.heard # Never /\ s.heard # MasterTimeout => r.heard = s.heard + 1
    /\ ~a \/ s.heard = Never \/ s.heard = MasterTimeout => r.heard = s.heard
    /\ a => /\ s.timer["probe"] # 0 /\ s.timer["election"] # 0 /\ s.timer["settle"] # 0
            /\ s.timer["handoff"] # 0 /\ s.timer["heartbeat"] # 0
            /\ s.task.op = "none" => h \subseteq {"withdrawn"}
            /\ s.task.op # "none" => s.task.left > 0
    /\ \A y : y # "timeout" => (y \in g <=> y \in h)
    /\ "timeout" \in h => "timeout" \in g
    /\ "timeout" \in g => \/ "timeout" \in h
                          \/ /\ s.timer["watchdog"] = 1 /\ a
                             /\ s.role = "standby" /\ r.heard >= MasterTimeout

(* A tick of both nodes keeps what holds of one of them alone.               *)
LEMMA TickOwn ==
  ASSUME NEW s, NEW h, NEW r, NEW g, NEW a,
         Ticked(s, h, r, g, a), Steady, Own(s, h, a)
  PROVE  Own(r, g, a)
<1> USE DEF Ticked, Down
<1>1. Timed(r, g)
  <2>1. CASE a
    BY <2>1 DEF Timed, Tasked, Gone, Belongs, Armed, Steady
  <2>2. CASE ~a
    BY <2>2 DEF Timed, Tasked, Gone, Belongs, Armed, Steady, Watched
  <2> QED BY <2>1, <2>2
<1>2. Tasked(r)
  <2>1. CASE a
    BY <2>1 DEF Tasked, Steady
  <2>2. CASE ~a
    BY <2>2 DEF Tasked, Steady, Gone, Watched, Timed, Belongs, Armed
  <2> QED BY <2>1, <2>2
<1>3. Watched(r, g, a)
  <2>1. CASE a
    BY <2>1 DEF Tasked, Watched, Gone, Steady
  <2>2. CASE ~a
    BY <2>2 DEF Tasked, Watched, Gone, Steady, Timed, Belongs, Armed
  <2> QED BY <2>1, <2>2
<1>4. Fresh(r, g)
  <2>1. CASE a
    BY <2>1 DEF Tasked, Fresh
  <2>2. CASE ~a
    BY <2>2 DEF Tasked, Fresh, Gone, Watched, Timed, Belongs, Armed
  <2> QED BY <2>1, <2>2
<1>5. ~a => Gone(r, g)
  <2>1. CASE a
    BY <2>1 DEF Gone
  <2>2. CASE ~a
    BY <2>2 DEF Gone, Watched, Timed, Belongs, Armed
  <2> QED BY <2>1, <2>2
<1> QED BY <1>1, <1>2, <1>3, <1>4, <1>5

(* A tick of both nodes keeps what holds of the two together.                *)
LEMMA TickPair ==
  ASSUME NEW m \in Node, NEW n \in Node, NEW s, NEW h, NEW t, NEW k, NEW a, NEW b,
         NEW r, NEW g, NEW u, NEW l,
         Rivals(m, n), Both(m, n, s, h, t, k, a, b), Steady, Ticked(s, h, r, g, a),
         Ticked(t, k, u, l, b)
  PROVE  Pair(m, n, r, g, u, l)
<1> USE DEF Ticked, Down
<1>1. Holding(r) => ~Holding(u)
  OBVIOUS
<1>2. Unrivalled(r, g, u, l)
  <2>1. CASE a /\ b
    BY <2>1 DEF Timed, Tasked, Gone, Unrivalled, Warned, Apart, Contested,
           Arriving, Waits, Open, Belongs, Armed, Rivals
  <2>2. CASE ~a
    BY <2>2 DEF Timed, Tasked, Gone, Unrivalled, Warned, Apart, Contested,
           Arriving, Waits, Open, Belongs, Armed, Rivals, Watched
  <2>3. CASE ~b
    BY <2>3 DEF Timed, Tasked, Gone, Unrivalled, Warned, Apart, Contested,
           Arriving, Waits, Open, Belongs, Armed, Rivals, Watched
  <2> QED BY <2>1, <2>2, <2>3
<1>3. Warned(r, g, u, l)
  <2>1. CASE a /\ b
    BY <2>1 DEF Tasked, Gone, Warned, Waits, Open, Steady
  <2>2. CASE ~a
    BY <2>2 DEF Tasked, Gone, Warned, Waits, Open, Steady, Watched, Timed,
           Belongs, Armed
  <2>3. CASE ~b
    BY <2>3 DEF Tasked, Gone, Warned, Waits, Open, Steady, Watched, Timed,
           Belongs, Armed
  <2> QED BY <2>1, <2>2, <2>3
<1>4. Apart(m, n, r, g, u, l)
  <2>1. CASE a /\ b
    BY <2>1 DEF Tasked, Gone, Apart, Arriving, Rivals
  <2>2. CASE ~a
    BY <2>2 DEF Tasked, Gone, Apart, Arriving, Rivals, Watched, Timed,
           Belongs, Armed
  <2>3. CASE ~b
    BY <2>3 DEF Tasked, Gone, Apart, Arriving, Rivals, Watched, Timed,
           Belongs, Armed
  <2> QED BY <2>1, <2>2, <2>3
<1>5. Contested(m, n, r, g, u, l)
  <2>1. CASE a /\ b
    BY <2>1 DEF Timed, Tasked, Fresh, Gone, Contested, Arriving, Waits, Open,
           Belongs, Armed, Rivals
  <2>2. CASE ~a
    BY <2>2 DEF Timed, Tasked, Fresh, Gone, Contested, Arriving, Waits, Open,
           Belongs, Armed, Rivals, Watched
  <2>3. CASE ~b
    BY <2>3 DEF Timed, Tasked, Fresh, Gone, Contested, Arriving, Waits, Open,
           Belongs, Armed, Rivals, Watched
  <2> QED BY <2>1, <2>2, <2>3
<1>6. Elected(r, g, u)
  <2>1. CASE a /\ b
    BY <2>1 DEF Timed, Tasked, Gone, Elected, Belongs, Armed, Steady
  <2>2. CASE ~a
    BY <2>2 DEF Timed, Tasked, Gone, Elected, Belongs, Armed, Steady,
           Watched
  <2>3. CASE ~b
    BY <2>3 DEF Timed, Tasked, Gone, Elected, Belongs, Armed, Steady,
           Watched
  <2> QED BY <2>1, <2>2, <2>3
<1>7. Followed(r, u, l)
  <2>1. CASE a /\ b
    BY <2>1 DEF Timed, Tasked, Gone, Followed, Belongs, Armed, Steady
  <2>2. CASE ~a
    BY <2>2 DEF Timed, Tasked, Gone, Followed, Belongs, Armed, Steady,
           Watched
  <2>3. CASE ~b
    BY <2>3 DEF Timed, Tasked, Gone, Followed, Belongs, Armed, Steady,
           Watched
  <2> QED BY <2>1, <2>2, <2>3
<1>8. Released(r, g, u, l)
  <2>1. CASE a /\ b
    BY <2>1 DEF Tasked, Gone, Released, Arriving, Waits, Open, Steady
  <2>2. CASE ~a
    BY <2>2 DEF Tasked, Gone, Released, Arriving, Waits, Open, Steady,
           Watched, Timed, Belongs, Armed
  <2>3. CASE ~b
    BY <2>3 DEF Tasked, Gone, Released, Arriving, Waits, Open, Steady,
           Watched, Timed, Belongs, Armed
  <2> QED BY <2>1, <2>2, <2>3
<1>9. Spoken(m, n, r, g, u, l)
  <2>1. CASE a /\ b
    BY <2>1 DEF Tasked, Spoken, Arriving, Rivals
  <2>2. CASE ~a
    BY <2>2 DEF Spoken, Arriving, Rivals, Gone, Watched, Timed, Belongs,
           Armed
  <2>3. CASE ~b
    BY <2>3 DEF Spoken, Arriving, Rivals, Gone, Watched, Timed, Belongs,
           Armed
  <2> QED BY <2>1, <2>2, <2>3
<1>10. Vacant(r, g, u, l)
  <2>1. CASE a /\ b
    BY <2>1 DEF Vacant
  <2>2. CASE ~a
    BY <2>2 DEF Vacant, Gone, Watched, Timed, Belongs, Armed
  <2>3. CASE ~b
    BY <2>3 DEF Vacant, Gone, Watched, Timed, Belongs, Armed
  <2> QED BY <2>1, <2>2, <2>3
<1>11. Succeeds(r, g, u, l)
  <2>1. CASE a /\ b
    BY <2>1 DEF Tasked, Gone, Released, Succeeds, Arriving, Waits, Open
  <2>2. CASE ~a
    BY <2>2 DEF Tasked, Gone, Released, Succeeds, Arriving, Waits, Open,
           Watched, Timed, Belongs, Armed
  <2>3. CASE ~b
    BY <2>3 DEF Tasked, Gone, Released, Succeeds, Arriving, Waits, Open,
           Watched, Timed, Belongs, Armed
  <2> QED BY <2>1, <2>2, <2>3
<1>12. Missed(r, g, u, l)
  <2>1. CASE a /\ b
    BY <2>1 DEF Timed, Tasked, Watched, Gone, Apart, Elected, Followed,
           Vacant, Missed, Outlasted, Arriving, Waits, Open, Belongs, Armed,
           ProbeLeft, Steady
  <2>2. CASE ~a
    BY <2>2 DEF Timed, Tasked, Watched, Gone, Apart, Elected, Followed,
           Vacant, Missed, Outlasted, Arriving, Waits, Open, Belongs, Armed,
           ProbeLeft, Steady
  <2>3. CASE ~b
    BY <2>3 DEF Timed, Tasked, Watched, Gone, Apart, Elected, Followed,
           Vacant, Missed, Outlasted, Arriving, Waits, Open, Belongs, Armed,
           ProbeLeft, Steady
  <2> QED BY <2>1, <2>2, <2>3
<1>13. Outlasted(r, g, u, l)
  <2>1. CASE a /\ b
    BY <2>1 DEF Timed, Tasked, Fresh, Outlasted, Arriving, Waits, Open,
           Belongs, Armed, ProbeLeft, Steady
  <2>2. CASE ~a
    BY <2>2 DEF Timed, Tasked, Fresh, Outlasted, Arriving, Waits, Open,
           Belongs, Armed, ProbeLeft, Steady, Gone, Watched
  <2>3. CASE ~b
    BY <2>3 DEF Timed, Tasked, Fresh, Outlasted, Arriving, Waits, Open,
           Belongs, Armed, ProbeLeft, Steady, Gone, Watched
  <2> QED BY <2>1, <2>2, <2>3
<1> QED BY <1>1, <1>2, <1>3, <1>4, <1>5, <1>6, <1>7, <1>8, <1>9, <1>10, <1>11, <1>12, <1>13

HIDE DEF Both, Own, Pair, Scene, Counted, Turn, Told, Mark, Dials, Quiet, Holding, Bidding,
         Unheard, Word, Off, Never
-----------------------------------------------------------------------------
(* What the handlers leave behind, as far as the other node can tell.        *)

(* No timer has changed.                                                     *)
Unmoved(r, s) ==
    Dials(r, s.timer["probe"], s.timer["election"], s.timer["settle"], s.timer["handoff"],
          s.timer["heartbeat"], s.timer["watchdog"])

(* r knows of the other node no less than s does.                            *)
Faces(s, r) == \A n \in Node : \A p : Facing(n, s, p) => Facing(n, r, p)

(* An election whose queue runs an item, and that has said nothing yet.      *)
Running(s) == s \in Election /\ s.out = <<>> /\ s.task.op = "none"

(* What the handlers write down of an election before they act.              *)
HeardFrom(s, m) ==
    [s EXCEPT !.heard = 0, !.heardAt = "recent",
              !.holder = IF s.role = "master" THEN @ ELSE m]
Vacated(s) == [s EXCEPT !.holder = NoNode]
Ordered(s, f) == [s EXCEPT !.handoff = f]

(* TypeOK says what is counted.                                              *)
LEMMA TimersAreCounted ==
  ASSUME NEW s \in Election
  PROVE  Counted(s)
<1>1. \A t \in Timer : s.timer[t] \in Int /\ s.timer[t] >= Off
  BY DEF Election, Off
<1>2. s.heard \in Int /\ s.heard >= Never
  BY DEF Election, Never
<1>3. s.task \in Task
  BY DEF Election
<1> QED BY <1>1, <1>2, <1>3 DEF Counted, Timer, Task

USE DEF Mark, Dials, Quiet, Unmoved, Running, Faces, Facing

(* What is said first is all that is said.                                   *)
LEMMA SaidFirst == \A d \in Datagram : Append(<<>>, d) = <<d>>
OBVIOUS

(* broadcast: one datagram, and nothing else changes.                        *)
LEMMA SendView ==
  ASSUME NEW s, NEW d \in Datagram, NEW r,
         Running(s), r = Send(s, d)
  PROVE  /\ Mark(r, s.role, s.heard, s.claimed, "none", s.task.left) /\ Unmoved(r, s)
         /\ r.out = <<d>> /\ Faces(s, r)
BY DEF Send, Election

(* beginProbe.                                                               *)
LEMMA ProbeView ==
  ASSUME NEW s, NEW r,
         Running(s), r = BeginProbe(s)
  PROVE  /\ Mark(r, "probing", s.heard, s.claimed, "none", s.task.left)
         /\ Dials(r, BootProbe, Off, Off, Off, s.timer["heartbeat"], s.timer["watchdog"])
         /\ r.out = <<"PROBE">> /\ Faces(s, r)
<1> DEFINE p == [ClearElectionTimers(s) EXCEPT !.role = "probing", !.target = NoNode]
<1>1. /\ r.role = "probing" /\ r.heard = s.heard /\ r.claimed = s.claimed /\ r.task = s.task
      /\ r.target = NoNode /\ r.holder = s.holder /\ r.slept = s.slept
      /\ r.running = s.running /\ r.queue = s.queue /\ r.out = Append(s.out, "PROBE")
  BY DEF BeginProbe, Arm, Send, ClearElectionTimers, Disarm, Election
<1>2. /\ r.timer["probe"] = BootProbe /\ r.timer["election"] = Off
      /\ r.timer["settle"] = Off /\ r.timer["handoff"] = Off
      /\ r.timer["heartbeat"] = s.timer["heartbeat"]
      /\ r.timer["watchdog"] = s.timer["watchdog"]
  BY DEF BeginProbe, Arm, Send, ClearElectionTimers, Disarm, ElectionTimers, Timer, Election
<1>9. r.out = <<"PROBE">>
  BY <1>1, SaidFirst DEF Datagram
<1> QED BY <1>1, <1>9, <1>2, NodeAssumption

(* beginElection.                                                            *)
LEMMA ElectView ==
  ASSUME NEW s, NEW f, NEW e, NEW r,
         Running(s), r = BeginElection(s, f, e)
  PROVE  /\ Mark(r, "electing", s.heard, FALSE, "none", s.task.left)
         /\ Dials(r, Off, e, Off, Off, s.timer["heartbeat"], s.timer["watchdog"])
         /\ r.out = <<>> /\ Faces(s, r)
<1>1. /\ r.role = "electing" /\ r.heard = s.heard /\ r.claimed = FALSE /\ r.task = s.task
      /\ r.target = s.target /\ r.holder = s.holder /\ r.slept = s.slept
      /\ r.running = s.running /\ r.queue = s.queue /\ r.out = <<>>
  BY DEF BeginElection, Arm, ClearElectionTimers, Disarm, Election
<1>2. /\ r.timer["probe"] = Off /\ r.timer["election"] = e
      /\ r.timer["settle"] = Off /\ r.timer["handoff"] = Off
      /\ r.timer["heartbeat"] = s.timer["heartbeat"]
      /\ r.timer["watchdog"] = s.timer["watchdog"]
  BY DEF BeginElection, Arm, ClearElectionTimers, Disarm, ElectionTimers, Timer, Election
<1> QED BY <1>1, <1>2

(* becomeStandby, field by field.                                            *)
LEMMA StandbyFields ==
  ASSUME NEW s \in Election, NEW m, NEW r,
         r = BecomeStandby(s, m)
  PROVE  /\ r.role = "standby" /\ r.heard = (IF s.heard = Never THEN 0 ELSE s.heard)
         /\ r.claimed = s.claimed /\ r.task = s.task
         /\ r.target = NoNode /\ r.holder = (IF m = NoNode THEN s.holder ELSE m)
         /\ r.slept = s.slept
         /\ r.running = s.running /\ r.queue = s.queue /\ r.out = s.out
         /\ Quiet(r, s)
<1>1. /\ r.role = "standby" /\ r.heard = (IF s.heard = Never THEN 0 ELSE s.heard)
      /\ r.claimed = s.claimed /\ r.task = s.task
      /\ r.target = NoNode /\ r.holder = (IF m = NoNode THEN s.holder ELSE m)
      /\ r.slept = s.slept
      /\ r.running = s.running /\ r.queue = s.queue /\ r.out = s.out
  BY DEF BecomeStandby, Arm, ClearElectionTimers, Disarm, Election
<1>2. Quiet(r, s)
  BY DEF BecomeStandby, Arm, ClearElectionTimers, Disarm, ElectionTimers, Timer, Election
<1> QED BY <1>1, <1>2

(* What stop leaves of an election without a consumer, field by field.       *)
LEMMA StoppedFields ==
  ASSUME NEW s \in Election, NEW r,
         r = Continue(s, NoNode, "stopped")
  PROVE  /\ r.role = "stopped" /\ r.heard = s.heard /\ r.claimed = s.claimed
         /\ r.task = s.task
         /\ r.target = s.target /\ r.holder = s.holder /\ r.slept = s.slept
         /\ r.running = s.running /\ r.queue = s.queue /\ r.out = s.out
         /\ Dials(r, Off, Off, Off, Off, Off, s.timer["watchdog"])
<1>1. r = Disarm([s EXCEPT !.role = "stopped"], Timer \ {"watchdog"})
  BY DEF Continue
<1>2. /\ r.role = "stopped" /\ r.heard = s.heard /\ r.claimed = s.claimed
      /\ r.task = s.task
      /\ r.target = s.target /\ r.holder = s.holder /\ r.slept = s.slept
      /\ r.running = s.running /\ r.queue = s.queue /\ r.out = s.out
  BY <1>1 DEF Disarm, Election
<1>3. \A t \in Timer : r.timer[t] = IF t = "watchdog" THEN s.timer[t] ELSE Off
  <2> DEFINE u == [s EXCEPT !.role = "stopped"]
  <2>1. u.timer = s.timer /\ r = Disarm(u, Timer \ {"watchdog"})
    BY <1>1 DEF Election
  <2>2. r.timer = [t \in Timer |-> IF t \in Timer \ {"watchdog"} THEN Off ELSE u.timer[t]]
    BY <2>1 DEF Disarm, Election
  <2> HIDE DEF u
  <2> QED BY <2>1, <2>2
<1> QED BY <1>2, <1>3 DEF Timer

(* becomeStandby, of an election whose queue runs.                           *)
LEMMA StandbyView ==
  ASSUME NEW s, NEW m, NEW r,
         Running(s), r = BecomeStandby(s, m)
  PROVE  /\ Mark(r, "standby", IF s.heard = Never THEN 0 ELSE s.heard, s.claimed, "none",
                 s.task.left)
         /\ Quiet(r, s) /\ r.out = <<>> /\ r.slept = s.slept /\ r.target = NoNode
         /\ r.holder = (IF m = NoNode THEN s.holder ELSE m)
         /\ r.task = s.task /\ r.queue = s.queue /\ r.running = s.running
BY StandbyFields

(* becomeStandby, when the holder it learns of is not the node itself.       *)
LEMMA StandbyFaces ==
  ASSUME NEW s, NEW m \in Node \cup {NoNode}, NEW n \in Node, NEW p, NEW r,
         Running(s), n # m, Facing(n, s, p), r = BecomeStandby(s, m)
  PROVE  /\ Mark(r, "standby", IF s.heard = Never THEN 0 ELSE s.heard, s.claimed, "none",
                 s.task.left)
         /\ Quiet(r, s) /\ r.out = <<>> /\ Facing(n, r, p)
BY StandbyView, NodeAssumption

(* becomeMaster, of a node that can serve the surface.                       *)
LEMMA MasterView ==
  ASSUME NEW s, NEW f, NEW r,
         Running(s), MaxStart = 0, r = BecomeMaster(s, TRUE, f)
  PROVE  /\ Mark(r, "master", s.heard, s.claimed, "start", 0) /\ Quiet(r, s)
         /\ r.out = <<"CLAIM">> /\ Faces(s, r)
<1>1. /\ r.role = "master" /\ r.heard = s.heard /\ r.claimed = s.claimed
      /\ r.task.op = "start" /\ r.task.left = 0
      /\ r.task.next = NoNode /\ r.task.then = "standby"
      /\ r.target = NoNode /\ r.holder = s.holder /\ r.slept = s.slept
      /\ r.running = s.running /\ r.queue = s.queue /\ r.out = Append(s.out, "CLAIM")
  BY DEF BecomeMaster, Send, ClearElectionTimers, Disarm, NoTask, Election
<1>2. /\ r.timer["probe"] = Off /\ r.timer["election"] = Off
      /\ r.timer["settle"] = Off /\ r.timer["handoff"] = Off
      /\ r.timer["heartbeat"] = s.timer["heartbeat"]
      /\ r.timer["watchdog"] = s.timer["watchdog"]
  BY DEF BecomeMaster, Send, ClearElectionTimers, Disarm, ElectionTimers, Timer, Election
<1>9. r.out = <<"CLAIM">>
  BY <1>1, SaidFirst DEF Datagram
<1>3. ASSUME NEW n \in Node, NEW p, Facing(n, s, p) PROVE Facing(n, r, p)
  <2>1. NoNode # n
    BY NodeAssumption
  <2> QED BY <1>1, <1>2, <1>3, <2>1
<1> QED BY <1>1, <1>9, <1>2, <1>3

(* beginPreemption.                                                          *)
LEMMA PreemptView ==
  ASSUME NEW s, NEW m \in Node, NEW r,
         Running(s), r = BeginPreemption(s, m)
  PROVE  /\ Mark(r, "awaiting-handoff", s.heard, s.claimed, "none", s.task.left)
         /\ Dials(r, Off, Off, Off, PreemptGrace, s.timer["heartbeat"], s.timer["watchdog"])
         /\ r.out = <<"CLAIM">>
         /\ \A n \in Node \ {m} : \A p : Facing(n, s, p) => Facing(n, r, p)
<1>1. /\ r.role = "awaiting-handoff" /\ r.heard = s.heard /\ r.claimed = s.claimed
      /\ r.task = s.task
      /\ r.target = m /\ r.holder = s.holder /\ r.slept = s.slept
      /\ r.running = s.running /\ r.queue = s.queue /\ r.out = Append(s.out, "CLAIM")
  BY DEF BeginPreemption, Arm, Send, ClearElectionTimers, Disarm, Election
<1>2. /\ r.timer["probe"] = Off /\ r.timer["election"] = Off
      /\ r.timer["settle"] = Off /\ r.timer["handoff"] = PreemptGrace
      /\ r.timer["heartbeat"] = s.timer["heartbeat"]
      /\ r.timer["watchdog"] = s.timer["watchdog"]
  BY DEF BeginPreemption, Arm, Send, ClearElectionTimers, Disarm, ElectionTimers, Timer,
     Election
<1>9. r.out = <<"CLAIM">>
  BY <1>1, SaidFirst DEF Datagram
<1> QED BY <1>1, <1>9, <1>2, NodeAssumption

(* stopConsumerThenResign, up to its await.                                  *)
LEMMA StopView ==
  ASSUME NEW s, NEW m \in Node \cup {NoNode}, NEW c \in {"standby", "stopped"}, NEW r,
         Running(s), s.running, r = StopConsumerThenResign(s, m, c)
  PROVE  /\ Mark(r, "resigning", s.heard, s.claimed, "stop", MaxStop)
         /\ Dials(r, s.timer["probe"], s.timer["election"], s.timer["settle"],
                  s.timer["handoff"], Off, s.timer["watchdog"])
         /\ r.out = <<>>
         /\ \A n \in Node \ {m} : \A p :
               Facing(n, s, p) /\ (c = "standby" \/ s.timer["watchdog"] = Off)
                  => Facing(n, r, p)
<1>1. /\ r.role = "resigning" /\ r.heard = s.heard /\ r.claimed = s.claimed
      /\ r.task.op = "stop" /\ r.task.left = MaxStop /\ r.task.next = m /\ r.task.then = c
      /\ r.target = s.target /\ r.holder = s.holder /\ r.slept = s.slept
      /\ r.running = s.running /\ r.queue = s.queue /\ r.out = <<>>
  BY DEF StopConsumerThenResign, Disarm, Election
<1>2. /\ r.timer["probe"] = s.timer["probe"] /\ r.timer["election"] = s.timer["election"]
      /\ r.timer["settle"] = s.timer["settle"] /\ r.timer["handoff"] = s.timer["handoff"]
      /\ r.timer["heartbeat"] = Off /\ r.timer["watchdog"] = s.timer["watchdog"]
  BY DEF StopConsumerThenResign, Disarm, Timer, Election
<1> QED BY <1>1, <1>2

(* stop, of an election without a consumer.                                  *)
LEMMA QuitView ==
  ASSUME NEW s, NEW r,
         Running(s), s.timer["watchdog"] = Off, r = Continue(s, NoNode, "stopped")
  PROVE  /\ Mark(r, "stopped", s.heard, s.claimed, "none", s.task.left)
         /\ Dials(r, Off, Off, Off, Off, Off, Off)
         /\ r.out = <<>> /\ Faces(s, r)
BY StoppedFields

(* sendClaim.                                                                *)
LEMMA ClaimView ==
  ASSUME NEW s, NEW r,
         Running(s), r = SendClaim(s)
  PROVE  /\ Mark(r, s.role, s.heard, TRUE, "none", s.task.left) /\ Unmoved(r, s)
         /\ r.out = <<"CLAIM">> /\ Faces(s, r)
<1>1. /\ r.role = s.role /\ r.heard = s.heard /\ r.claimed = TRUE /\ r.task = s.task
      /\ r.target = s.target /\ r.holder = s.holder /\ r.slept = s.slept /\ r.timer = s.timer
      /\ r.running = s.running /\ r.queue = s.queue /\ r.out = Append(s.out, "CLAIM")
  BY DEF SendClaim, Send, Election
<1>2. r.out = <<"CLAIM">>
  BY <1>1, SaidFirst DEF Datagram
<1> QED BY <1>1, <1>2

(* The claim of an election that has waited its window out.                  *)
LEMMA SettleView ==
  ASSUME NEW s, NEW f, NEW r,
         Running(s), s.role = "electing",
         r = Arm(SendClaim(Ordered(s, f)), "settle", ClaimSettle)
  PROVE  /\ Mark(r, "electing", s.heard, TRUE, "none", s.task.left)
         /\ Dials(r, s.timer["probe"], s.timer["election"], ClaimSettle,
                  s.timer["handoff"], s.timer["heartbeat"], s.timer["watchdog"])
         /\ r.out = <<"CLAIM">> /\ Faces(s, r)
<1>1. /\ r.role = "electing" /\ r.heard = s.heard /\ r.claimed = TRUE /\ r.task = s.task
      /\ r.target = s.target /\ r.holder = s.holder /\ r.slept = s.slept
      /\ r.running = s.running /\ r.queue = s.queue /\ r.out = Append(s.out, "CLAIM")
  BY DEF Arm, SendClaim, Send, Ordered, Election
<1>2. r.timer = [s.timer EXCEPT !["settle"] = ClaimSettle]
  BY DEF Arm, SendClaim, Send, Ordered, Election
<1>3. /\ r.timer["probe"] = s.timer["probe"] /\ r.timer["election"] = s.timer["election"]
      /\ r.timer["settle"] = ClaimSettle /\ r.timer["handoff"] = s.timer["handoff"]
      /\ r.timer["heartbeat"] = s.timer["heartbeat"]
      /\ r.timer["watchdog"] = s.timer["watchdog"]
  BY <1>2 DEF Timer, Election
<1>9. r.out = <<"CLAIM">>
  BY <1>1, SaidFirst DEF Datagram
<1> QED BY <1>1, <1>9, <1>3

(* Arming the timer of a holder, of a candidate or of a yield.               *)
LEMMA ArmView ==
  ASSUME NEW s \in Election, NEW x \in {"heartbeat", "candidacy", "yield"}, NEW e, NEW r,
         s.task.op = "none", r = Arm(s, x, e)
  PROVE  /\ Mark(r, s.role, s.heard, s.claimed, "none", s.task.left)
         /\ Dials(r, s.timer["probe"], s.timer["election"], s.timer["settle"],
                  s.timer["handoff"], IF x = "heartbeat" THEN e ELSE s.timer["heartbeat"],
                  s.timer["watchdog"])
         /\ r.out = s.out /\ Faces(s, r)
<1>1. /\ r.role = s.role /\ r.heard = s.heard /\ r.claimed = s.claimed /\ r.task = s.task
      /\ r.target = s.target /\ r.holder = s.holder /\ r.slept = s.slept
      /\ r.running = s.running /\ r.queue = s.queue /\ r.out = s.out
  BY DEF Arm, Election
<1>2. r.timer = [s.timer EXCEPT ![x] = e]
  BY DEF Arm, Election
<1>3. /\ r.timer["probe"] = s.timer["probe"] /\ r.timer["election"] = s.timer["election"]
      /\ r.timer["settle"] = s.timer["settle"] /\ r.timer["handoff"] = s.timer["handoff"]
      /\ r.timer["heartbeat"] = (IF x = "heartbeat" THEN e ELSE s.timer["heartbeat"])
      /\ r.timer["watchdog"] = s.timer["watchdog"]
  BY <1>2 DEF Timer, Election
<1> QED BY <1>1, <1>3

(* A datagram is said and a timer armed again.                               *)
LEMMA SayArmView ==
  ASSUME NEW s, NEW d \in Datagram, NEW x \in {"heartbeat", "candidacy"}, NEW e, NEW r,
         Running(s), r = Arm(Send(s, d), x, e)
  PROVE  /\ Mark(r, s.role, s.heard, s.claimed, "none", s.task.left)
         /\ Dials(r, s.timer["probe"], s.timer["election"], s.timer["settle"],
                  s.timer["handoff"], IF x = "heartbeat" THEN e ELSE s.timer["heartbeat"],
                  s.timer["watchdog"])
         /\ r.out = <<d>> /\ Faces(s, r)
<1> DEFINE u == Send(s, d)
<1>1. /\ Mark(u, s.role, s.heard, s.claimed, "none", s.task.left) /\ Unmoved(u, s)
      /\ u.out = <<d>> /\ Faces(s, u)
  BY SendView
<1>2. u \in Election /\ r = Arm(u, x, e) /\ u.task.op = "none"
  BY <1>1, SendType
<1> HIDE DEF u
<1>3. /\ Mark(r, u.role, u.heard, u.claimed, "none", u.task.left)
      /\ Dials(r, u.timer["probe"], u.timer["election"], u.timer["settle"],
               u.timer["handoff"], IF x = "heartbeat" THEN e ELSE u.timer["heartbeat"],
               u.timer["watchdog"])
      /\ r.out = u.out /\ Faces(u, r)
  <2> HIDE DEF Mark, Dials, Faces, Facing
  <2> QED BY <1>2, ArmView
<1>4. Faces(s, r)
  <2> HIDE DEF Facing
  <2> QED BY <1>1, <1>3
<1> QED BY <1>1, <1>3, <1>4

(* Nobody holds the surface any more.                                        *)
LEMMA VacatedView ==
  ASSUME NEW s, NEW u, Running(s), u = Vacated(s)
  PROVE  /\ Mark(u, s.role, s.heard, s.claimed, "none", s.task.left) /\ Unmoved(u, s)
         /\ Running(u) /\ Faces(s, u)
<1>1. /\ u.role = s.role /\ u.heard = s.heard /\ u.claimed = s.claimed /\ u.task = s.task
      /\ u.target = s.target /\ u.holder = NoNode
      /\ u.slept = s.slept /\ u.timer = s.timer
      /\ u.running = s.running /\ u.queue = s.queue /\ u.out = <<>>
  BY DEF Vacated, Election
<1>2. u \in Election
  BY DEF Vacated, Election
<1> QED BY <1>1, <1>2, NodeAssumption

(* The holder is heard.                                                      *)
LEMMA HeardView ==
  ASSUME NEW s, NEW m \in Node, NEW u,
         Running(s),
         u = HeardFrom(s, m)
  PROVE  /\ Mark(u, s.role, 0, s.claimed, "none", s.task.left) /\ Unmoved(u, s)
         /\ Running(u) /\ u.running = s.running
         /\ \A n \in Node \ {m} : \A p : Facing(n, s, p) => Facing(n, u, p)
<1>1. /\ u.role = s.role /\ u.heard = 0 /\ u.claimed = s.claimed /\ u.task = s.task
      /\ u.target = s.target /\ u.holder = (IF s.role = "master" THEN s.holder ELSE m)
      /\ u.slept = s.slept /\ u.timer = s.timer
      /\ u.running = s.running /\ u.queue = s.queue /\ u.out = <<>>
  BY DEF HeardFrom, Election
<1>2. u \in Election
  BY DEF HeardFrom, Election, HeardAt
<1> QED BY <1>1, <1>2

(* What follows the start of the consumer: the first heartbeat.              *)
LEMMA StartedView ==
  ASSUME NEW s \in Election, NEW b, NEW r,
         s.out = <<>>, s.task.op = "start", r = ConsumerStarted(s, b)
  PROVE  /\ Mark(r, s.role, s.heard, s.claimed, "none", 0)
         /\ Dials(r, s.timer["probe"], s.timer["election"], s.timer["settle"],
                  s.timer["handoff"], HeartbeatPeriod, s.timer["watchdog"])
         /\ r.out = <<"HEARTBEAT">> /\ Faces(s, r)
<1>1. /\ r.role = s.role /\ r.heard = s.heard /\ r.claimed = s.claimed /\ r.task = NoTask
      /\ r.target = s.target /\ r.holder = s.holder /\ r.slept = s.slept
      /\ r.running = TRUE /\ r.queue = s.queue /\ r.out = Append(s.out, "HEARTBEAT")
      /\ r.timer = [[s.timer EXCEPT !["heartbeat"] = HeartbeatPeriod]
                        EXCEPT !["yield"] = YieldPeriod]
  BY DEF ConsumerStarted, Arm, Send, Election
<1>2. /\ r.timer["probe"] = s.timer["probe"] /\ r.timer["election"] = s.timer["election"]
      /\ r.timer["settle"] = s.timer["settle"] /\ r.timer["handoff"] = s.timer["handoff"]
      /\ r.timer["heartbeat"] = HeartbeatPeriod
      /\ r.timer["watchdog"] = s.timer["watchdog"]
  BY <1>1 DEF Timer, Election
<1>3. r.out = <<"HEARTBEAT">>
  BY <1>1, SaidFirst DEF Datagram
<1> QED BY <1>1, <1>2, <1>3, NodeAssumption DEF NoTask

(* The consumer has stopped, and what comes then is done.                    *)
Resigned(s, r) == r = Resign(s, s.task.next, s.task.then, "off")

(* What follows the stop of the consumer: RESIGN, and a role without         *)
(* tenure.                                                                   *)
LEMMA ResignView ==
  ASSUME NEW s \in Election, NEW n \in Node, NEW p, NEW r,
         s.out = <<>>, s.task.op = "stop", Facing(n, s, p),
         Resigned(s, r)
  PROVE  /\ \/ /\ Mark(r, "standby", 0, s.claimed, "none", 0) /\ Quiet(r, s)
               /\ s.task.then = "standby"
            \/ /\ Mark(r, "stopped", 0, s.claimed, "none", 0)
               /\ s.timer["watchdog"] = Off /\ Dials(r, Off, Off, Off, Off, Off, Off)
         /\ r.out = <<"RESIGN">> /\ Facing(n, r, p)
<1> DEFINE u == Send([s EXCEPT !.running = FALSE, !.gate = "off", !.task = NoTask,
                              !.holder = s.task.next, !.heard = 0, !.heardAt = "recent"],
                     "RESIGN")
<1>1. /\ u.role = s.role /\ u.heard = 0 /\ u.claimed = s.claimed /\ u.task = NoTask
      /\ u.target = s.target /\ u.holder = s.task.next /\ u.slept = s.slept
      /\ u.running = FALSE /\ u.queue = s.queue /\ u.out = Append(s.out, "RESIGN")
      /\ u.timer = s.timer
  BY DEF Send, Election
<1>2. u \in Election
  <2>1. s.task.next \in Node \cup {NoNode}
    BY DEF Election, Task
  <2>2. Append(s.out, "RESIGN") \in Seq(Datagram)
    BY DEF Election, Datagram
  <2> QED BY <2>1, <2>2, NoTaskType DEF Send, Election, Gate, HeardAt
<1>3. r = Continue(u, s.task.next, s.task.then)
  BY DEF Resign, Resigned
<1>4. u.out = <<"RESIGN">>
  BY <1>1, SaidFirst DEF Datagram
<1>5. s.task.next # n /\ s.task.then \in {"standby", "stopped"}
  OBVIOUS
<1> HIDE DEF u
<1>6. CASE s.task.then = "standby"
  <2>1. r = BecomeStandby(u, s.task.next)
    BY <1>3, <1>6 DEF Continue
  <2>2. /\ r.role = "standby" /\ r.heard = 0 /\ r.claimed = s.claimed /\ r.task = NoTask
        /\ r.target = NoNode /\ r.holder = s.task.next /\ r.slept = s.slept
        /\ r.queue = s.queue /\ r.out = u.out
    BY <1>1, <1>2, <2>1, StandbyFields DEF Never
  <2>3. Quiet(r, s)
    BY <1>1, <1>2, <2>1, StandbyFields
  <2>4. Mark(r, "standby", 0, s.claimed, "none", 0)
    BY <2>2 DEF NoTask
  <2>5. r.task.op = "none" /\ r.task.then = "standby" /\ r.task.next = NoNode
    BY <2>2 DEF NoTask
  <2>6. r.timer["watchdog"] = s.timer["watchdog"]
    BY <2>3
  <2>7. Facing(n, r, p)
    BY <1>5, <2>2, <2>5, <2>6, NodeAssumption
  <2> QED BY <1>4, <1>6, <2>2, <2>3, <2>4, <2>7
<1>7. CASE s.task.then = "stopped"
  <2>1. r = Continue(u, NoNode, "stopped")
    BY <1>3, <1>7 DEF Continue
  <2>2. /\ r.role = "stopped" /\ r.heard = 0 /\ r.claimed = s.claimed /\ r.task = NoTask
        /\ r.target = s.target /\ r.holder = s.task.next /\ r.slept = s.slept
        /\ r.queue = s.queue /\ r.out = u.out
    BY <1>1, <1>2, <2>1, StoppedFields
  <2>3. s.timer["watchdog"] = Off /\ Dials(r, Off, Off, Off, Off, Off, Off)
    BY <1>1, <1>2, <1>7, <2>1, StoppedFields
  <2>4. Mark(r, "stopped", 0, s.claimed, "none", 0)
    BY <2>2 DEF NoTask
  <2>5. Facing(n, r, p)
    BY <1>5, <2>2, <2>3, NodeAssumption DEF NoTask
  <2> QED BY <1>4, <2>2, <2>3, <2>4, <2>5
<1> QED BY <1>5, <1>6, <1>7

(* A tick of a node that has not slept.                                      *)
LEMMA ElapseView ==
  ASSUME NEW s \in Election, NEW r,
         s.slept = 0, r = Elapse(s)
  PROVE  /\ r.role = s.role /\ r.claimed = s.claimed /\ r.task.op = s.task.op
         /\ r.task.next = s.task.next /\ r.task.then = s.task.then
         /\ r.task.left = CountDown(s.task.left)
         /\ \A t \in Timer \ {"watchdog"} : r.timer[t] = CountDown(s.timer[t])
         /\ r.timer["watchdog"] = IF CountDown(s.timer["watchdog"]) = 0 THEN WatchdogPeriod
                                  ELSE CountDown(s.timer["watchdog"])
         /\ r.heard = IF s.heard \in {Never, MasterTimeout} THEN s.heard ELSE s.heard + 1
         /\ r.target = s.target /\ r.holder = s.holder /\ r.slept = s.slept
         /\ r.running = s.running /\ r.out = s.out
         /\ \/ r.queue = s.queue
            \/ /\ r.queue = Append(s.queue, Signalled("timeout"))
               /\ CountDown(s.timer["watchdog"]) = 0
               /\ s.role = "standby" /\ r.heard >= MasterTimeout
<1> DEFINE e == [s EXCEPT !.timer = [t \in Timer |-> CountDown(@[t])],
                          !.heard = IF @ \in {Never, MasterTimeout} THEN @ ELSE @ + 1,
                          !.task.left = CountDown(@)]
           w == [Arm(e, "watchdog", WatchdogPeriod) EXCEPT !.slept = 0]
<1>1. s.task \in Task
  BY DEF Election
<1>2. /\ e.role = s.role /\ e.claimed = s.claimed /\ e.task.op = s.task.op
      /\ e.task.next = s.task.next /\ e.task.then = s.task.then
      /\ e.task.left = CountDown(s.task.left)
      /\ e.timer = [t \in Timer |-> CountDown(s.timer[t])]
      /\ e.heard = IF s.heard \in {Never, MasterTimeout} THEN s.heard ELSE s.heard + 1
      /\ e.target = s.target /\ e.holder = s.holder /\ e.slept = s.slept
      /\ e.running = s.running /\ e.queue = s.queue /\ e.out = s.out
  BY <1>1 DEF Election, Task
<1>3. /\ w.role = s.role /\ w.claimed = s.claimed /\ w.task = e.task
      /\ w.timer = [e.timer EXCEPT !["watchdog"] = WatchdogPeriod]
      /\ w.heard = e.heard
      /\ w.target = s.target /\ w.holder = s.holder /\ w.slept = s.slept
      /\ w.running = s.running /\ w.queue = s.queue /\ w.out = s.out
      /\ \A i : /\ Enqueue(w, i) = [w EXCEPT !.queue = Append(w.queue, i)]
               /\ DOMAIN w = DOMAIN s
  BY DEF Election, Arm, Enqueue
<1>4. \A i : /\ Enqueue(w, i).role = s.role /\ Enqueue(w, i).claimed = s.claimed
            /\ Enqueue(w, i).task = e.task /\ Enqueue(w, i).timer = w.timer
            /\ Enqueue(w, i).heard = e.heard /\ Enqueue(w, i).target = s.target
            /\ Enqueue(w, i).holder = s.holder /\ Enqueue(w, i).slept = s.slept
            /\ Enqueue(w, i).running = s.running /\ Enqueue(w, i).out = s.out
            /\ Enqueue(w, i).queue = Append(s.queue, i)
  BY <1>3 DEF Election, Enqueue, Arm
<1>5. SuspendThreshold \in Int /\ SuspendThreshold >= 1
  BY TimingAssumption DEF SuspendThreshold, AtLeastATick
<1>6. Watchdog(e) = IF e.role = "standby" /\ e.heard >= MasterTimeout
                    THEN Enqueue(w, Signalled("timeout")) ELSE w
  <2>1. ~(e.slept >= SuspendThreshold)
    BY <1>2, <1>5
  <2>2. Watchdog(e) = IF e.slept >= SuspendThreshold
                      THEN IF e.role = "stopped" THEN w ELSE Enqueue(w, Signalled("wake"))
                      ELSE IF e.role = "standby" /\ e.heard >= MasterTimeout
                           THEN Enqueue(w, Signalled("timeout")) ELSE w
    BY DEF Watchdog
  <2> HIDE DEF e, w
  <2> QED BY <2>1, <2>2
<1>7. Elapse(s) = IF e.timer["watchdog"] = 0 THEN Watchdog(e) ELSE e
  BY DEF Elapse
<1> HIDE DEF e, w
<1>8. e.timer["watchdog"] = CountDown(s.timer["watchdog"])
  BY <1>2 DEF Timer
<1>9. /\ \A t \in Timer \ {"watchdog"} : w.timer[t] = CountDown(s.timer[t])
      /\ w.timer["watchdog"] = WatchdogPeriod
  BY <1>2, <1>3 DEF Timer
<1>10. CASE e.timer["watchdog"] # 0
  BY <1>2, <1>7, <1>8, <1>10
<1>11. CASE e.timer["watchdog"] = 0 /\ ~(e.role = "standby" /\ e.heard >= MasterTimeout)
  BY <1>2, <1>3, <1>6, <1>7, <1>8, <1>9, <1>11
<1>12. CASE e.timer["watchdog"] = 0 /\ e.role = "standby" /\ e.heard >= MasterTimeout
  BY <1>2, <1>4, <1>6, <1>7, <1>8, <1>9, <1>12
<1> QED BY <1>10, <1>11, <1>12

HIDE DEF Mark, Dials, Quiet, Unmoved, Running, Faces, Facing

-----------------------------------------------------------------------------
(* What running one item does to the agreement of the two nodes.             *)

(* Node m goes on as r, with g ahead, and says one datagram at most.         *)
Goes(m, n, r, g, t, k, b) ==
    \/ r.out = <<>> /\ Both(m, n, r, g, t, k, TRUE, b)
    \/ \E d \in Datagram : \E l :
          /\ r.out = <<d>> /\ Told(d, k, l, b) /\ Both(m, n, r, g, t, l, TRUE, b)
          /\ d \in Word => "RESIGN" \notin k

(* Node m runs an item of kind i, in the power state p.                      *)
Acts(m, n, s, h, t, k, b, i, g, p) ==
    /\ Scene(m, n, s, h, t, k, b) /\ Steady /\ Turn(s, h, i, g)
    /\ Running(s) /\ Facing(m, s, p)

(* A handler that says nothing leaves the other node as it was.              *)
LEMMA SaysNothing ==
  ASSUME NEW m, NEW n, NEW r, NEW g, NEW t, NEW k, NEW b,
         r.out = <<>>, Both(m, n, r, g, t, k, TRUE, b)
  PROVE  Goes(m, n, r, g, t, k, b)
BY DEF Goes

(* A handler that says one thing: the other node hears it if it runs.        *)
LEMMA SaysOne ==
  ASSUME NEW m, NEW n, NEW r, NEW g, NEW t, NEW k, NEW b, NEW d \in Datagram,
         r.out = <<d>>,
         \A l : Told(d, k, l, b) =>
           Both(m, n, r, g, t, l, TRUE, b) /\ (d \in Word => "RESIGN" \notin k)
  PROVE  Goes(m, n, r, g, t, k, b)
<1> DEFINE l == IF b THEN k \cup {d} ELSE k
<1>1. Told(d, k, l, b)
  BY DEF Told
<1> HIDE DEF l
<1>2. r.out = <<d>> /\ Told(d, k, l, b) /\ Both(m, n, r, g, t, l, TRUE, b)
  BY <1>1
<1> QED BY <1>1, <1>2 DEF Goes

(* A handler that does nothing.                                              *)
LEMMA Unchanged ==
  ASSUME NEW s,
         Running(s)
  PROVE  /\ Mark(s, s.role, s.heard, s.claimed, "none", s.task.left)
         /\ Dials(s, s.timer["probe"], s.timer["election"], s.timer["settle"],
                  s.timer["handoff"], s.timer["heartbeat"], s.timer["watchdog"])
         /\ s.out = <<>> /\ s.role \in Role
BY DEF Mark, Dials, Running, Election

(* A bid succeeds; that of a node that was withdrawn meanwhile ends in       *)
(* standby.                                                                  *)
LEMMA BidGoes ==
  ASSUME NEW m \in Node, NEW n \in Node, NEW s, NEW h, NEW t, NEW k, NEW b, NEW g,
         NEW p, NEW i, NEW f, NEW serves \in BOOLEAN, NEW r,
         r = BecomeMaster(s, serves, f),
         Acts(m, n, s, h, t, k, b, i, g, p),
         \/ i = "probe" /\ s.role = "probing"
         \/ i = "settle" /\ s.role = "electing"
         \/ i \in {"handoff", "RESIGN"} /\ s.role = "awaiting-handoff",
         serves \/ "withdrawn" \in h, MaxStart = 0
  PROVE  Goes(m, n, r, g, t, k, b) /\ Facing(m, r, p)
<1> USE DEF Acts
<1>1. CASE serves
  <2>1. serves = TRUE /\ "CLAIM" \in Datagram
    BY <1>1 DEF Datagram
  <2>2. /\ Mark(r, "master", s.heard, s.claimed, "start", 0) /\ Quiet(r, s)
        /\ r.out = <<"CLAIM">> /\ Faces(s, r)
    BY <2>1, MasterView
  <2>3. ASSUME NEW l, Told("CLAIM", k, l, b)
        PROVE  Both(m, n, r, g, t, l, TRUE, b) /\ "RESIGN" \notin k
    BY <2>2, <2>3, MasterMove
  <2> QED BY <2>1, <2>2, <2>3, SaysOne DEF Faces
<1>2. CASE ~serves
  <2>1. r = BecomeStandby(s, NoNode) /\ m # NoNode
    BY <1>2, NodeAssumption DEF BecomeMaster
  <2>2. /\ Mark(r, "standby", IF s.heard = Never THEN 0 ELSE s.heard, s.claimed, "none",
                s.task.left)
        /\ Quiet(r, s) /\ r.out = <<>> /\ Facing(m, r, p)
    BY <2>1, StandbyFaces
  <2>3. Both(m, n, r, g, t, k, TRUE, b)
    BY <1>2, <2>2, StandbyMove
  <2> QED BY <2>2, <2>3, SaysNothing
<1> QED BY <1>1, <1>2

(* A PROBE is answered by the holder.                                        *)
LEMMA ProbeGoes ==
  ASSUME NEW m \in Node, NEW n \in Node, NEW s, NEW h, NEW t, NEW k, NEW b, NEW g,
         NEW p, NEW r,
         Acts(m, n, s, h, t, k, b, "PROBE", g, p), r = OnProbe(s)
  PROVE  Goes(m, n, r, g, t, k, b) /\ Facing(m, r, p)
<1> USE DEF Acts
<1>1. CASE s.role = "master"
  <2>1. r = Send(s, "HEARTBEAT") /\ "HEARTBEAT" \in Datagram
    BY <1>1 DEF OnProbe, Datagram
  <2>2. /\ Mark(r, "master", s.heard, s.claimed, "none", s.task.left) /\ Unmoved(r, s)
        /\ r.out = <<"HEARTBEAT">> /\ Faces(s, r)
    BY <1>1, <2>1, SendView
  <2>3. ASSUME NEW l, Told("HEARTBEAT", k, l, b)
        PROVE  Both(m, n, r, g, t, l, TRUE, b) /\ "RESIGN" \notin k
    BY <1>1, <2>2, <2>3, BeatMove DEF Unmoved
  <2> QED BY <2>1, <2>2, <2>3, SaysOne DEF Faces
<1>2. CASE s.role # "master"
  <2>1. r = s
    BY <1>2 DEF OnProbe
  <2>2. Both(m, n, s, g, t, k, TRUE, b)
    BY <1>2, Unchanged, SkipMove DEF Word
  <2> QED BY <2>1, <2>2, Unchanged, SaysNothing
<1> QED BY <1>1, <1>2

(* The holder is heard: a bid ends or turns into a preemption, and of two    *)
(* holders the worse hands over.                                             *)
LEMMA HeartbeatGoes ==
  ASSUME NEW m \in Node, NEW n \in Node, NEW s, NEW h, NEW t, NEW k, NEW b, NEW g,
         NEW p, NEW r,
         Acts(m, n, s, h, t, k, b, "HEARTBEAT", g, p),
         s.role \notin {"stopped", "resigning"}, r = OnHeartbeat(m, s, n)
  PROVE  Goes(m, n, r, g, t, k, b) /\ Facing(m, r, p)
<1> USE DEF Acts
<1> DEFINE u == HeardFrom(s, n)
<1>5. r = CASE s.role = "probing" ->
               IF StrictlyNewer(m, n) THEN BeginPreemption(u, n) ELSE BecomeStandby(u, n)
          [] s.role = "electing" -> BecomeStandby(u, n)
          [] s.role = "awaiting-handoff" ->
               IF n # s.target /\ ~StrictlyNewer(m, n) THEN BecomeStandby(u, n) ELSE u
          [] s.role = "master" -> ReconcileWithPeerHolder(m, u, n)
          [] OTHER -> u
  BY DEF OnHeartbeat, HeardFrom
<1> HIDE DEF u
<1>1. /\ Mark(u, s.role, 0, s.claimed, "none", s.task.left) /\ Unmoved(u, s)
      /\ Running(u) /\ u.running = s.running
      /\ \A l \in Node \ {n} : \A q : Facing(l, s, q) => Facing(l, u, q)
  BY HeardView DEF u
<1>2. m # n /\ n # NoNode
  BY NodeAssumption DEF Scene, Rivals
<1>3. Facing(m, u, p)
  BY <1>1, <1>2
<1>4. s.role \in Role
  BY DEF Running, Election
<1>6. CASE s.role = "probing" /\ StrictlyNewer(m, n)
  <2>1. r = BeginPreemption(u, n) /\ "CLAIM" \in Datagram
    BY <1>5, <1>6 DEF Datagram
  <2>2. /\ Mark(r, "awaiting-handoff", u.heard, u.claimed, "none", u.task.left)
        /\ Dials(r, Off, Off, Off, PreemptGrace, u.timer["heartbeat"], u.timer["watchdog"])
        /\ r.out = <<"CLAIM">>
        /\ \A l \in Node \ {n} : \A q : Facing(l, u, q) => Facing(l, r, q)
    BY <1>1, <2>1, PreemptView
  <2>3. /\ Mark(r, "awaiting-handoff", 0, s.claimed, "none", s.task.left)
        /\ Dials(r, Off, Off, Off, PreemptGrace, s.timer["heartbeat"], s.timer["watchdog"])
    BY <1>1, <2>2 DEF Mark, Dials, Unmoved
  <2>4. ASSUME NEW l, Told("CLAIM", k, l, b)
        PROVE  Both(m, n, r, g, t, l, TRUE, b) /\ "RESIGN" \notin k
    BY <1>6, <2>3, <2>4, PreemptMove
  <2>5. Goes(m, n, r, g, t, k, b)
    BY <2>1, <2>2, <2>4, SaysOne
  <2> QED BY <1>2, <1>3, <2>2, <2>5
<1>7. CASE s.role = "electing" \/ (s.role = "probing" /\ ~StrictlyNewer(m, n))
  <2>1. r = BecomeStandby(u, n)
    BY <1>5, <1>7
  <2>2. /\ Mark(r, "standby", IF u.heard = Never THEN 0 ELSE u.heard, u.claimed, "none",
                u.task.left)
        /\ Quiet(r, u) /\ r.out = <<>> /\ Facing(m, r, p)
    BY <1>1, <1>2, <1>3, <2>1, StandbyFaces
  <2>3. Mark(r, "standby", 0, s.claimed, "none", s.task.left) /\ Quiet(r, s)
    BY <1>1, <2>2 DEF Mark, Dials, Unmoved, Quiet
  <2>4. Both(m, n, r, g, t, k, TRUE, b)
    BY <1>7, <2>3, StandbyMove
  <2> QED BY <2>2, <2>4, SaysNothing
<1>8. CASE s.role \in {"standby", "awaiting-handoff"}
  <2>1. s.role = "awaiting-handoff" => StrictlyNewer(m, n)
    BY DEF Scene, Both, Pair, Apart
  <2>2. r = u
    BY <1>5, <1>8, <2>1
  <2>3. u.out = <<>>
    BY <1>1 DEF Running
  <2>4. Both(m, n, u, g, t, k, TRUE, b)
    BY <1>1, <1>8, HearMove DEF Unmoved
  <2> QED BY <1>3, <2>2, <2>3, <2>4, SaysNothing
<1>9. CASE s.role = "master" /\ OutranksStably(n, m)
  <2>1. r = StopConsumerThenResign(u, n, "standby")
    BY <1>5, <1>9 DEF ReconcileWithPeerHolder
  <2>2. u.running
    BY <1>1, <1>9 DEF Facing, Running
  <2>3. /\ Mark(r, "resigning", u.heard, u.claimed, "stop", MaxStop)
        /\ Dials(r, u.timer["probe"], u.timer["election"], u.timer["settle"],
                 u.timer["handoff"], Off, u.timer["watchdog"])
        /\ r.out = <<>> /\ Facing(m, r, p)
    BY <1>1, <1>2, <1>3, <2>1, <2>2, StopView
  <2>4. /\ Mark(r, "resigning", 0, s.claimed, "stop", MaxStop)
        /\ Dials(r, s.timer["probe"], s.timer["election"], s.timer["settle"],
                 s.timer["handoff"], Off, s.timer["watchdog"])
    BY <1>1, <2>3 DEF Mark, Dials, Unmoved
  <2>5. Both(m, n, r, g, t, k, TRUE, b)
    BY <1>9, <2>4, StopMove
  <2> QED BY <2>3, <2>5, SaysNothing
<1>10. CASE s.role = "master" /\ ~OutranksStably(n, m)
  <2>1. r = Send(u, "HEARTBEAT") /\ "HEARTBEAT" \in Datagram
    BY <1>5, <1>10 DEF ReconcileWithPeerHolder, Datagram
  <2>2. /\ Mark(r, u.role, u.heard, u.claimed, "none", u.task.left) /\ Unmoved(r, u)
        /\ r.out = <<"HEARTBEAT">> /\ Faces(u, r)
    BY <1>1, <2>1, SendView
  <2>3. /\ Mark(r, "master", 0, s.claimed, "none", s.task.left)
        /\ Dials(r, s.timer["probe"], s.timer["election"], s.timer["settle"],
                 s.timer["handoff"], s.timer["heartbeat"], s.timer["watchdog"])
    BY <1>1, <1>10, <2>2 DEF Mark, Dials, Unmoved
  <2>4. ASSUME NEW l, Told("HEARTBEAT", k, l, b)
        PROVE  Both(m, n, r, g, t, l, TRUE, b) /\ "RESIGN" \notin k
    BY <1>10, <2>3, <2>4, BeatMove
  <2> QED BY <1>3, <2>1, <2>2, <2>4, SaysOne DEF Faces
<1> QED BY <1>4, <1>6, <1>7, <1>8, <1>9, <1>10 DEF Role

(* A claim is heard: the better of two bidders answers it, the worse gives   *)
(* up, and a holder hands over to a newer build only.                        *)
LEMMA ClaimGoes ==
  ASSUME NEW m \in Node, NEW n \in Node, NEW s, NEW h, NEW t, NEW k, NEW b, NEW g,
         NEW p, NEW r,
         Acts(m, n, s, h, t, k, b, "CLAIM", g, p),
         s.role \notin {"stopped", "resigning"}, r = OnClaim(m, s, n)
  PROVE  Goes(m, n, r, g, t, k, b) /\ Facing(m, r, p)
<1> USE DEF Acts
<1>1. m # n /\ n # NoNode
  BY NodeAssumption DEF Scene, Rivals
<1>2. s.role \in Role
  BY DEF Running, Election
<1>3. "CLAIM" \in Datagram /\ "HEARTBEAT" \in Datagram
  BY DEF Datagram
<1>4. CASE s.role = "master" /\ StrictlyNewer(n, m)
  <2>1. r = StopConsumerThenResign(s, n, "standby")
    BY <1>4 DEF OnClaim
  <2>2. s.running
    BY <1>4 DEF Facing, Running
  <2>3. /\ Mark(r, "resigning", s.heard, s.claimed, "stop", MaxStop)
        /\ Dials(r, s.timer["probe"], s.timer["election"], s.timer["settle"],
                 s.timer["handoff"], Off, s.timer["watchdog"])
        /\ r.out = <<>> /\ Facing(m, r, p)
    BY <1>1, <2>1, <2>2, StopView
  <2>4. Both(m, n, r, g, t, k, TRUE, b)
    BY <1>4, <2>3, StopMove
  <2> QED BY <2>3, <2>4, SaysNothing
<1>5. CASE s.role = "master" /\ ~StrictlyNewer(n, m)
  <2>1. r = Send(s, "HEARTBEAT")
    BY <1>5 DEF OnClaim
  <2>2. /\ Mark(r, "master", s.heard, s.claimed, "none", s.task.left) /\ Unmoved(r, s)
        /\ r.out = <<"HEARTBEAT">> /\ Faces(s, r)
    BY <1>3, <1>5, <2>1, SendView
  <2>3. ASSUME NEW l, Told("HEARTBEAT", k, l, b)
        PROVE  Both(m, n, r, g, t, l, TRUE, b) /\ "RESIGN" \notin k
    BY <1>5, <2>2, <2>3, BeatMove DEF Unmoved
  <2> QED BY <1>3, <2>2, <2>3, SaysOne DEF Faces
<1>6. CASE Bidding(s) /\ OutranksForSurface(m, n, m)
  <2>1. r = BecomeStandby(s, n)
    BY <1>6 DEF OnClaim, Bidding
  <2>2. /\ Mark(r, "standby", IF s.heard = Never THEN 0 ELSE s.heard, s.claimed, "none",
                s.task.left)
        /\ Quiet(r, s) /\ r.out = <<>> /\ Facing(m, r, p)
    BY <1>1, <2>1, StandbyFaces
  <2>3. Both(m, n, r, g, t, k, TRUE, b)
    BY <1>6, <2>2, StandbyMove
  <2> QED BY <2>2, <2>3, SaysNothing
<1>7. CASE \/ s.role = "standby"
           \/ /\ ~OutranksForSurface(m, n, m)
              /\ s.role = "awaiting-handoff" \/ (Bidding(s) /\ s.claimed)
  <2>1. r = s
    BY <1>7 DEF OnClaim, Bidding
  <2>2. Both(m, n, s, g, t, k, TRUE, b)
    <3>1. CASE s.role = "standby"
      BY <3>1, Unchanged, SkipMove
    <3>2. CASE s.role = "awaiting-handoff" /\ ~OutranksForSurface(m, n, m)
      BY <3>2, Unchanged, SkipMove
    <3>3. CASE Bidding(s) /\ s.claimed /\ ~OutranksForSurface(m, n, m)
      BY <3>3, Unchanged, SkipMove
    <3> QED BY <1>7, <3>1, <3>2, <3>3
  <2> QED BY <2>1, <2>2, Unchanged, SaysNothing
<1>8. CASE /\ s.role \in {"probing", "electing"} /\ ~s.claimed
           /\ ~OutranksForSurface(m, n, m)
  <2>1. r = SendClaim(s)
    BY <1>8 DEF OnClaim
  <2>2. /\ Mark(r, s.role, s.heard, TRUE, "none", s.task.left) /\ Unmoved(r, s)
        /\ r.out = <<"CLAIM">> /\ Faces(s, r)
    BY <2>1, ClaimView
  <2>3. ASSUME NEW l, Told("CLAIM", k, l, b)
        PROVE  Both(m, n, r, g, t, l, TRUE, b) /\ "RESIGN" \notin k
    BY <1>8, <2>2, <2>3, ClaimMove DEF Unmoved
  <2> QED BY <1>3, <2>2, <2>3, SaysOne DEF Faces
<1> QED BY <1>2, <1>4, <1>5, <1>6, <1>7, <1>8 DEF Role, Bidding

(* The surface is released: whoever awaited it takes it, and a standby stands*)
(* for election.                                                             *)
LEMMA ResignGoes ==
  ASSUME NEW m \in Node, NEW n \in Node, NEW s, NEW h, NEW t, NEW k, NEW b, NEW g,
         NEW p, NEW serves \in BOOLEAN, NEW r \in OnResign(s, serves, n),
         Acts(m, n, s, h, t, k, b, "RESIGN", g, p), serves \/ "withdrawn" \in h,
         s.role \notin {"stopped", "resigning"}, AtMostTwo, MaxStart = 0
  PROVE  Goes(m, n, r, g, t, k, b) /\ Facing(m, r, p)
<1> USE DEF Acts
<1>1. m # n
  BY DEF Scene, Rivals
<1>2. /\ s.role \in Role /\ s.target \in Node \cup {NoNode} /\ s.holder \in Node \cup {NoNode}
      /\ s.target # m /\ s.holder # m /\ (s.role = "awaiting-handoff" => s.target # NoNode)
  BY DEF Running, Election, Facing
<1>3. CASE s.role = "awaiting-handoff"
  <2>1. s.target = n
    BY <1>1, <1>2, <1>3 DEF AtMostTwo
  <2>2. r = BecomeMaster(s, serves, "ordered")
    BY <1>3, <2>1 DEF OnResign
  <2> QED BY <1>3, <2>2, BidGoes
<1>4. CASE s.role = "standby"
  <2>1. s.holder \in {NoNode, n}
    BY <1>1, <1>2 DEF AtMostTwo
  <2>2. PICK e \in 0..ElectionWindow : r = BeginElection(Vacated(s), "ordered", e)
    BY <1>4, <2>1 DEF OnResign, Elections, Vacated, Steady
  <2> DEFINE u == Vacated(s)
  <2>3. /\ Mark(u, s.role, s.heard, s.claimed, "none", s.task.left) /\ Unmoved(u, s)
        /\ Running(u) /\ Faces(s, u)
    BY VacatedView
  <2>4. r = BeginElection(u, "ordered", e)
    BY <2>2
  <2> HIDE DEF u
  <2>5. /\ Mark(r, "electing", u.heard, FALSE, "none", u.task.left)
        /\ Dials(r, Off, e, Off, Off, u.timer["heartbeat"], u.timer["watchdog"])
        /\ r.out = <<>> /\ Faces(u, r)
    BY <2>3, <2>4, ElectView
  <2>6. /\ Mark(r, "electing", s.heard, FALSE, "none", s.task.left)
        /\ Dials(r, Off, e, Off, Off, s.timer["heartbeat"], s.timer["watchdog"])
    BY <2>3, <2>5 DEF Mark, Dials, Unmoved
  <2>7. Both(m, n, r, g, t, k, TRUE, b)
    BY <1>4, <2>6, ElectMove
  <2> QED BY <2>3, <2>5, <2>7, SaysNothing DEF Faces
<1>5. CASE s.role \notin {"standby", "awaiting-handoff"}
  <2>1. r = s
    BY <1>5 DEF OnResign
  <2>2. Both(m, n, s, g, t, k, TRUE, b)
    BY <1>5, Unchanged, SkipMove
  <2> QED BY <2>1, <2>2, Unchanged, SaysNothing
<1> QED BY <1>3, <1>4, <1>5

(* A datagram of the other node is handled.                                  *)
LEMMA DispatchGoes ==
  ASSUME NEW m \in Node, NEW n \in Node, NEW s, NEW h, NEW t, NEW k, NEW b, NEW g,
         NEW p, NEW i, NEW serves \in BOOLEAN, NEW r \in Dispatch(m, s, serves, i),
         Acts(m, n, s, h, t, k, b, i.kind, g, p), i.kind \in Datagram, i.from = n,
         serves \/ "withdrawn" \in h,
         AtMostTwo, MaxStart = 0
  PROVE  Goes(m, n, r, g, t, k, b) /\ Facing(m, r, p)
<1>1. CASE s.role \in {"stopped", "resigning"}
  <2>1. s.role = "stopped"
    BY <1>1 DEF Acts, Scene, Both, Own, Tasked, Turn
  <2>2. r = s
    BY <1>1 DEF Dispatch
  <2>3. Both(m, n, s, g, t, k, TRUE, b)
    <3>1. \/ i.kind \in Word /\ s.role = "stopped"
          \/ i.kind = "PROBE" /\ s.role = "stopped"
      BY <2>1 DEF Datagram, Word
    <3>2. CASE i.kind = "PROBE"
      BY <2>1, <3>2, Unchanged, SkipMove DEF Acts, Word
    <3>3. CASE i.kind \in Word
      BY <2>1, <3>3, Unchanged, SkipMove DEF Acts
    <3> QED BY <3>1, <3>2, <3>3
  <2> QED BY <2>2, <2>3, Unchanged, SaysNothing DEF Acts
<1>2. CASE s.role \notin {"stopped", "resigning"}
  <2>1. CASE i.kind = "PROBE"
    <3>1. r = OnProbe(s)
      BY <1>2, <2>1 DEF Dispatch
    <3> QED BY <2>1, <3>1, ProbeGoes
  <2>2. CASE i.kind = "HEARTBEAT"
    <3>1. r = OnHeartbeat(m, s, n)
      BY <1>2, <2>2 DEF Dispatch
    <3> QED BY <1>2, <2>2, <3>1, HeartbeatGoes
  <2>3. CASE i.kind = "CLAIM"
    <3>1. r = OnClaim(m, s, n)
      BY <1>2, <2>3 DEF Dispatch
    <3> QED BY <1>2, <2>3, <3>1, ClaimGoes
  <2>4. CASE i.kind = "RESIGN"
    <3>1. r \in OnResign(s, serves, n)
      BY <1>2, <2>4 DEF Dispatch
    <3> QED BY <1>2, <2>4, <3>1, ResignGoes
  <2> QED BY <2>1, <2>2, <2>3, <2>4 DEF Datagram
<1> QED BY <1>1, <1>2

(* A timer's closure is run: it looks at the role again.                     *)
LEMMA TimerGoes ==
  ASSUME NEW m \in Node, NEW n \in Node, NEW s, NEW h, NEW t, NEW k, NEW b, NEW g,
         NEW p, NEW i, NEW serves \in BOOLEAN, NEW r \in OnTimer(m, s, serves, i),
         Acts(m, n, s, h, t, k, b, i.kind, g, p), i.kind \in Timer \ {"reprobe"},
         serves \/ "withdrawn" \in h, MaxStart = 0
  PROVE  Goes(m, n, r, g, t, k, b) /\ Facing(m, r, p)
<1> USE DEF Acts
<1>1. "CLAIM" \in Datagram /\ "HEARTBEAT" \in Datagram /\ "PROBE" \in Datagram
  BY DEF Datagram
<1>2. ASSUME NEW f, r = BecomeMaster(s, serves, f),
             \/ i.kind = "probe" /\ s.role = "probing"
             \/ i.kind = "settle" /\ s.role = "electing"
             \/ i.kind = "handoff" /\ s.role = "awaiting-handoff"
      PROVE  Goes(m, n, r, g, t, k, b) /\ Facing(m, r, p)
  BY <1>2, BidGoes
<1>3. CASE i.kind = "election" /\ s.role = "electing"
  <2>1. r = Arm(SendClaim(Ordered(s, i.handoff)), "settle", ClaimSettle)
    BY <1>3 DEF OnTimer, Ordered
  <2>2. /\ Mark(r, "electing", s.heard, TRUE, "none", s.task.left)
        /\ Dials(r, s.timer["probe"], s.timer["election"], ClaimSettle,
                 s.timer["handoff"], s.timer["heartbeat"], s.timer["watchdog"])
        /\ r.out = <<"CLAIM">> /\ Faces(s, r)
    BY <1>3, <2>1, SettleView
  <2>3. ASSUME NEW l, Told("CLAIM", k, l, b)
        PROVE  Both(m, n, r, g, t, l, TRUE, b) /\ "RESIGN" \notin k
    BY <1>3, <2>2, <2>3, SettleMove
  <2> QED BY <1>1, <2>2, <2>3, SaysOne DEF Faces
<1>4. CASE i.kind = "candidacy" /\ s.role = "standby"
  <2>1. r = Arm(Send(s, "PROBE"), "candidacy", CandidacyPeriod)
    BY <1>4 DEF OnTimer
  <2>2. /\ Mark(r, s.role, s.heard, s.claimed, "none", s.task.left)
        /\ Dials(r, s.timer["probe"], s.timer["election"], s.timer["settle"],
                 s.timer["handoff"], s.timer["heartbeat"], s.timer["watchdog"])
        /\ r.out = <<"PROBE">> /\ Faces(s, r)
    BY <1>1, <2>1, SayArmView
  <2>3. ASSUME NEW l, Told("PROBE", k, l, b)
        PROVE  Both(m, n, r, g, t, l, TRUE, b)
    BY <1>4, <2>2, <2>3, AskMove
  <2> QED BY <1>1, <2>2, <2>3, SaysOne DEF Faces, Word
<1>5. CASE i.kind = "heartbeat" /\ s.role = "master"
  <2>1. r = Arm(Send(s, "HEARTBEAT"), "heartbeat", HeartbeatPeriod)
    BY <1>5 DEF OnTimer
  <2>2. /\ Mark(r, "master", s.heard, s.claimed, "none", s.task.left)
        /\ Dials(r, s.timer["probe"], s.timer["election"], s.timer["settle"],
                 s.timer["handoff"], HeartbeatPeriod, s.timer["watchdog"])
        /\ r.out = <<"HEARTBEAT">> /\ Faces(s, r)
    BY <1>1, <1>5, <2>1, SayArmView
  <2>3. ASSUME NEW l, Told("HEARTBEAT", k, l, b)
        PROVE  Both(m, n, r, g, t, l, TRUE, b) /\ "RESIGN" \notin k
    BY <1>5, <2>2, <2>3, BeatMove
  <2> QED BY <1>1, <2>2, <2>3, SaysOne DEF Faces
<1>6. CASE i.kind = "yield" /\ s.role = "master"
  <2>1. CASE r = Arm(s, "yield", YieldPeriod)
    <3>1. s \in Election /\ s.task.op = "none" /\ s.out = <<>>
      BY DEF Running
    <3>2. /\ Mark(r, s.role, s.heard, s.claimed, "none", s.task.left)
          /\ Dials(r, s.timer["probe"], s.timer["election"], s.timer["settle"],
                   s.timer["handoff"], s.timer["heartbeat"], s.timer["watchdog"])
          /\ r.out = <<>> /\ Faces(s, r)
      BY <2>1, <3>1, ArmView
    <3>3. Both(m, n, r, g, t, k, TRUE, b)
      BY <1>6, <3>2, SkipMove DEF Word
    <3> QED BY <3>2, <3>3, SaysNothing DEF Faces
  <2>2. ASSUME NEW l \in Node \ {m}, r = StopConsumerThenResign(s, l, "standby")
        PROVE  Goes(m, n, r, g, t, k, b) /\ Facing(m, r, p)
    <3>1. s.running
      BY <1>6 DEF Facing, Running
    <3>2. /\ Mark(r, "resigning", s.heard, s.claimed, "stop", MaxStop)
          /\ Dials(r, s.timer["probe"], s.timer["election"], s.timer["settle"],
                   s.timer["handoff"], Off, s.timer["watchdog"])
          /\ r.out = <<>> /\ Facing(m, r, p)
      BY <2>2, <3>1, StopView
    <3>3. Both(m, n, r, g, t, k, TRUE, b)
      BY <1>6, <3>2, StopMove
    <3> QED BY <3>2, <3>3, SaysNothing
  <2> QED BY <1>6, <2>1, <2>2 DEF OnTimer, ConsiderYield
<1>7. CASE /\ i.kind = "probe" => s.role # "probing"
           /\ i.kind \in {"election", "settle"} => s.role # "electing"
           /\ i.kind = "handoff" => s.role # "awaiting-handoff"
           /\ i.kind = "candidacy" => s.role # "standby"
           /\ i.kind \in {"heartbeat", "yield"} => s.role # "master"
  <2>1. r = s
    BY <1>7 DEF OnTimer
  <2>2. i.kind \notin Word /\ i.kind \notin {"boot", "timeout", "stop", "PROBE"}
    BY DEF Timer, Word
  <2>3. Both(m, n, s, g, t, k, TRUE, b)
    BY <1>7, <2>2, Unchanged, SkipMove
  <2> QED BY <2>1, <2>3, Unchanged, SaysNothing
<1>8. /\ i.kind = "probe" /\ s.role = "probing" => r = BecomeMaster(s, serves, "ordered")
      /\ i.kind = "settle" /\ s.role = "electing" => r = BecomeMaster(s, serves, i.handoff)
      /\ i.kind = "handoff" /\ s.role = "awaiting-handoff" => r = BecomeMaster(s, serves, "gap")
  BY DEF OnTimer
<1> QED BY <1>2, <1>3, <1>4, <1>5, <1>6, <1>7, <1>8

(* A boot, a stop or a holder that is missed.                                *)
LEMMA SignalGoes ==
  ASSUME NEW m \in Node, NEW n \in Node, NEW s, NEW h, NEW t, NEW k, NEW b, NEW g,
         NEW p, NEW i, NEW r \in OnSignal(s, i),
         Acts(m, n, s, h, t, k, b, i.kind, g, p),
         i.kind \in {"boot", "stop", "timeout"},
         i.kind = "stop" => s.timer["watchdog"] = Off
  PROVE  Goes(m, n, r, g, t, k, b) /\ Facing(m, r, p)
<1> USE DEF Acts
<1>1. CASE i.kind = "boot"
  <2>1. r = BeginProbe(s) /\ "PROBE" \in Datagram
    BY <1>1 DEF OnSignal, Datagram
  <2>2. /\ Mark(r, "probing", s.heard, s.claimed, "none", s.task.left)
        /\ Dials(r, BootProbe, Off, Off, Off, s.timer["heartbeat"], s.timer["watchdog"])
        /\ r.out = <<"PROBE">> /\ Faces(s, r)
    BY <2>1, ProbeView
  <2>3. ASSUME NEW l, Told("PROBE", k, l, b)
        PROVE  Both(m, n, r, g, t, l, TRUE, b)
    BY <1>1, <2>2, <2>3, ProbeMove
  <2> QED BY <2>1, <2>2, <2>3, SaysOne DEF Faces, Word
<1>2. CASE i.kind = "stop" /\ s.role = "master"
  <2>1. r = StopConsumerThenResign(s, NoNode, "stopped")
    BY <1>2 DEF OnSignal
  <2>2. s.running /\ m # NoNode
    BY <1>2, NodeAssumption DEF Facing, Running
  <2>3. /\ Mark(r, "resigning", s.heard, s.claimed, "stop", MaxStop)
        /\ Dials(r, s.timer["probe"], s.timer["election"], s.timer["settle"],
                 s.timer["handoff"], Off, s.timer["watchdog"])
        /\ r.out = <<>> /\ Facing(m, r, p)
    BY <1>2, <2>1, <2>2, StopView
  <2>4. Both(m, n, r, g, t, k, TRUE, b)
    BY <1>2, <2>3, StopMove
  <2> QED BY <2>3, <2>4, SaysNothing
<1>3. CASE i.kind = "stop" /\ s.role # "master"
  <2>1. r = Continue(s, NoNode, "stopped")
    BY <1>3 DEF OnSignal
  <2>2. /\ Mark(r, "stopped", s.heard, s.claimed, "none", s.task.left)
        /\ Dials(r, Off, Off, Off, Off, Off, Off)
        /\ r.out = <<>> /\ Faces(s, r)
    BY <1>3, <2>1, QuitView
  <2>3. Both(m, n, r, g, t, k, TRUE, b)
    BY <1>3, <2>2, QuitMove
  <2> QED BY <2>2, <2>3, SaysNothing DEF Faces
<1>4. CASE i.kind = "timeout" /\ s.role = "standby"
  <2>1. PICK e \in 0..ElectionWindow : r = BeginElection(s, "gap", e)
    BY <1>4 DEF OnSignal, Elections
  <2>2. /\ Mark(r, "electing", s.heard, FALSE, "none", s.task.left)
        /\ Dials(r, Off, e, Off, Off, s.timer["heartbeat"], s.timer["watchdog"])
        /\ r.out = <<>> /\ Faces(s, r)
    BY <2>1, ElectView
  <2>3. Both(m, n, r, g, t, k, TRUE, b)
    BY <1>4, <2>2, ElectMove
  <2> QED BY <2>2, <2>3, SaysNothing DEF Faces
<1>5. CASE i.kind = "timeout" /\ s.role # "standby"
  <2>1. r = s
    BY <1>5 DEF OnSignal
  <2>2. Both(m, n, s, g, t, k, TRUE, b)
    BY <1>5, Unchanged, SkipMove DEF Word
  <2> QED BY <2>1, <2>2, Unchanged, SaysNothing
<1> QED BY <1>1, <1>2, <1>3, <1>4, <1>5

(* Any item is run.                                                          *)
LEMMA OutcomesGo ==
  ASSUME NEW m \in Node, NEW n \in Node, NEW s, NEW h, NEW t, NEW k, NEW b, NEW g,
         NEW p, NEW i, NEW serves \in BOOLEAN, NEW r \in Outcomes(m, s, serves, i),
         Acts(m, n, s, h, t, k, b, i.kind, g, p), i \in Item, serves \/ "withdrawn" \in h,
         i.kind \notin {"reprobe", "conflict", "wake"},
         i.kind \in Datagram => i.from = n,
         i.kind = "stop" => s.timer["watchdog"] = Off, AtMostTwo, MaxStart = 0
  PROVE  Goes(m, n, r, g, t, k, b) /\ Facing(m, r, p)
<1>1. CASE i.kind \in Datagram
  <2>1. r \in Dispatch(m, s, serves, i)
    <3>1. i.kind \notin Timer /\ i.kind \notin Signal
      BY <1>1 DEF Datagram, Timer, Signal
    <3> QED BY <1>1, <3>1 DEF Outcomes
  <2> QED BY <1>1, <2>1, DispatchGoes
<1>2. CASE i.kind \in Timer
  <2>1. r \in OnTimer(m, s, serves, i) /\ i.kind \in Timer \ {"reprobe"}
    <3>1. i.kind \notin Datagram /\ i.kind \notin Signal
      BY <1>2 DEF Datagram, Timer, Signal
    <3> QED BY <1>2, <3>1 DEF Outcomes
  <2> QED BY <2>1, TimerGoes
<1>3. CASE i.kind \in Signal
  <2>1. r \in OnSignal(s, i) /\ i.kind \in {"boot", "stop", "timeout"}
    BY <1>3 DEF Outcomes, Timer, Datagram, Signal
  <2> QED BY <2>1, SignalGoes
<1> QED BY <1>1, <1>2, <1>3 DEF Item

(* Only a holder stops its consumer, and a stop does so for good.            *)
LEMMA HoldersStop ==
  ASSUME NEW m \in Node, NEW s, NEW i \in Item, NEW serves \in BOOLEAN,
         NEW r \in Outcomes(m, s, serves, i), Running(s), r.task.op = "stop",
         i.kind \notin {"reprobe", "conflict", "wake"}, i.kind \in Datagram => i.from \in Node,
         s.role = "master" => s.running
  PROVE  s.role = "master" /\ (i.kind = "stop" => r.task.then = "stopped")
<1> USE DEF Running
<1>1. ASSUME NEW u \in Election
      PROVE  /\ \A d : Send(u, d).task = u.task
             /\ \A t, d : Arm(u, t, d).task = u.task
             /\ \A l : BecomeStandby(u, l).task = u.task
             /\ BeginProbe(u).task = u.task /\ SendClaim(u).task = u.task
             /\ \A f, d : BeginElection(u, f, d).task = u.task
             /\ \A l : BeginPreemption(u, l).task = u.task
             /\ Continue(u, NoNode, "stopped").task = u.task
  BY DEF Send, Arm, BecomeStandby, ClearElectionTimers, Disarm, BeginProbe, SendClaim,
     BeginElection, BeginPreemption, Continue, Election
<1>2. \A f : BecomeMaster(s, serves, f).task.op \in {"none", "start"}
  BY <1>1 DEF BecomeMaster, Send, ClearElectionTimers, Disarm, NoTask, Election
<1>3. CASE i.kind \in Datagram
  <2>1. r \in Dispatch(m, s, serves, i)
    BY <1>3 DEF Outcomes, Datagram, Timer, Signal
  <2> DEFINE u == HeardFrom(s, i.from)
  <2>2. u \in Election /\ u.task = s.task
    BY <1>3 DEF HeardFrom, Election, HeardAt
  <2>3. CASE i.kind = "HEARTBEAT" /\ s.role # "master"
    <3>1. r = s \/ r = OnHeartbeat(m, s, i.from)
      BY <2>1, <2>3 DEF Dispatch
    <3>2. OnHeartbeat(m, s, i.from) \in
             {u, BeginPreemption(u, i.from), BecomeStandby(u, i.from)}
      BY <2>3 DEF OnHeartbeat, HeardFrom
    <3> HIDE DEF u
    <3> QED BY <1>1, <2>2, <3>1, <3>2
  <2>4. CASE i.kind # "HEARTBEAT" /\ s.role # "master"
    <3>1. CASE i.kind = "PROBE"
      BY <2>1, <2>4, <3>1 DEF Dispatch, OnProbe
    <3>2. CASE i.kind = "CLAIM"
      BY <1>1, <2>1, <2>4, <3>2 DEF Dispatch, OnClaim
    <3>3. CASE i.kind = "RESIGN"
      <4>1. Vacated(s) \in Election /\ Vacated(s).task = s.task
        BY DEF Vacated, Election
      <4>2. \/ r = s \/ r = BecomeMaster(s, serves, "ordered")
            \/ \E e : r = BeginElection(Vacated(s), "ordered", e)
        BY <2>1, <3>3 DEF Dispatch, OnResign, Elections, Vacated
      <4> QED BY <1>1, <1>2, <4>1, <4>2
    <3> QED BY <1>3, <2>4, <3>1, <3>2, <3>3 DEF Datagram
  <2> QED BY <1>3, <2>3, <2>4 DEF Datagram
<1>4. CASE i.kind \in Timer
  <2>1. r \in OnTimer(m, s, serves, i)
    BY <1>4 DEF Outcomes, Datagram, Timer, Signal
  <2>2. \A d, t, e : Arm(Send(s, d), t, e).task = s.task
    BY DEF Arm, Send, Election
  <2>3. \A f, t, e : Arm(SendClaim(Ordered(s, f)), t, e).task = s.task
    BY DEF Arm, SendClaim, Send, Ordered, Election
  <2> QED BY <1>1, <1>2, <1>4, <2>1, <2>2, <2>3 DEF OnTimer, Ordered, Timer
<1>5. CASE i.kind \in Signal
  <2>1. r \in OnSignal(s, i) /\ i.kind \in {"boot", "stop", "timeout"}
    BY <1>5 DEF Outcomes, Timer, Datagram, Signal
  <2>2. s.role = "master" => StopConsumerThenResign(s, NoNode, "stopped").task.then = "stopped"
    BY DEF StopConsumerThenResign, Disarm, Election
  <2> QED BY <1>1, <2>1, <2>2 DEF OnSignal, Elections
<1> QED BY <1>3, <1>4, <1>5 DEF Item
-----------------------------------------------------------------------------
(* Queues and channels.                                                      *)

(* An item is queued.                                                        *)
LEMMA AppendKinds ==
  ASSUME NEW q \in Seq(Item), NEW i \in Item
  PROVE  Kinds(Append(q, i)) = Kinds(q) \cup {i.kind}
<1> DEFINE a == Append(q, i)
<1>1. /\ Len(a) = Len(q) + 1 /\ Len(q) \in Nat /\ a[Len(q) + 1] = i
      /\ \A k \in 1..Len(q) : a[k] = q[k]
  BY AppendProperties, LenProperties
<1> HIDE DEF a
<1>2. 1..Len(a) = (1..Len(q)) \cup {Len(q) + 1}
  BY <1>1
<1>3. Kinds(a) = Kinds(q) \cup {i.kind}
  BY <1>1, <1>2 DEF Kinds
<1> QED BY <1>3 DEF a

(* An item is taken from the queue.                                          *)
LEMMA TailKinds ==
  ASSUME NEW q \in Seq(Item), q # <<>>
  PROVE  Kinds(q) = Kinds(Tail(q)) \cup {Head(q).kind}
<1>1. /\ Len(Tail(q)) = Len(q) - 1 /\ Len(q) \in Nat /\ Len(q) > 0 /\ Head(q) = q[1]
      /\ \A k \in 1..Len(Tail(q)) : Tail(q)[k] = q[k + 1]
  BY HeadTailProperties, LenProperties, EmptySeq
<1>2. \A k \in 1..Len(q) : k = 1 \/ (k - 1 \in 1..Len(Tail(q)) /\ (k - 1) + 1 = k)
  BY <1>1
<1>3. \A k \in 1..Len(Tail(q)) : k + 1 \in 1..Len(q)
  BY <1>1
<1>4. ASSUME NEW x \in Kinds(q) PROVE x \in Kinds(Tail(q)) \cup {Head(q).kind}
  <2>1. PICK k \in 1..Len(q) : x = q[k].kind
    BY <1>4 DEF Kinds
  <2>2. CASE k # 1
    <3>1. k - 1 \in 1..Len(Tail(q)) /\ Tail(q)[k - 1] = q[k]
      BY <1>1, <1>2, <2>2
    <3> QED BY <2>1, <3>1 DEF Kinds
  <2> QED BY <1>1, <2>1, <2>2
<1>5. ASSUME NEW x \in Kinds(Tail(q)) PROVE x \in Kinds(q)
  BY <1>1, <1>3, <1>5 DEF Kinds
<1>6. Head(q).kind \in Kinds(q)
  BY <1>1 DEF Kinds
<1> QED BY <1>4, <1>5, <1>6

(* A datagram is taken from the channel.                                     *)
LEMMA TailTypes ==
  ASSUME NEW c \in Seq(InFlight), c # <<>>
  PROVE  Types(c) = Types(Tail(c)) \cup {Head(c).type}
<1>1. /\ Len(Tail(c)) = Len(c) - 1 /\ Len(c) \in Nat /\ Len(c) > 0 /\ Head(c) = c[1]
      /\ \A k \in 1..Len(Tail(c)) : Tail(c)[k] = c[k + 1]
  BY HeadTailProperties, LenProperties, EmptySeq
<1>2. \A k \in 1..Len(c) : k = 1 \/ (k - 1 \in 1..Len(Tail(c)) /\ (k - 1) + 1 = k)
  BY <1>1
<1>3. \A k \in 1..Len(Tail(c)) : k + 1 \in 1..Len(c)
  BY <1>1
<1>4. ASSUME NEW x \in Types(c) PROVE x \in Types(Tail(c)) \cup {Head(c).type}
  <2>1. PICK k \in 1..Len(c) : x = c[k].type
    BY <1>4 DEF Types
  <2>2. CASE k # 1
    <3>1. k - 1 \in 1..Len(Tail(c)) /\ Tail(c)[k - 1] = c[k]
      BY <1>1, <1>2, <2>2
    <3> QED BY <2>1, <3>1 DEF Types
  <2> QED BY <1>1, <2>1, <2>2
<1>5. ASSUME NEW x \in Types(Tail(c)) PROVE x \in Types(c)
  BY <1>1, <1>3, <1>5 DEF Types
<1>6. Head(c).type \in Types(c)
  BY <1>1 DEF Types
<1> QED BY <1>4, <1>5, <1>6

(* A channel after one datagram more.                                        *)
LEMMA SaidOnNet ==
  ASSUME NEW c \in Seq(InFlight), NEW d \in Datagram
  PROVE  LET e == c \o Stamped(<<d>>)
         IN  /\ e \in Seq(InFlight) /\ Len(c) \in Nat /\ Len(e) = Len(c) + 1
             /\ \A k \in 1..Len(c) : e[k] = c[k]
             /\ e[Len(c) + 1].type = d /\ e[Len(c) + 1].due = MaxDelay
<1> DEFINE z == Stamped(<<d>>)
<1>1. <<d>> \in Seq(Datagram) /\ Len(<<d>>) = 1 /\ <<d>>[1] = d
  OBVIOUS
<1>2. z \in Seq(InFlight)
  BY <1>1, StampedType
<1>3. Len(z) = 1 /\ z[1].type = d /\ z[1].due = MaxDelay
  BY <1>1 DEF Stamped
<1> HIDE DEF z
<1>4. Len(c) \in Nat
  BY LenProperties
<1>5. /\ c \o z \in Seq(InFlight) /\ Len(c \o z) = Len(c) + 1
      /\ \A k \in 1..(Len(c) + 1) : (c \o z)[k] = IF k <= Len(c) THEN c[k] ELSE z[k - Len(c)]
  <2>1. /\ c \o z \in Seq(InFlight) /\ Len(c \o z) = Len(c) + Len(z)
        /\ \A k \in 1..(Len(c) + Len(z)) :
              (c \o z)[k] = IF k <= Len(c) THEN c[k] ELSE z[k - Len(c)]
    BY <1>2, ConcatProperties
  <2> QED BY <1>3, <2>1
<1>6. \A k \in 1..Len(c) : (c \o z)[k] = c[k]
  BY <1>4, <1>5
<1>7. (c \o z)[Len(c) + 1] = z[1]
  BY <1>4, <1>5
<1> QED BY <1>3, <1>4, <1>5, <1>6, <1>7 DEF z

(* What is on its way after one datagram more.                               *)
LEMMA SaidTypes ==
  ASSUME NEW c \in Seq(InFlight), NEW d \in Datagram
  PROVE  Types(c \o Stamped(<<d>>)) = Types(c) \cup {d}
<1> DEFINE e == c \o Stamped(<<d>>)
<1>1. /\ Len(c) \in Nat /\ Len(e) = Len(c) + 1 /\ e[Len(c) + 1].type = d
      /\ \A k \in 1..Len(c) : e[k] = c[k]
  BY SaidOnNet
<1> HIDE DEF e
<1>2. 1..Len(e) = (1..Len(c)) \cup {Len(c) + 1}
  BY <1>1
<1>3. Types(e) = Types(c) \cup {d}
  BY <1>1, <1>2 DEF Types
<1> QED BY <1>3 DEF e

(* A step that says nothing leaves the channels alone.                       *)
LEMMA SilentNet ==
  ASSUME NEW c \in Seq(InFlight)
  PROVE  c \o Stamped(<<>>) = c
<1>1. Stamped(<<>>) = <<>>
  BY DEF Stamped
<1> QED BY <1>1, ConcatEmptySeq

(* Nothing is ahead of a node whose queue and channel are empty.             *)
LEMMA EmptyIsSilent ==
  Kinds(<<>>) = {} /\ Types(<<>>) = {} /\ InOrder(<<>>, <<>>)
BY DEF Kinds, Types, InOrder

(* And the other way round.                                                  *)
LEMMA NothingAhead ==
  ASSUME NEW q \in Seq(Item), NEW c \in Seq(InFlight), NEW w,
         Kinds(q) \cup Types(c) \cup w = {}
  PROVE  q = <<>> /\ c = <<>>
<1>1. CASE q # <<>>
  BY <1>1, TailKinds
<1>2. CASE c # <<>>
  BY <1>2, TailTypes
<1> QED BY <1>1, <1>2

(* What is queued are items, and what is on its way are datagrams.           *)
LEMMA NoMarkQueued ==
  ASSUME NEW q \in Seq(Item), NEW c \in Seq(InFlight)
  PROVE  "withdrawn" \notin Kinds(q) /\ Types(c) \subseteq Datagram /\ "withdrawn" \notin Datagram
<1>1. /\ \A k \in 1..Len(q) : q[k] \in Item
      /\ \A k \in 1..Len(c) : c[k] \in InFlight
  BY ElementOfSeq
<1> QED BY <1>1 DEF Kinds, Types, Item, InFlight, Datagram, Timer, Signal

(* A datagram that arrives keeps the order.                                  *)
LEMMA ReceiveInOrder ==
  ASSUME NEW q \in Seq(Item), NEW c \in Seq(InFlight), NEW i \in Item,
         InOrder(q, c), c # <<>>, i.kind = Head(c).type
  PROVE  InOrder(Append(q, i), Tail(c))
<1> DEFINE a == Append(q, i)
           e == Tail(c)
<1>1. /\ Len(a) = Len(q) + 1 /\ Len(q) \in Nat /\ a[Len(q) + 1] = i
      /\ \A k \in 1..Len(q) : a[k] = q[k]
  BY AppendProperties, LenProperties
<1>2. /\ Len(e) = Len(c) - 1 /\ Len(c) \in Nat /\ Len(c) > 0 /\ Head(c) = c[1]
      /\ \A k \in 1..Len(e) : e[k] = c[k + 1] /\ k + 1 \in 1..Len(c)
      /\ Head(c) \in InFlight
  BY HeadTailProperties, LenProperties, EmptySeq
<1>3. Types(e) \subseteq Types(c) /\ Head(c).type \in Types(c) /\ i.kind \in Datagram
  BY <1>2, TailTypes DEF InFlight
<1>4. Kinds(a) = Kinds(q) \cup {i.kind}
  BY AppendKinds
<1> HIDE DEF a, e
<1>5. \A k \in 1..Len(a) : k \in 1..Len(q) \/ k = Len(q) + 1
  BY <1>1
<1>6. ASSUME NEW j \in 1..Len(a), NEW k \in 1..Len(a)
      PROVE  /\ a[j].kind = "RESIGN" /\ j < k => a[k].kind \notin Word
             /\ a[j].kind \in {"probe", "settle", "handoff"} /\ a[k].kind = a[j].kind => j = k
  <2>1. CASE j \in 1..Len(q) /\ k \in 1..Len(q)
    BY <1>1, <2>1 DEF InOrder
  <2>2. CASE j \in 1..Len(q) /\ k = Len(q) + 1
    <3>1. a[j].kind \in Kinds(q)
      BY <1>1, <2>2 DEF Kinds
    <3> QED BY <1>1, <1>3, <2>2, <3>1 DEF InOrder, Datagram
  <2>3. CASE j = Len(q) + 1
    <3>1. a[j].kind \notin {"probe", "settle", "handoff"}
      BY <1>1, <1>3, <2>3 DEF Datagram
    <3>2. ~(j < k)
      BY <1>1, <2>3
    <3> QED BY <3>1, <3>2
  <2> QED BY <1>5, <2>1, <2>2, <2>3
<1>7. ASSUME "RESIGN" \in Kinds(a) PROVE Types(e) \cap Word = {}
  <2>1. CASE "RESIGN" \in Kinds(q)
    BY <1>3, <2>1 DEF InOrder
  <2>2. CASE i.kind = "RESIGN"
    <3>1. \A k \in 1..Len(e) : e[k].type \notin Word
      <4> TAKE k \in 1..Len(e)
      <4>1. k + 1 \in 1..Len(c) /\ 1 \in 1..Len(c) /\ 1 < k + 1
        BY <1>2
      <4> QED BY <1>2, <2>2, <4>1 DEF InOrder
    <3> QED BY <3>1 DEF Types
  <2> QED BY <1>4, <1>7, <2>1, <2>2
<1>8. ASSUME NEW j \in 1..Len(e), NEW k \in 1..Len(e), e[j].type = "RESIGN", j < k
      PROVE  e[k].type \notin Word
  <2>1. j + 1 \in 1..Len(c) /\ k + 1 \in 1..Len(c) /\ j + 1 < k + 1
    BY <1>2, <1>8
  <2>2. c[j + 1].type = "RESIGN" /\ e[k] = c[k + 1]
    BY <1>2, <1>8
  <2> QED BY <2>1, <2>2 DEF InOrder
<1>9. \A k \in 1..Len(a) : a[k].kind \in {"timeout", "boot"} => k = 1
  BY <1>1, <1>3, <1>5 DEF InOrder, Datagram
<1>10. InOrder(a, e)
  BY <1>6, <1>7, <1>8, <1>9 DEF InOrder
<1> QED BY <1>10 DEF a, e

(* So does a fired timer that is not queued yet, or a signal.                *)
LEMMA QueuedInOrder ==
  ASSUME NEW q \in Seq(Item), NEW c, NEW i \in Item,
         InOrder(q, c), i.kind \notin Word,
         i.kind \in {"probe", "settle", "handoff"} => i.kind \notin Kinds(q),
         i.kind \in {"timeout", "boot"} => q = <<>>
  PROVE  InOrder(Append(q, i), c)
<1> DEFINE a == Append(q, i)
<1>1. /\ Len(a) = Len(q) + 1 /\ Len(q) \in Nat /\ a[Len(q) + 1] = i
      /\ \A k \in 1..Len(q) : a[k] = q[k]
  BY AppendProperties, LenProperties
<1>4. Kinds(a) = Kinds(q) \cup {i.kind}
  BY AppendKinds
<1> HIDE DEF a
<1>5. \A k \in 1..Len(a) : k \in 1..Len(q) \/ k = Len(q) + 1
  BY <1>1
<1>6. ASSUME NEW j \in 1..Len(a), NEW k \in 1..Len(a)
      PROVE  /\ a[j].kind = "RESIGN" /\ j < k => a[k].kind \notin Word
             /\ a[j].kind \in {"probe", "settle", "handoff"} /\ a[k].kind = a[j].kind => j = k
  <2>0. \A x \in 1..Len(q) : a[x].kind \in Kinds(q)
    BY <1>1 DEF Kinds
  <2>1. CASE j \in 1..Len(q) /\ k \in 1..Len(q)
    BY <1>1, <2>1 DEF InOrder
  <2>2. CASE j \in 1..Len(q) /\ k = Len(q) + 1
    BY <1>1, <2>0, <2>2
  <2>3. CASE j = Len(q) + 1
    <3>1. ~(j < k)
      BY <1>1, <2>3
    <3>2. CASE k \in 1..Len(q)
      BY <1>1, <2>0, <2>3, <3>1, <3>2
    <3> QED BY <1>5, <2>3, <3>1, <3>2
  <2> QED BY <1>5, <2>1, <2>2, <2>3
<1>7. "RESIGN" \in Kinds(a) => Types(c) \cap Word = {}
  BY <1>4 DEF InOrder, Word
<1>8. \A k \in 1..Len(a) : a[k].kind \in {"timeout", "boot"} => k = 1
  <2> SUFFICES ASSUME NEW k \in 1..Len(a), a[k].kind \in {"timeout", "boot"} PROVE k = 1
    OBVIOUS
  <2>1. CASE k = Len(q) + 1
    <3>1. q = <<>>
      BY <1>1, <2>1
    <3> QED BY <2>1, <3>1
  <2> QED BY <1>1, <1>5, <2>1 DEF InOrder
<1>9. InOrder(a, c)
  BY <1>6, <1>7, <1>8 DEF InOrder
<1> QED BY <1>9 DEF a

(* To take an item from the queue keeps the order.                           *)
LEMMA TailInOrder ==
  ASSUME NEW q \in Seq(Item), NEW c, InOrder(q, c), q # <<>>
  PROVE  InOrder(Tail(q), c)
<1> DEFINE a == Tail(q)
<1>1. /\ Len(a) = Len(q) - 1 /\ Len(q) \in Nat
      /\ \A k \in 1..Len(a) : a[k] = q[k + 1] /\ k + 1 \in 1..Len(q)
  BY HeadTailProperties, LenProperties
<1>2. Kinds(a) \subseteq Kinds(q)
  BY TailKinds
<1> HIDE DEF a
<1>3. ASSUME NEW j \in 1..Len(a), NEW k \in 1..Len(a)
      PROVE  /\ a[j].kind = "RESIGN" /\ j < k => a[k].kind \notin Word
             /\ a[j].kind \in {"probe", "settle", "handoff"} /\ a[k].kind = a[j].kind => j = k
  <2>1. /\ j + 1 \in 1..Len(q) /\ k + 1 \in 1..Len(q) /\ a[j] = q[j + 1] /\ a[k] = q[k + 1]
        /\ j < k => j + 1 < k + 1
        /\ j + 1 = k + 1 => j = k
    BY <1>1
  <2> QED BY <2>1 DEF InOrder
<1>4. ASSUME NEW k \in 1..Len(a), a[k].kind \in {"timeout", "boot"} PROVE k = 1
  <2>1. k + 1 = 1
    BY <1>1, <1>4 DEF InOrder
  <2> QED BY <2>1
<1>5. InOrder(a, c)
  BY <1>2, <1>3, <1>4 DEF InOrder
<1> QED BY <1>5 DEF a

(* A datagram said keeps the order, if no word follows a RESIGN.             *)
LEMMA SaidInOrder ==
  ASSUME NEW q, NEW c \in Seq(InFlight), NEW d \in Datagram,
         InOrder(q, c), d \in Word => "RESIGN" \notin Kinds(q) \cup Types(c)
  PROVE  InOrder(q, c \o Stamped(<<d>>))
<1> DEFINE e == c \o Stamped(<<d>>)
<1>1. /\ Len(c) \in Nat /\ Len(e) = Len(c) + 1 /\ e[Len(c) + 1].type = d
      /\ \A k \in 1..Len(c) : e[k] = c[k]
  BY SaidOnNet
<1>2. Types(e) = Types(c) \cup {d}
  BY SaidTypes
<1> HIDE DEF e
<1>3. \A k \in 1..Len(e) : k \in 1..Len(c) \/ k = Len(c) + 1
  BY <1>1
<1>4. ASSUME NEW j \in 1..Len(e), NEW k \in 1..Len(e), e[j].type = "RESIGN", j < k
      PROVE  e[k].type \notin Word
  <2>1. j \in 1..Len(c)
    BY <1>1, <1>3, <1>4
  <2>2. e[j].type \in Types(c)
    BY <1>1, <2>1 DEF Types
  <2> QED BY <1>1, <1>3, <1>4, <2>1, <2>2 DEF InOrder
<1>5. "RESIGN" \in Kinds(q) => Types(e) \cap Word = {}
  BY <1>2 DEF InOrder
<1>6. InOrder(q, e)
  BY <1>4, <1>5 DEF InOrder
<1> QED BY <1>6 DEF e

(* A datagram that is dropped keeps the order.                               *)
LEMMA DropInOrder ==
  ASSUME NEW q \in Seq(Item), NEW c \in Seq(InFlight), InOrder(q, c), c # <<>>
  PROVE  InOrder(q, Tail(c))
<1> DEFINE e == Tail(c)
<1>1. /\ Len(e) = Len(c) - 1 /\ Len(c) \in Nat
      /\ \A k \in 1..Len(e) : e[k] = c[k + 1] /\ k + 1 \in 1..Len(c)
  BY HeadTailProperties, LenProperties
<1>2. Types(e) \subseteq Types(c)
  BY TailTypes
<1> HIDE DEF e
<1>3. ASSUME NEW j \in 1..Len(e), NEW k \in 1..Len(e), e[j].type = "RESIGN", j < k
      PROVE  e[k].type \notin Word
  <2>1. j + 1 \in 1..Len(c) /\ k + 1 \in 1..Len(c) /\ j + 1 < k + 1
    BY <1>1, <1>3
  <2>2. c[j + 1].type = "RESIGN" /\ e[k] = c[k + 1]
    BY <1>1, <1>3
  <2> QED BY <2>1, <2>2 DEF InOrder
<1>4. InOrder(q, e)
  BY <1>2, <1>3 DEF InOrder
<1> QED BY <1>4 DEF e

(* What is ahead of a node when the head of its queue is run.                *)
LEMMA TurnOfHead ==
  ASSUME NEW s, NEW q \in Seq(Item), NEW c \in Seq(InFlight), NEW h, NEW i, NEW g,
         NEW w \in SUBSET {"withdrawn"},
         InOrder(q, c), q # <<>>, s.task.op = "none",
         h = Kinds(q) \cup Types(c) \cup w, i = Head(q).kind,
         g = Kinds(Tail(q)) \cup Types(c) \cup w
  PROVE  Turn(s, h, i, g)
<1> DEFINE a == Tail(q)
<1>1. /\ Len(a) = Len(q) - 1 /\ Len(q) \in Nat /\ Len(q) > 0 /\ Head(q) = q[1]
      /\ \A k \in 1..Len(a) : a[k] = q[k + 1] /\ k + 1 \in 1..Len(q)
  BY HeadTailProperties, LenProperties, EmptySeq
<1>2. Kinds(q) = Kinds(a) \cup {i}
  BY TailKinds
<1>3. Types(c) \subseteq Datagram
  <2>1. \A k \in 1..Len(c) : c[k] \in InFlight
    BY ElementOfSeq
  <2> QED BY <2>1 DEF Types, InFlight
<1> HIDE DEF a
<1>4. \A x \in Kinds(a) : \E k \in 1..Len(q) : k > 1 /\ q[k].kind = x
  <2> TAKE x \in Kinds(a)
  <2>1. PICK k \in 1..Len(a) : x = a[k].kind
    BY DEF Kinds
  <2>2. k + 1 \in 1..Len(q) /\ k + 1 > 1 /\ q[k + 1].kind = x
    BY <1>1, <2>1
  <2> QED BY <2>2
<1>5. /\ "boot" \notin Kinds(a) /\ "timeout" \notin Kinds(a)
      /\ "boot" \notin Types(c) /\ "timeout" \notin Types(c)
  BY <1>3, <1>4 DEF InOrder, Datagram
<1>6. i \in {"probe", "settle", "handoff"} => i \notin Kinds(a) /\ i \notin Types(c)
  <2>1. 1 \in 1..Len(q) /\ q[1].kind = i
    BY <1>1
  <2>2. i \in {"probe", "settle", "handoff"} => i \notin Kinds(a)
    BY <1>4, <2>1 DEF InOrder
  <2> QED BY <1>3, <2>2 DEF Datagram
<1>7. i = "RESIGN" => (Kinds(a) \cup Types(c)) \cap Word = {}
  <2>1. 1 \in 1..Len(q) /\ q[1].kind = i
    BY <1>1
  <2>2. i = "RESIGN" => Kinds(a) \cap Word = {}
    BY <1>4, <2>1 DEF InOrder
  <2>3. i = "RESIGN" => Types(c) \cap Word = {}
    BY <1>2 DEF InOrder
  <2> QED BY <2>2, <2>3
<1>8. /\ i \in h /\ \A x : x # i => (x \in g <=> x \in h)
      /\ g = Kinds(a) \cup Types(c) \cup w /\ h = g \cup {i}
  BY <1>2 DEF a
<1>9. /\ i # "boot" => "boot" \notin h
      /\ i # "timeout" => "timeout" \notin h
  BY <1>5, <1>8
<1>10. i \in g => i \notin {"boot", "timeout", "probe", "settle", "handoff", "RESIGN"}
  BY <1>5, <1>6, <1>7, <1>8 DEF Word
<1>11. i = "RESIGN" => "HEARTBEAT" \notin h /\ "CLAIM" \notin h
  BY <1>7, <1>8 DEF Word
<1>12. i # "withdrawn"
  <2>1. Head(q) \in Item
    BY HeadTailProperties
  <2> QED BY <2>1 DEF Item, Datagram, Timer, Signal
<1> QED BY <1>8, <1>9, <1>10, <1>11, <1>12 DEF Turn

-----------------------------------------------------------------------------
(* What the invariant and the assumptions give a step.                       *)

(* What Paced says of the settings holds of the intervals derived from       *)
(* them.                                                                     *)
LEMMA PeriodsAreSteady ==
  ASSUME Paced
  PROVE  Steady
<1>1. /\ HeartbeatPeriod \in Int /\ HeartbeatPeriod >= 1 /\ MasterTimeout \in Int
      /\ MasterTimeout >= HeartbeatPeriod + HeartbeatPeriod
      /\ BootProbe \in Int /\ BootProbe >= 1 /\ MaxStop \in Int /\ MaxStop >= 0
  BY TimingAssumption, NodeAssumption
<1>2. \A d \in Int : AtLeastATick(d) \in Int /\ AtLeastATick(d) >= 1
  BY DEF AtLeastATick
<1>3. ElectionWindow \in Int /\ ElectionWindow >= 1 /\ ResignWindow = ElectionWindow
  BY <1>1, <1>2 DEF ElectionWindow, ResignWindow
<1>4. ClaimSettle \in Int /\ ClaimSettle >= 1
  BY <1>2, <1>3 DEF ClaimSettle
<1>5. PreemptGrace \in Int
  BY <1>1, <1>2 DEF PreemptGrace
<1>6. WatchdogPeriod \in Int /\ WatchdogPeriod >= 1
  BY <1>1, <1>2 DEF WatchdogPeriod
<1> QED BY <1>1, <1>3, <1>4, <1>5, <1>6 DEF Steady, Paced

(* Of two nodes that see one ranking one is better, and both know which.     *)
LEMMA TwoAreRivals ==
  ASSUME OneRanking, NEW m \in Node, NEW n \in Node, m # n
  PROVE  Rivals(m, n)
<1>1. /\ Version[m] \in Nat /\ Version[n] \in Nat /\ HashRank[m] \in Nat /\ HashRank[n] \in Nat
      /\ HashRank[m] # HashRank[n] /\ Load[m][m] \in Nat /\ Load[m][n] \in Nat
  BY RankingAssumption
<1>2. /\ OutranksForSurface(m, m, n) <=> OutranksForSurface(n, m, n)
      /\ OutranksForSurface(m, n, m) <=> OutranksForSurface(n, n, m)
  BY DEF OneRanking
<1>3. OutranksForSurface(m, m, n) <=> ~OutranksForSurface(m, n, m)
  BY <1>1 DEF OutranksForSurface, StrictlyNewer
<1>4. /\ StrictlyNewer(m, n) => OutranksForSurface(m, m, n) /\ ~OutranksStably(n, m)
      /\ StrictlyNewer(n, m) => OutranksForSurface(n, n, m) /\ ~OutranksStably(m, n)
  BY <1>1 DEF OutranksForSurface, OutranksStably, StrictlyNewer
<1> QED BY <1>2, <1>3, <1>4 DEF Rivals

(* The two nodes play the same part.                                         *)
LEMMA BothSwap ==
  ASSUME NEW m, NEW n, NEW s, NEW h, NEW t, NEW k, NEW a, NEW b,
         Both(m, n, s, h, t, k, a, b)
  PROVE  Both(n, m, t, k, s, h, b, a)
BY DEF Both

(* What the invariant looks at in an election is not its queue, nor what it  *)
(* says.                                                                     *)
Alike(s, r) ==
    /\ r.role = s.role /\ r.heard = s.heard /\ r.claimed = s.claimed
    /\ r.task = s.task /\ r.timer = s.timer

(* Own depends on nothing but what Alike compares.                           *)
LEMMA AlikeOwn ==
  ASSUME NEW s, NEW r, NEW h, NEW a, Alike(s, r), Own(s, h, a)
  PROVE  Own(r, h, a)
<1> USE DEF Alike
<1>1. Timed(r, h)
  BY DEF Own, Timed, Belongs, Armed
<1>2. Tasked(r)
  BY DEF Own, Tasked
<1>3. Watched(r, h, a)
  BY DEF Own, Watched
<1>4. Fresh(r, h)
  BY DEF Own, Fresh
<1>5. ~a => Gone(r, h)
  BY DEF Own, Gone
<1>6. "withdrawn" \in h =>
          /\ r.timer["watchdog"] = Off
          /\ "stop" \in h \/ r.task.op = "stop" \/ r.role = "stopped"
  BY DEF Own
<1> QED BY <1>1, <1>2, <1>3, <1>4, <1>5, <1>6 DEF Own

(* Nor does Pair.                                                            *)
LEMMA AlikePair ==
  ASSUME NEW m, NEW n, NEW s, NEW h, NEW t, NEW k, NEW r, NEW u, Alike(s, r), Alike(t, u),
         Pair(m, n, s, h, t, k)
  PROVE  Pair(m, n, r, h, u, k)
<1>1. /\ Holding(r) <=> Holding(s)
      /\ Holding(u) <=> Holding(t)
      /\ Bidding(r) <=> Bidding(s)
      /\ Bidding(u) <=> Bidding(t)
      /\ Arriving(r, h) <=> Arriving(s, h)
      /\ Arriving(u, k) <=> Arriving(t, k)
  BY DEF Alike, Holding, Bidding, Arriving
<1>2. \A d : (Waits(r, h, d) <=> Waits(s, h, d)) /\ (Waits(u, k, d) <=> Waits(t, k, d))
  BY DEF Alike, Waits, Open
<1>3. Unrivalled(r, h, u, k)
  BY <1>1, <1>2 DEF Pair, Unrivalled, Alike
<1>4. Warned(r, h, u, k)
  BY <1>1, <1>2 DEF Pair, Warned, Alike
<1>5. Apart(m, n, r, h, u, k)
  BY <1>1, <1>2 DEF Pair, Apart, Alike
<1>6. Contested(m, n, r, h, u, k)
  BY <1>1, <1>2 DEF Pair, Contested, Alike
<1>7. Elected(r, h, u)
  BY DEF Pair, Elected, Alike
<1>8. Followed(r, u, k)
  BY DEF Pair, Followed, Alike
<1>9. Released(r, h, u, k)
  BY <1>1, <1>2 DEF Pair, Released, Alike
<1>10. Spoken(m, n, r, h, u, k)
  BY <1>1, <1>2 DEF Pair, Spoken, Unheard, Alike
<1>11. Vacant(r, h, u, k)
  BY DEF Pair, Vacant, Alike
<1>12. Succeeds(r, h, u, k)
  BY <1>1 DEF Pair, Succeeds, Alike
<1>13. Missed(r, h, u, k)
  BY <1>1, <1>2 DEF Pair, Missed, Alike
<1>14. Outlasted(r, h, u, k)
  <2>1. ProbeLeft(r, h) = ProbeLeft(s, h)
    BY DEF ProbeLeft, Alike
  <2> QED BY <1>1, <1>2, <2>1 DEF Pair, Outlasted, Alike
<1>15. Holding(r) => ~Holding(u)
  BY <1>1 DEF Pair
<1> QED BY <1>3, <1>4, <1>5, <1>6, <1>7, <1>8, <1>9, <1>10, <1>11, <1>12, <1>13, <1>14, <1>15
    DEF Pair

(* Nor, then, does Both.                                                     *)
LEMMA AlikeBoth ==
  ASSUME NEW m, NEW n, NEW s, NEW h, NEW t, NEW k, NEW a, NEW b, NEW r,
         Alike(s, r), Both(m, n, s, h, t, k, a, b)
  PROVE  Both(m, n, r, h, t, k, a, b)
<1>1. Alike(t, t)
  BY DEF Alike
<1> QED BY <1>1, AlikeOwn, AlikePair DEF Both

(* The two nodes, with m in its place.                                       *)
LEMMA Setting ==
  ASSUME TypeOK, OneAtATime, OneRanking, NEW m \in Node, NEW n \in Node, m # n, Alive(m)
  PROVE  Scene(m, n, st[m], Ahead(n, m), st[n], Ahead(m, n), Alive(n))
<1>1. Both(m, n, st[m], Ahead(n, m), st[n], Ahead(m, n), TRUE, Alive(n))
  <2>1. Alive(m) = TRUE
    BY DEF Alive
  <2>2. Both(m, n, st[m], Ahead(n, m), st[n], Ahead(m, n), Alive(m), Alive(n))
    BY DEF OneAtATime, Duo
  <2> QED BY <2>1, <2>2
<1>2. Counted(st[m]) /\ Counted(st[n])
  BY TimersAreCounted DEF TypeOK
<1>3. Alive(n) \in BOOLEAN
  BY DEF Alive
<1> QED BY <1>1, <1>2, <1>3, TwoAreRivals DEF Scene

(* A step of node x: the other node, if there is one, stands as it stood.    *)
LEMMA Assembled ==
  ASSUME AtMostTwo, NEW x \in Node, Unharmed', \A n \in Node : Solo(n)',
         \A y \in Node : x # y => Duo(x, y)'
  PROVE  OneAtATime'
<1>1. ASSUME NEW m \in Node, NEW n \in Node, m # n PROVE Duo(m, n)'
  <2>1. CASE m = x
    BY <1>1, <2>1
  <2>2. CASE n = x
    <3>1. Duo(x, m)'
      BY <1>1, <2>2
    <3> QED BY <2>2, <3>1, BothSwap DEF Duo
  <2> QED BY <1>1, <2>1, <2>2 DEF AtMostTwo
<1> QED BY <1>1 DEF OneAtATime
-----------------------------------------------------------------------------
(* The steps of a node.                                                      *)

(* No node is alone.                                                         *)
Accompanied == \A m \in Node : \E n \in Node : m # n

(* A node goes on as r and says what r has to say.                           *)
LEMMA CommitStep ==
  ASSUME TypeOK, OneAtATime, AtMostTwo, MaxDelay = 0, NEW x \in Node, NEW r \in Election,
         Commit(x, r), UNCHANGED <<power, canServe, split, left>>, Alive(x),
         Facing(x, r, power[x]), ToStop(r, canServe[x]),
         \A y \in Node : x # y =>
            /\ InOrder(r.queue, net[y][x])
            /\ Goes(x, y, r, Kinds(r.queue) \cup Types(net[y][x]) \cup Marks(canServe[x]),
                    st[y], Ahead(x, y), Alive(y))
  PROVE  OneAtATime'
<1> DEFINE e == [r EXCEPT !.out = <<>>]
<1>1. /\ st' = [st EXCEPT ![x] = e] /\ e.queue = r.queue /\ Alike(r, e)
      /\ Facing(x, e, power[x]) /\ ToStop(e, canServe[x])
  BY DEF Commit, Election, Alike, Facing, ToStop
<1> HIDE DEF e
<1>2. st'[x] = e /\ \A y \in Node \ {x} : st'[y] = st[y]
  BY <1>1 DEF TypeOK
<1>3. /\ \A y, z \in Node : y # x => net'[y][z] = net[y][z]
      /\ \A y \in Node : net'[x][y] = IF x # y /\ Alive(y) THEN net[x][y] \o Stamped(r.out)
                                                           ELSE net[x][y]
  BY DEF Commit, Reaches, OneAtATime, Unharmed, TypeOK
<1>4. \A y, z \in Node : net[y][z] \in Seq(InFlight)
  BY DEF TypeOK
<1>5. ASSUME NEW y \in Node, x # y
      PROVE  /\ \A k \in 1..Len(net'[x][y]) : net'[x][y][k].due = 0
             /\ InOrder(st[y].queue, net'[x][y])
             /\ Both(x, y, r, Kinds(r.queue) \cup Types(net[y][x]) \cup Marks(canServe[x]), st[y],
                     Kinds(st[y].queue) \cup Types(net'[x][y]) \cup Marks(canServe[y] \/ ~Alive(y)),
                     TRUE, Alive(y))
  <2> DEFINE c == net[x][y]
             q == st[y].queue
             g == Kinds(r.queue) \cup Types(net[y][x]) \cup Marks(canServe[x])
             w == Marks(canServe[y] \/ ~Alive(y))
  <2>1. /\ c \in Seq(InFlight) /\ InOrder(q, c) /\ \A k \in 1..Len(c) : c[k].due = 0
        /\ Ahead(x, y) = Kinds(q) \cup Types(c) \cup w
    BY <1>4, <1>5 DEF OneAtATime, Unharmed, Duo, Ahead
  <2>2. CASE r.out = <<>> /\ Both(x, y, r, g, st[y], Ahead(x, y), TRUE, Alive(y))
    <3>1. net'[x][y] = c
      BY <1>3, <2>1, <2>2, SilentNet
    <3> QED BY <2>1, <2>2, <3>1
  <2>3. CASE \E d \in Datagram : \E l :
                /\ r.out = <<d>> /\ Told(d, Ahead(x, y), l, Alive(y))
                /\ Both(x, y, r, g, st[y], l, TRUE, Alive(y))
                /\ d \in Word => "RESIGN" \notin Ahead(x, y)
    <3>1. PICK d \in Datagram : \E l :
                /\ r.out = <<d>> /\ Told(d, Ahead(x, y), l, Alive(y))
                /\ Both(x, y, r, g, st[y], l, TRUE, Alive(y))
                /\ d \in Word => "RESIGN" \notin Ahead(x, y)
      BY <2>3
    <3>2. PICK l :
                /\ r.out = <<d>> /\ Told(d, Ahead(x, y), l, Alive(y))
                /\ Both(x, y, r, g, st[y], l, TRUE, Alive(y))
                /\ d \in Word => "RESIGN" \notin Ahead(x, y)
      BY <3>1
    <3>3. CASE ~Alive(y)
      <4>1. net'[x][y] = c /\ l = Ahead(x, y)
        BY <1>3, <3>2, <3>3 DEF Told
      <4> QED BY <2>1, <3>2, <4>1
    <3>4. CASE Alive(y)
      <4> DEFINE z == c \o Stamped(<<d>>)
      <4>1. net'[x][y] = z /\ l = Ahead(x, y) \cup {d}
        BY <1>3, <1>5, <3>2, <3>4 DEF Told
      <4>2. Types(z) = Types(c) \cup {d} /\ InOrder(q, z)
        BY <2>1, <3>2, SaidTypes, SaidInOrder
      <4>3. \A k \in 1..Len(z) : z[k].due = 0
        <5>1. /\ Len(c) \in Nat /\ Len(z) = Len(c) + 1 /\ z[Len(c) + 1].due = 0
              /\ \A k \in 1..Len(c) : z[k] = c[k]
          BY <2>1, SaidOnNet
        <5> HIDE DEF z
        <5>2. \A k \in 1..Len(z) : k \in 1..Len(c) \/ k = Len(c) + 1
          BY <5>1
        <5> QED BY <2>1, <5>1, <5>2
      <4> HIDE DEF z
      <4>4. l = Kinds(q) \cup Types(z) \cup w
        <5> HIDE DEF w, q, c
        <5> QED BY <2>1, <4>1, <4>2
      <4> QED BY <3>2, <4>1, <4>2, <4>3, <4>4
    <3> QED BY <3>3, <3>4
  <2> QED BY <1>5, <2>2, <2>3 DEF Goes
<1>6. Unharmed'
  <2> SUFFICES ASSUME NEW y \in Node, NEW z \in Node, NEW k \in 1..Len(net'[y][z])
               PROVE  net'[y][z][k].due = 0
    BY DEF OneAtATime, Unharmed
  <2>1. CASE y = x /\ z # x
    BY <1>5, <2>1
  <2>2. CASE y # x \/ z = x
    <3>1. net'[y][z] = net[y][z]
      BY <1>3, <2>2
    <3> QED BY <3>1 DEF OneAtATime, Unharmed
  <2> QED BY <2>1, <2>2
<1>7. ASSUME NEW n \in Node PROVE Solo(n)'
  <2>1. net'[n][n] = <<>>
    BY <1>3 DEF OneAtATime, Solo
  <2>2. CASE n = x
    <3>1. power[n] # "off"
      BY <2>2 DEF Alive
    <3> QED BY <1>1, <1>2, <2>1, <2>2, <3>1 DEF OneAtATime, Solo
  <2>3. CASE n # x
    BY <1>2, <2>1, <2>3 DEF OneAtATime, Solo
  <2> QED BY <2>2, <2>3
<1>8. ASSUME NEW y \in Node, x # y PROVE Duo(x, y)'
  <2>1. Alive(x)' = TRUE /\ Alive(y)' = Alive(y)
    BY DEF Alive
  <2>2. st'[y] = st[y] /\ net'[y][x] = net[y][x] /\ InOrder(e.queue, net[y][x])
    BY <1>1, <1>2, <1>3, <1>8
  <2>3. /\ Ahead(y, x)' = Kinds(r.queue) \cup Types(net[y][x]) \cup Marks(canServe[x])
        /\ Ahead(x, y)' = Kinds(st[y].queue) \cup Types(net'[x][y])
                             \cup Marks(canServe[y] \/ ~Alive(y))
    <3>1. (canServe[x] \/ ~Alive(x)) = canServe[x] /\ canServe' = canServe
      BY DEF TypeOK
    <3> QED BY <1>1, <1>2, <2>1, <2>2, <3>1 DEF Ahead
  <2>4. Both(x, y, e, Ahead(y, x)', st[y], Ahead(x, y)', TRUE, Alive(y))
    BY <1>1, <1>5, <1>8, <2>3, AlikeBoth
  <2> QED BY <1>2, <1>5, <1>8, <2>1, <2>2, <2>4 DEF Duo
<1> QED BY <1>6, <1>7, <1>8, Assembled

(* A node runs the head of its queue.                                        *)
LEMMA RunStep ==
  ASSUME TypeOK, Undisturbed, OneAtATime, AtMostTwo, OneRanking, Calm, Paced, Accompanied,
         NEW x \in Node, Run(x)
  PROVE  OneAtATime'
<1> DEFINE q == st[x].queue
           i == Head(q)
           s == [st[x] EXCEPT !.queue = Tail(@)]
<1>1. /\ q \in Seq(Item) /\ q # <<>> /\ st[x] \in Election /\ canServe[x] \in BOOLEAN /\ Alive(x)
      /\ st[x].task.op = "none" /\ Attended(st[x], power[x]) /\ Facing(x, st[x], power[x])
  BY DEF Run, TypeOK, Election, Undisturbed, OneAtATime, Solo
<1>2. /\ i \in Item /\ i = q[1] /\ Tail(q) \in Seq(Item)
      /\ Len(q) \in Nat /\ Len(q) > 0 /\ Len(Tail(q)) = Len(q) - 1
      /\ \A k \in 1..Len(Tail(q)) : Tail(q)[k] = q[k + 1] /\ k + 1 \in 1..Len(q)
  BY <1>1, HeadTailProperties, EmptySeq
<1>3. /\ s \in Election /\ s.queue = Tail(q) /\ s.role = st[x].role /\ s.gate = st[x].gate
      /\ s.task = st[x].task /\ s.running = st[x].running /\ s.timer = st[x].timer
      /\ s.out = st[x].out /\ Alike(st[x], s)
      /\ s.target = st[x].target /\ s.holder = st[x].holder /\ s.slept = st[x].slept
  BY <1>1, <1>2 DEF Election, Alike
<1>4. PICK r \in Outcomes(x, s, canServe[x], i) : Commit(x, r)
  BY <1>1 DEF Run
<1>5. UNCHANGED <<power, canServe, split, left>>
  BY DEF Run
<1> HIDE DEF s, i
<1>6. Ready(s)
  <2>1. Tenured(s)
    BY <1>1, <1>3 DEF Attended, Tenured
  <2>2. NoReprobe(s)
    BY <1>1, <1>2, <1>3 DEF Attended, NoReprobe
  <2> QED BY <1>1, <1>3, <2>1, <2>2 DEF Ready, Attended
<1>7. /\ i.kind \notin {"reprobe", "conflict", "wake"}
      /\ i.kind = "boot" => s.role = "stopped"
      /\ i.kind = "stop" => s.timer["watchdog"] = Off
      /\ i.kind \in Datagram => i.from \in Node \ {x}
  <2>1. i = q[1] /\ 1 \in 1..Len(q)
    BY <1>2
  <2> QED BY <1>1, <1>3, <2>1 DEF Attended, NoReprobe, Facing, Addressed
<1>8. r \in Election /\ r.queue = Tail(q)
  <2>1. r \in Election
    BY <1>1, <1>2, <1>3, <1>4, OutcomesType
  <2>2. Sound(s, r)
    BY <1>1, <1>2, <1>4, <1>6, <1>7, OutcomesSound
  <2> QED BY <1>3, <2>1, <2>2 DEF Sound
<1>9. Facing(x, s, power[x])
  <2>1. Addressed(x, Tail(q), s.timer["watchdog"])
    BY <1>1, <1>2, <1>3 DEF Facing, Addressed
  <2> QED BY <1>1, <1>3, <2>1 DEF Facing
<1>10. ASSUME NEW y \in Node, x # y
       PROVE  /\ InOrder(r.queue, net[y][x])
              /\ Goes(x, y, r, Kinds(r.queue) \cup Types(net[y][x]) \cup Marks(canServe[x]),
                      st[y], Ahead(x, y), Alive(y))
              /\ Facing(x, r, power[x]) /\ ToStop(r, canServe[x])
  <2> DEFINE c == net[y][x]
             h == Ahead(y, x)
             w == Marks(canServe[x])
             g == Kinds(Tail(q)) \cup Types(c) \cup w
  <2>1. /\ c \in Seq(InFlight) /\ InOrder(q, c) /\ h = Kinds(q) \cup Types(c) \cup w
        /\ w \in SUBSET {"withdrawn"} /\ (canServe[x] \/ "withdrawn" \in h)
    <3>1. (canServe[x] \/ ~Alive(x)) = canServe[x]
      BY <1>1
    <3> QED BY <1>10, <3>1 DEF TypeOK, OneAtATime, Duo, Ahead, Marks
  <2>2. InOrder(Tail(q), c)
    BY <1>1, <2>1, TailInOrder
  <2>3. Turn(s, h, i.kind, g)
    BY <1>1, <1>3, <2>1, TurnOfHead DEF i
  <2>4. Scene(x, y, st[x], h, st[y], Ahead(x, y), Alive(y))
    BY <1>1, <1>10, Setting
  <2>5. Scene(x, y, s, h, st[y], Ahead(x, y), Alive(y))
    BY <1>3, <2>4, AlikeBoth, TimersAreCounted DEF Scene
  <2>6. Running(s)
    BY <1>1, <1>3 DEF Running, Attended
  <2>7. Acts(x, y, s, h, st[y], Ahead(x, y), Alive(y), i.kind, g, power[x])
    BY <1>9, <2>3, <2>5, <2>6, PeriodsAreSteady DEF Acts
  <2>8. i.kind \in Datagram => i.from = y
    BY <1>7, <1>10 DEF AtMostTwo
  <2>9. MaxStart = 0
    BY DEF Calm
  <2> HIDE DEF c, h, g, w
  <2>10. Goes(x, y, r, g, st[y], Ahead(x, y), Alive(y)) /\ Facing(x, r, power[x])
    BY <1>1, <1>2, <1>4, <1>7, <2>1, <2>7, <2>8, <2>9, OutcomesGo
  <2>11. ToStop(r, canServe[x])
    <3> SUFFICES ASSUME ~canServe[x], r.task.op = "stop", r.task.then = "standby"
                 PROVE  "stop" \in Kinds(Tail(q))
      BY <1>8 DEF ToStop
    <3>1. s.role = "master" => s.running
      BY <1>1, <1>3 DEF Facing
    <3>2. s.role = "master" /\ i.kind # "stop"
      BY <1>1, <1>2, <1>4, <1>7, <2>6, <3>1, HoldersStop
    <3>3. "stop" \in h
      BY <2>1, <2>5, <2>6, <3>2 DEF Scene, Both, Own, Running
    <3>4. "stop" \notin Types(c)
      BY <1>1, <2>1, NoMarkQueued DEF Datagram
    <3> QED BY <1>1, <2>1, <3>2, <3>3, <3>4, TailKinds DEF i
  <2> QED BY <1>8, <2>2, <2>10, <2>11 DEF c, g, w
<1>11. Facing(x, r, power[x]) /\ ToStop(r, canServe[x])
  BY <1>10 DEF Accompanied
<1> QED BY <1>1, <1>4, <1>5, <1>8, <1>10, <1>11, CommitStep DEF Calm

(* The consumer of a node has started or stopped.                            *)
LEMMA FinishStep ==
  ASSUME TypeOK, Undisturbed, OneAtATime, AtMostTwo, OneRanking, Calm, Paced,
         NEW x \in Node, FinishStart(x) \/ FinishStop(x)
  PROVE  OneAtATime'
<1> DEFINE s == st[x]
           j == s.task
<1>1. /\ s \in Election /\ j \in Task /\ Alive(x) /\ Attended(s, power[x])
      /\ Facing(x, s, power[x]) /\ s.out = <<>>
      /\ canServe[x] \in BOOLEAN /\ ToStop(s, canServe[x])
  BY DEF TypeOK, Election, Undisturbed, OneAtATime, Solo, FinishStart, FinishStop, Attended
<1>2. UNCHANGED <<power, canServe, split, left>>
  BY DEF FinishStart, FinishStop
<1>3. ASSUME NEW y \in Node, x # y
      PROVE  /\ InOrder(s.queue, net[y][x])
             /\ Ahead(y, x) = Kinds(s.queue) \cup Types(net[y][x]) \cup Marks(canServe[x])
             /\ Scene(x, y, s, Ahead(y, x), st[y], Ahead(x, y), Alive(y)) /\ Steady
             /\ s.queue \in Seq(Item) /\ net[y][x] \in Seq(InFlight)
  <2>1. (canServe[x] \/ ~Alive(x)) = canServe[x]
    BY <1>1
  <2>2. s.queue \in Seq(Item) /\ net[y][x] \in Seq(InFlight)
    BY DEF TypeOK, Election
  <2>3. InOrder(s.queue, net[y][x])
    BY <1>3 DEF OneAtATime, Duo
  <2> QED BY <1>1, <1>3, <2>1, <2>2, <2>3, Setting, PeriodsAreSteady DEF Ahead
<1>4. CASE FinishStart(x)
  <2>1. PICK reads \in BOOLEAN : Commit(x, ConsumerStarted(s, reads))
    BY <1>4 DEF FinishStart
  <2> DEFINE r == ConsumerStarted(s, reads)
  <2>2. s.task.op = "start"
    BY <1>4 DEF FinishStart
  <2>3. r \in Election /\ r.queue = s.queue
    BY <1>1, <2>2, ConsumerStartedType, ConsumerStartedSound DEF Attended, Sound
  <2>4. /\ Mark(r, s.role, s.heard, s.claimed, "none", 0)
        /\ Dials(r, s.timer["probe"], s.timer["election"], s.timer["settle"],
                 s.timer["handoff"], HeartbeatPeriod, s.timer["watchdog"])
        /\ r.out = <<"HEARTBEAT">> /\ Facing(x, r, power[x])
    BY <1>1, <2>2, StartedView DEF Faces
  <2>8. ToStop(r, canServe[x])
    BY <2>4 DEF Mark, ToStop
  <2>5. Commit(x, r)
    BY <2>1
  <2> HIDE DEF r, s
  <2>6. ASSUME NEW y \in Node, x # y
        PROVE  Goes(x, y, r, Ahead(y, x), st[y], Ahead(x, y), Alive(y))
    <3>1. ASSUME NEW l, Told("HEARTBEAT", Ahead(x, y), l, Alive(y))
          PROVE  Both(x, y, r, Ahead(y, x), st[y], l, TRUE, Alive(y)) /\ "RESIGN" \notin Ahead(x, y)
      BY <1>3, <2>2, <2>4, <2>6, <3>1, StartedMove
    <3>2. "HEARTBEAT" \in Datagram
      BY DEF Datagram
    <3> QED BY <2>4, <3>1, <3>2, SaysOne
  <2>7. ASSUME NEW y \in Node, x # y
        PROVE  /\ InOrder(r.queue, net[y][x])
               /\ Goes(x, y, r, Kinds(r.queue) \cup Types(net[y][x]) \cup Marks(canServe[x]),
                       st[y], Ahead(x, y), Alive(y))
    BY <1>3, <2>3, <2>6, <2>7
  <2> QED BY <1>1, <1>2, <2>3, <2>4, <2>5, <2>7, <2>8, CommitStep DEF Calm
<1>5. CASE FinishStop(x)
  <2> DEFINE r == Resign(s, j.next, j.then, "off")
  <2>1. Commit(x, r)
    BY <1>5 DEF FinishStop, Calm
  <2>2. s.task.op = "stop"
    BY <1>5 DEF FinishStop
  <2>3. j.next \in Peer /\ j.then \in Continuation \ {"reprobe"}
    BY <1>1 DEF Task, Peer, Attended, NoReprobe
  <2>4. r \in Election /\ r.queue = s.queue
    BY <1>1, <2>3, ResignType, ResignSound DEF Gate, Attended, Sound
  <2>5. /\ \/ /\ Mark(r, "standby", 0, s.claimed, "none", 0) /\ Quiet(r, s)
              /\ s.task.then = "standby"
           \/ /\ Mark(r, "stopped", 0, s.claimed, "none", 0)
              /\ s.timer["watchdog"] = Off /\ Dials(r, Off, Off, Off, Off, Off, Off)
        /\ r.out = <<"RESIGN">> /\ Facing(x, r, power[x])
    <3>1. Resigned(s, r)
      BY DEF Resigned
    <3> HIDE DEF r, s, j
    <3> QED BY <1>1, <2>2, <3>1, ResignView
  <2>8. ToStop(r, canServe[x])
    BY <2>5 DEF Mark, ToStop
  <2> HIDE DEF r, s
  <2>6. ASSUME NEW y \in Node, x # y
        PROVE  Goes(x, y, r, Ahead(y, x), st[y], Ahead(x, y), Alive(y))
    <3>3. s.task.then = "standby" /\ "withdrawn" \in Ahead(y, x) => "stop" \in Ahead(y, x)
      <4>1. "withdrawn" \in Ahead(y, x) => ~canServe[x]
        BY <1>1, <1>3, <2>6, NoMarkQueued DEF Marks
      <4> QED BY <1>1, <1>3, <2>2, <2>6, <4>1 DEF ToStop
    <3>1. ASSUME NEW l, Told("RESIGN", Ahead(x, y), l, Alive(y))
          PROVE  Both(x, y, r, Ahead(y, x), st[y], l, TRUE, Alive(y)) /\ "RESIGN" \notin Ahead(x, y)
      BY <1>3, <2>2, <2>5, <2>6, <3>1, <3>3, ResignMove
    <3>2. "RESIGN" \in Datagram
      BY DEF Datagram
    <3> QED BY <2>5, <3>1, <3>2, SaysOne
  <2>7. ASSUME NEW y \in Node, x # y
        PROVE  /\ InOrder(r.queue, net[y][x])
               /\ Goes(x, y, r, Kinds(r.queue) \cup Types(net[y][x]) \cup Marks(canServe[x]),
                       st[y], Ahead(x, y), Alive(y))
    BY <1>3, <2>4, <2>6, <2>7
  <2> QED BY <1>1, <1>2, <2>1, <2>4, <2>5, <2>7, <2>8, CommitStep DEF Calm
<1> QED BY <1>4, <1>5

(* What is then ahead of x, which goes on as r.                              *)
Coming(x, y, r) ==
    Kinds(r.queue) \cup Types(net'[y][x])
    \cup Marks(canServe'[x] \/ power'[x] \notin {"on", "leaving"})

(* Node x goes on as r, and nothing is said.                                 *)
LEMMA SilentStep ==
  ASSUME TypeOK, OneAtATime, AtMostTwo, NEW x \in Node, NEW r,
         st'[x] = r, \A y \in Node \ {x} : st'[y] = st[y] /\ power'[y] = power[y],
         \A y \in Node : \A z \in Node \ {x} : net'[y][z] = net[y][z],
         net'[x][x] = <<>>, \A y \in Node : \A k \in 1..Len(net'[y][x]) : net'[y][x][k].due = 0,
         \A y \in Node \ {x} : canServe'[y] = canServe[y],
         power'[x] = "on" => canServe'[x], ToStop(r, canServe'[x]), split' = {},
         \A f \in Fault \ {"boot", "shutdown", "withdraw"} : left'[f] = 0,
         power'[x] # "asleep", Facing(x, r, power'[x]), power'[x] = "off" => r = NewElection,
         \A y \in Node : x # y =>
            /\ InOrder(r.queue, net'[y][x])
            /\ Both(x, y, r, Coming(x, y, r), st[y], Ahead(x, y),
                    power'[x] \in {"on", "leaving"}, Alive(y))
  PROVE  OneAtATime'
<1>1. Unharmed'
  BY DEF OneAtATime, Unharmed
<1>2. ASSUME NEW n \in Node PROVE Solo(n)'
  BY DEF OneAtATime, Solo
<1>3. ASSUME NEW y \in Node, x # y PROVE Duo(x, y)'
  <2>1. Alive(x)' = (power'[x] \in {"on", "leaving"}) /\ Alive(y)' = Alive(y)
    BY <1>3 DEF Alive
  <2>2. st'[y] = st[y] /\ net'[x][y] = net[x][y] /\ InOrder(st[y].queue, net[x][y])
    BY <1>3 DEF OneAtATime, Duo
  <2>3. /\ Ahead(y, x)' = Coming(x, y, r)
        /\ Ahead(x, y)' = Ahead(x, y)
    BY <1>3, <2>1, <2>2 DEF Ahead, Coming, Alive
  <2> QED BY <1>3, <2>1, <2>2, <2>3 DEF Duo
<1> QED BY <1>1, <1>2, <1>3, Assembled

(* A datagram comes from another node.                                       *)
LEMMA ReceiveStep ==
  ASSUME TypeOK, OneAtATime, AtMostTwo, NEW m \in Node, NEW x \in Node, Receive(m, x),
         canServe[x]
  PROVE  OneAtATime'
<1> DEFINE c == net[m][x]
           i == FromPeer(Head(c).type, m)
           r == Enqueue(st[x], i)
           q == st[x].queue
<1>1. /\ c \in Seq(InFlight) /\ c # <<>> /\ st[x] \in Election /\ q \in Seq(Item)
      /\ Alive(x) /\ m # x
  BY DEF Receive, TypeOK, Election, OneAtATime, Solo
<1>2. Head(c) \in InFlight /\ Tail(c) \in Seq(InFlight)
  BY <1>1, HeadTailProperties
<1>3. i \in Item /\ i.kind = Head(c).type /\ i.kind \in Datagram /\ i.from = m
  BY <1>2 DEF FromPeer, Item, InFlight, Handoff
<1>4. /\ st' = [st EXCEPT ![x] = r] /\ net' = [net EXCEPT ![m][x] = Tail(c)]
      /\ UNCHANGED <<power, canServe, split, left>>
  BY <1>1 DEF Receive
<1> HIDE DEF i
<1>5. /\ r.queue = Append(q, i) /\ Alike(st[x], r)
      /\ r.target = st[x].target /\ r.holder = st[x].holder /\ r.slept = st[x].slept
      /\ r.running = st[x].running
  BY <1>1 DEF Enqueue, Election, Alike
<1> HIDE DEF r
<1>6. Facing(x, r, power[x])
  <2>1. Facing(x, st[x], power[x])
    BY DEF OneAtATime, Solo
  <2>2. Addressed(x, r.queue, r.timer["watchdog"])
    <3>1. /\ Len(r.queue) = Len(q) + 1 /\ Len(q) \in Nat /\ r.queue[Len(q) + 1] = i
          /\ \A k \in 1..Len(q) : r.queue[k] = q[k]
      BY <1>1, <1>3, <1>5, AppendProperties, LenProperties
    <3>2. \A k \in 1..Len(r.queue) : k \in 1..Len(q) \/ r.queue[k] = i
      BY <3>1
    <3>3. i.kind # "wake" /\ i.kind # "stop" /\ i.from \in Node \ {x}
      BY <1>1, <1>3 DEF Datagram
    <3> QED BY <1>5, <2>1, <3>1, <3>2, <3>3 DEF Facing, Addressed, Alike
  <2> QED BY <1>5, <2>1, <2>2 DEF Facing, Alike
<1>7. /\ st'[x] = r /\ \A y \in Node \ {x} : st'[y] = st[y] /\ power'[y] = power[y]
      /\ \A y \in Node : \A z \in Node \ {x} : net'[y][z] = net[y][z]
      /\ net'[m][x] = Tail(c) /\ net'[x][x] = net[x][x]
      /\ \A y \in Node \ {m} : net'[y][x] = net[y][x]
  BY <1>1, <1>4 DEF TypeOK
<1>8. ASSUME NEW y \in Node, NEW k \in 1..Len(net'[y][x]) PROVE net'[y][x][k].due = 0
  <2>1. CASE y = m
    <3>1. /\ Len(Tail(c)) = Len(c) - 1 /\ Len(c) \in Nat
          /\ \A j \in 1..Len(Tail(c)) : Tail(c)[j] = c[j + 1] /\ j + 1 \in 1..Len(c)
      BY <1>1, HeadTailProperties, LenProperties
    <3>2. \A j \in 1..Len(Tail(c)) : Tail(c)[j].due = 0
      BY <3>1 DEF OneAtATime, Unharmed
    <3> QED BY <1>7, <2>1, <3>2
  <2>2. CASE y # m
    BY <1>7, <2>2 DEF OneAtATime, Unharmed
  <2> QED BY <2>1, <2>2
<1>9. ASSUME NEW y \in Node, x # y
      PROVE  /\ InOrder(r.queue, net'[y][x])
             /\ Both(x, y, r, Coming(x, y, r), st[y], Ahead(x, y),
                     power'[x] \in {"on", "leaving"}, Alive(y))
  <2>1. y = m
    BY <1>1, <1>9 DEF AtMostTwo
  <2>2. InOrder(q, c) /\ Both(x, y, st[x], Ahead(y, x), st[y], Ahead(x, y), Alive(x), Alive(y))
    BY <1>9, <2>1 DEF OneAtATime, Duo
  <2>3. InOrder(r.queue, net'[y][x])
    BY <1>1, <1>3, <1>5, <1>7, <2>1, <2>2, ReceiveInOrder
  <2>4. Coming(x, y, r) = Ahead(y, x)
    <3>2. canServe' = canServe /\ power' = power
      BY <1>4
    <3>1. Kinds(r.queue) = Kinds(q) \cup {i.kind} /\ Types(c) = Types(Tail(c)) \cup {i.kind}
      BY <1>1, <1>3, <1>5, AppendKinds, TailTypes
    <3> QED BY <1>7, <2>1, <3>1, <3>2 DEF Ahead, Coming, Alive
  <2>5. Alive(x) = (power'[x] \in {"on", "leaving"})
    BY <1>4 DEF Alive
  <2> QED BY <1>5, <2>2, <2>3, <2>4, <2>5, AlikeBoth
<1>10. net'[x][x] = <<>> /\ power'[x] # "asleep" /\ power'[x] # "off"
  BY <1>1, <1>4, <1>7 DEF OneAtATime, Solo, Alive
<1>11. /\ \A y \in Node \ {x} : canServe'[y] = canServe[y]
       /\ canServe'[x] /\ ToStop(r, canServe'[x]) /\ split' = {} /\ \A f \in Fault \ {"boot", "shutdown", "withdraw"} : left'[f] = 0
  BY <1>4 DEF OneAtATime, Unharmed, ToStop
<1> QED BY <1>4, <1>6, <1>7, <1>8, <1>9, <1>10, <1>11, SilentStep

(* A withdrawn node lets a datagram fall.                                    *)
LEMMA DropStep ==
  ASSUME TypeOK, OneAtATime, AtMostTwo, OneRanking, Paced, NEW m \in Node, NEW x \in Node,
         Receive(m, x), ~canServe[x]
  PROVE  OneAtATime'
<1> DEFINE c == net[m][x]
           r == st[x]
           q == st[x].queue
<1>1. /\ c \in Seq(InFlight) /\ c # <<>> /\ st[x] \in Election /\ q \in Seq(Item)
      /\ Alive(x) /\ m # x
  BY DEF Receive, TypeOK, Election, OneAtATime, Solo
<1>2. /\ st' = st /\ net' = [net EXCEPT ![m][x] = Tail(c)]
      /\ UNCHANGED <<power, canServe, split, left>>
  BY DEF Receive
<1>3. /\ \A y \in Node : \A z \in Node \ {x} : net'[y][z] = net[y][z]
      /\ net'[m][x] = Tail(c) /\ net'[x][x] = net[x][x]
      /\ \A y \in Node \ {m} : net'[y][x] = net[y][x]
  BY <1>1, <1>2 DEF TypeOK
<1>4. ASSUME NEW y \in Node, NEW k \in 1..Len(net'[y][x]) PROVE net'[y][x][k].due = 0
  <2>1. CASE y = m
    <3>1. /\ Len(Tail(c)) = Len(c) - 1 /\ Len(c) \in Nat
          /\ \A j \in 1..Len(Tail(c)) : Tail(c)[j] = c[j + 1] /\ j + 1 \in 1..Len(c)
      BY <1>1, HeadTailProperties, LenProperties
    <3>2. \A j \in 1..Len(Tail(c)) : Tail(c)[j].due = 0
      BY <3>1 DEF OneAtATime, Unharmed
    <3> QED BY <1>3, <2>1, <3>2
  <2>2. CASE y # m
    BY <1>3, <2>2 DEF OneAtATime, Unharmed
  <2> QED BY <2>1, <2>2
<1>5. ASSUME NEW y \in Node, x # y
      PROVE  /\ InOrder(r.queue, net'[y][x])
             /\ Both(x, y, r, Coming(x, y, r), st[y], Ahead(x, y),
                     power'[x] \in {"on", "leaving"}, Alive(y))
  <2> DEFINE g == Coming(x, y, r)
             h == Ahead(y, x)
             k == Ahead(x, y)
  <2>1. y = m
    BY <1>1, <1>5 DEF AtMostTwo
  <2>2. InOrder(q, c)
    BY <1>5, <2>1 DEF OneAtATime, Duo
  <2>3. InOrder(r.queue, net'[y][x])
    BY <1>1, <1>3, <2>1, <2>2, DropInOrder
  <2>4. Scene(x, y, st[x], h, st[y], k, Alive(y)) /\ Steady
    BY <1>1, <1>5, Setting, PeriodsAreSteady
  <2>5. Dropped(h, g)
    <3>1. /\ h = Kinds(q) \cup Types(c) \cup {"withdrawn"}
          /\ g = Kinds(q) \cup Types(Tail(c)) \cup {"withdrawn"}
      BY <1>1, <1>2, <1>3, <2>1 DEF Ahead, Coming, Marks, Alive
    <3>2. Types(c) = Types(Tail(c)) \cup {Head(c).type} /\ Types(c) \subseteq Datagram
      BY <1>1, TailTypes, NoMarkQueued
    <3> HIDE DEF g, h, q, c
    <3> QED BY <3>1, <3>2 DEF Dropped
  <2>6. (power'[x] \in {"on", "leaving"}) = TRUE
    BY <1>1, <1>2 DEF Alive
  <2> HIDE DEF g, h, k
  <2>7. Both(x, y, st[x], g, st[y], k, TRUE, Alive(y))
    BY <2>4, <2>5, DropMove
  <2> QED BY <2>3, <2>6, <2>7 DEF g, k
<1>6. /\ net'[x][x] = <<>> /\ power'[x] # "asleep" /\ power'[x] # "off"
      /\ Facing(x, r, power'[x]) /\ ToStop(r, canServe'[x]) /\ power'[x] # "on"
  BY <1>1, <1>2, <1>3 DEF OneAtATime, Solo, Alive
<1>7. /\ \A y \in Node \ {x} : /\ canServe'[y] = canServe[y]
                              /\ st'[y] = st[y] /\ power'[y] = power[y]
      /\ st'[x] = r /\ split' = {}
      /\ \A f \in Fault \ {"boot", "shutdown", "withdraw"} : left'[f] = 0
  BY <1>2 DEF OneAtATime, Unharmed
<1> QED BY <1>3, <1>4, <1>5, <1>6, <1>7, SilentStep

(* A timer is queued.                                                        *)
LEMMA FireStep ==
  ASSUME TypeOK, Undisturbed, OneAtATime, AtMostTwo, OneRanking, Paced, Accompanied,
         NEW x \in Node, NEW t \in Timer, Fire(x, t)
  PROVE  OneAtATime'
<1> DEFINE s == st[x]
           q == s.queue
           i == Fired(t, s.handoff)
           r == Enqueue(Arm(s, t, Off), i)
<1>1. /\ s \in Election /\ q \in Seq(Item) /\ Alive(x) /\ s.timer[t] = 0
      /\ Attended(s, power[x]) /\ Facing(x, s, power[x])
      /\ canServe[x] \in BOOLEAN /\ ToStop(s, canServe[x]) /\ (power[x] = "on" => canServe[x])
  BY DEF Fire, TypeOK, Election, Undisturbed, OneAtATime, Solo
<1>2. i \in Item /\ i.kind = t
  BY <1>1 DEF Fired, Item, Election
<1>3. st' = [st EXCEPT ![x] = r] /\ UNCHANGED <<power, canServe, net, split, left>>
  <2>1. Arm(s, t, Off).handoff = s.handoff
    BY <1>1 DEF Arm, Election
  <2> QED BY <2>1 DEF Fire
<1> HIDE DEF i
<1>4. /\ r.queue = Append(q, i) /\ r.role = s.role /\ r.heard = s.heard
      /\ r.claimed = s.claimed /\ r.task = s.task
      /\ r.target = s.target /\ r.holder = s.holder /\ r.slept = s.slept
      /\ r.running = s.running
      /\ \A u \in Timer : r.timer[u] = IF u = t THEN Off ELSE s.timer[u]
  BY <1>1 DEF Enqueue, Arm, Election
<1> HIDE DEF r, s
<1>5. ASSUME NEW y \in Node, x # y
      PROVE  /\ Scene(x, y, s, Ahead(y, x), st[y], Ahead(x, y), Alive(y)) /\ Steady
             /\ InOrder(q, net[y][x])
             /\ Ahead(y, x) = Kinds(q) \cup Types(net[y][x]) \cup Marks(canServe[x])
             /\ Own(s, Ahead(y, x), TRUE)
  <2>1. Scene(x, y, s, Ahead(y, x), st[y], Ahead(x, y), Alive(y))
    BY <1>1, <1>5, Setting DEF s
  <2>2. (canServe[x] \/ ~Alive(x)) = canServe[x]
    BY <1>1
  <2> QED BY <1>5, <2>1, <2>2, PeriodsAreSteady DEF OneAtATime, Duo, Ahead, s, Scene, Both
<1>6. t \in {"probe", "election", "settle", "handoff", "candidacy", "heartbeat", "yield"}
  <2>1. s.timer["reprobe"] # 0
    BY <1>1 DEF Attended, NoReprobe, Off
  <2>2. s.timer["watchdog"] # 0
    BY <1>5 DEF Accompanied, Own, Watched
  <2> QED BY <1>1, <2>1, <2>2 DEF Timer
<1>7. Facing(x, r, power[x])
  <2>1. r.timer["watchdog"] = s.timer["watchdog"]
    BY <1>4, <1>6 DEF Timer
  <2>2. Addressed(x, r.queue, r.timer["watchdog"])
    <3>1. /\ Len(r.queue) = Len(q) + 1 /\ Len(q) \in Nat /\ r.queue[Len(q) + 1] = i
          /\ \A k \in 1..Len(q) : r.queue[k] = q[k]
      BY <1>1, <1>2, <1>4, AppendProperties, LenProperties
    <3>2. \A k \in 1..Len(r.queue) : k \in 1..Len(q) \/ r.queue[k] = i
      BY <3>1
    <3>3. i.kind # "wake" /\ i.kind # "stop" /\ i.kind \notin Datagram
      BY <1>2, <1>6 DEF Datagram
    <3> QED BY <1>1, <2>1, <3>1, <3>2, <3>3 DEF Facing, Addressed
  <2> QED BY <1>1, <1>4, <2>1, <2>2 DEF Facing
<1>8. /\ st'[x] = r /\ \A y \in Node \ {x} : st'[y] = st[y] /\ power'[y] = power[y]
      /\ net' = net
  BY <1>3 DEF TypeOK
<1>9. ASSUME NEW y \in Node, x # y
      PROVE  /\ InOrder(r.queue, net'[y][x])
             /\ Both(x, y, r, Coming(x, y, r), st[y], Ahead(x, y),
                     power'[x] \in {"on", "leaving"}, Alive(y))
  <2> DEFINE h == Ahead(y, x)
             g == Kinds(r.queue) \cup Types(net[y][x]) \cup Marks(canServe[x])
  <2>1. /\ Scene(x, y, s, h, st[y], Ahead(x, y), Alive(y)) /\ Steady /\ InOrder(q, net[y][x])
        /\ h = Kinds(q) \cup Types(net[y][x]) \cup Marks(canServe[x]) /\ Own(s, h, TRUE)
    BY <1>5, <1>9
  <2>2. Kinds(r.queue) = Kinds(q) \cup {t}
    BY <1>1, <1>2, <1>4, AppendKinds
  <2>3. t \in {"probe", "settle", "handoff"} => t \notin Kinds(q)
    BY <1>1, <2>1 DEF Own, Timed
  <2>4. InOrder(r.queue, net[y][x])
    BY <1>1, <1>2, <1>4, <1>6, <2>1, <2>3, QueuedInOrder DEF Word
  <2>5. Joined(h, t, g) /\ Expired(s, t, r)
    BY <1>4, <2>1, <2>2 DEF Joined, Expired
  <2>6. Mark(r, s.role, s.heard, s.claimed, s.task.op, s.task.left)
    BY <1>4 DEF Mark
  <2>7. (power'[x] \in {"on", "leaving"}) = TRUE
    BY <1>1, <1>3 DEF Alive
  <2> HIDE DEF h, g
  <2>8. Both(x, y, r, g, st[y], Ahead(x, y), TRUE, Alive(y))
    BY <1>1, <1>6, <2>1, <2>5, <2>6, FireMove
  <2>9. g = Coming(x, y, r)
    <3>1. (canServe'[x] \/ power'[x] \notin {"on", "leaving"}) = canServe[x]
      BY <1>1, <1>3, <2>7
    <3> QED BY <1>8, <3>1 DEF g, Coming
  <2> QED BY <1>8, <2>4, <2>7, <2>8, <2>9
<1>10. /\ net'[x][x] = <<>> /\ power'[x] # "asleep" /\ power'[x] # "off"
       /\ \A y \in Node : \A k \in 1..Len(net'[y][x]) : net'[y][x][k].due = 0
  BY <1>1, <1>3 DEF OneAtATime, Solo, Alive, Unharmed
<1>11. /\ \A y \in Node \ {x} : canServe'[y] = canServe[y]
       /\ (power'[x] = "on" => canServe'[x]) /\ split' = {} /\ \A f \in Fault \ {"boot", "shutdown", "withdraw"} : left'[f] = 0
  BY <1>1, <1>3 DEF OneAtATime, Unharmed
<1>12. ToStop(r, canServe'[x])
  BY <1>1, <1>2, <1>3, <1>4, AppendKinds DEF ToStop
<1> QED BY <1>3, <1>7, <1>8, <1>9, <1>10, <1>11, <1>12, SilentStep

(* A node comes while no other is taking over.                               *)
LEMMA BootStep ==
  ASSUME TypeOK, OneAtATime, AtMostTwo, OneRanking, Calm, Paced, NEW x \in Node, Boot(x)
  PROVE  OneAtATime'
<1> DEFINE i == Signalled("boot")
           r == Enqueue(Arm(NewElection, "watchdog", WatchdogPeriod), i)
<1>1. /\ left' = [left EXCEPT !["boot"] = @ - 1] /\ power[x] = "off" /\ ~Alive(x)
      /\ \A m \in Node : ~TakingOver(m)
      /\ power' = [power EXCEPT ![x] = "on"] /\ canServe' = [canServe EXCEPT ![x] = TRUE]
      /\ st' = [st EXCEPT ![x] = r] /\ UNCHANGED <<net, split>>
  BY DEF Boot, Spend, Calm, Alive
<1>2. i.kind = "boot" /\ i \in Item
  BY DEF Signalled, Item, Signal, Handoff
<1>3. /\ r.queue = <<i>> /\ r.role = "stopped" /\ r.heard = Never /\ r.claimed = FALSE
      /\ r.task = NoTask /\ r.running = FALSE
      /\ r.target = NoNode /\ r.holder = NoNode /\ r.slept = 0
      /\ Dials(r, Off, Off, Off, Off, Off, WatchdogPeriod)
  BY DEF Enqueue, Arm, NewElection, Dials, Timer
<1> HIDE DEF i, r
<1>4. Kinds(r.queue) = {"boot"}
  <2>1. <<i>> = Append(<<>>, i) /\ <<>> \in Seq(Item)
    OBVIOUS
  <2> QED BY <1>2, <1>3, <2>1, AppendKinds, EmptyIsSilent
<1>5. Facing(x, r, "on")
  <2>1. Addressed(x, r.queue, r.timer["watchdog"])
    BY <1>2, <1>3 DEF Addressed, Datagram
  <2> QED BY <1>3, <2>1, NodeAssumption DEF Facing, NoTask
<1>6. /\ st'[x] = r /\ power'[x] = "on"
      /\ \A y \in Node \ {x} : st'[y] = st[y] /\ power'[y] = power[y]
      /\ net' = net /\ canServe'[x] = TRUE
      /\ \A y \in Node \ {x} : canServe'[y] = canServe[y]
      /\ split' = {} /\ \A f \in Fault \ {"boot", "shutdown", "withdraw"} : left'[f] = 0
  BY <1>1 DEF TypeOK, OneAtATime, Solo, Unharmed
<1>7. ASSUME NEW y \in Node, x # y
      PROVE  /\ InOrder(r.queue, net'[y][x])
             /\ Both(x, y, r, Coming(x, y, r), st[y], Ahead(x, y),
                     power'[x] \in {"on", "leaving"}, Alive(y))
  <2> DEFINE s == st[x]
             t == st[y]
             h == Ahead(y, x)
             k == Ahead(x, y)
  <2>1. /\ Both(x, y, s, h, t, k, FALSE, Alive(y)) /\ Alive(y) \in BOOLEAN
        /\ s \in Election /\ t \in Election /\ t.queue \in Seq(Item) /\ s.queue \in Seq(Item)
        /\ net[x][y] \in Seq(InFlight) /\ net[y][x] \in Seq(InFlight)
    <3>1. Alive(x) = FALSE /\ Alive(y) \in BOOLEAN
      BY <1>1 DEF Alive
    <3> QED BY <1>7, <3>1 DEF OneAtATime, Duo, TypeOK, Election
  <2>2. net[y][x] = <<>>
    <3>1. h = {}
      BY <2>1 DEF Both, Own, Gone
    <3> QED BY <2>1, <3>1, NothingAhead DEF Ahead
  <2>3. Counted(s) /\ Counted(t) /\ Rivals(x, y) /\ Steady
    BY <1>7, <2>1, TimersAreCounted, TwoAreRivals, PeriodsAreSteady
  <2>4. t.role \in {"stopped", "standby", "master"} /\ t.task.op = "none" /\ k \subseteq Datagram \cup {"withdrawn"}
    <3>1. CASE Alive(y)
      <4>1. t.role \in {"stopped", "standby", "master"} /\ t.task.op = "none" /\ t.queue = <<>>
        BY <1>1, <3>1 DEF TakingOver
      <4>2. Types(net[x][y]) \subseteq Datagram
        BY <2>1, NoMarkQueued
      <4> QED BY <4>1, <4>2, EmptyIsSilent DEF Ahead, Marks
    <3>2. CASE ~Alive(y)
      BY <2>1, <2>3, <3>2 DEF Both, Own, Gone, Tasked, Counted
    <3> QED BY <3>1, <3>2
  <2>5. Mark(r, "stopped", Never, FALSE, "none", 0)
    BY <1>3 DEF Mark, NoTask
  <2>6. \A z : z \in {"boot"} <=> z = "boot"
    OBVIOUS
  <2> HIDE DEF s, t, h, k
  <2>7. Both(x, y, r, {"boot"}, t, k, TRUE, Alive(y))
    BY <1>3, <2>1, <2>3, <2>4, <2>5, <2>6, BootMove
  <2>8. InOrder(r.queue, <<>>)
    <3>1. <<i>> = Append(<<>>, i) /\ <<>> \in Seq(Item)
      OBVIOUS
    <3> QED BY <1>2, <1>3, <3>1, QueuedInOrder, EmptyIsSilent DEF Word
  <2>9. Coming(x, y, r) = {"boot"} /\ (power'[x] \in {"on", "leaving"}) = TRUE
    BY <1>4, <1>6, <2>2, EmptyIsSilent DEF Coming, Marks
  <2> QED BY <1>6, <2>2, <2>7, <2>8, <2>9 DEF t, k
<1>8. /\ net'[x][x] = <<>> /\ power'[x] # "asleep" /\ power'[x] # "off"
      /\ \A y \in Node : \A k \in 1..Len(net'[y][x]) : net'[y][x][k].due = 0
  BY <1>6 DEF OneAtATime, Solo, Unharmed
<1>9. ToStop(r, canServe'[x])
  BY <1>6 DEF ToStop
<1> QED BY <1>5, <1>6, <1>7, <1>8, <1>9, SilentStep

(* A stopped election is dropped.                                            *)
LEMMA ExitStep ==
  ASSUME TypeOK, OneAtATime, AtMostTwo, OneRanking, Paced, NEW x \in Node, Exit(x)
  PROVE  OneAtATime'
<1> DEFINE s == st[x]
           r == NewElection
<1>1. /\ power[x] = "leaving" /\ Alive(x) /\ s.role = "stopped" /\ s.task.op = "none"
      /\ s.queue = <<>> /\ power' = [power EXCEPT ![x] = "off"]
      /\ st' = [st EXCEPT ![x] = r] /\ net' = Discarded(x)
      /\ UNCHANGED <<canServe, split, left>>
  BY DEF Exit, Alive
<1>2. /\ r.queue = <<>> /\ r.role = "stopped" /\ r.heard = Never /\ r.claimed = FALSE
      /\ r.task = NoTask /\ r.running = FALSE
      /\ r.target = NoNode /\ r.holder = NoNode /\ r.slept = 0
      /\ Dials(r, Off, Off, Off, Off, Off, Off)
  BY DEF NewElection, Dials, Timer
<1> HIDE DEF r
<1>3. Facing(x, r, "off")
  BY <1>2, NodeAssumption DEF Facing, NoTask, Addressed
<1>4. /\ st'[x] = r /\ power'[x] = "off"
      /\ \A y \in Node \ {x} : st'[y] = st[y] /\ power'[y] = power[y]
      /\ \A y \in Node : net'[y][x] = <<>> /\ \A z \in Node \ {x} : net'[y][z] = net[y][z]
      /\ \A y \in Node \ {x} : canServe'[y] = canServe[y]
      /\ split' = {} /\ \A f \in Fault \ {"boot", "shutdown", "withdraw"} : left'[f] = 0
  BY <1>1 DEF TypeOK, OneAtATime, Solo, Unharmed, Discarded
<1>5. ASSUME NEW y \in Node, x # y
      PROVE  /\ InOrder(r.queue, net'[y][x])
             /\ Both(x, y, r, Coming(x, y, r), st[y], Ahead(x, y),
                     power'[x] \in {"on", "leaving"}, Alive(y))
  <2> DEFINE h == Ahead(y, x)
             k == Ahead(x, y)
  <2>1. Scene(x, y, s, h, st[y], k, Alive(y)) /\ Steady
    BY <1>1, <1>5, Setting, PeriodsAreSteady
  <2>2. h \subseteq Datagram \cup {"withdrawn"}
    <3>1. net[y][x] \in Seq(InFlight) /\ <<>> \in Seq(Item)
      BY DEF TypeOK
    <3> QED BY <1>1, <3>1, NoMarkQueued, EmptyIsSilent DEF Ahead, Marks
  <2>3. Mark(r, "stopped", Never, FALSE, "none", 0)
    BY <1>2 DEF Mark, NoTask
  <2> HIDE DEF h, k, s
  <2>4. Both(x, y, r, {}, st[y], k, FALSE, Alive(y))
    BY <1>1, <1>2, <2>1, <2>2, <2>3, ExitMove
  <2>5. Coming(x, y, r) = {} /\ (power'[x] \in {"on", "leaving"}) = FALSE
    BY <1>2, <1>4, EmptyIsSilent DEF Coming, Marks
  <2>6. InOrder(r.queue, net'[y][x])
    BY <1>2, <1>4, EmptyIsSilent
  <2> QED BY <2>4, <2>5, <2>6 DEF k
<1>6. \A y \in Node : \A k \in 1..Len(net'[y][x]) : net'[y][x][k].due = 0
  BY <1>4
<1>7. power'[x] = "off" => r = NewElection
  BY DEF r
<1>8. ToStop(r, canServe'[x])
  BY <1>2 DEF ToStop, NoTask
<1> QED BY <1>3, <1>4, <1>5, <1>6, <1>7, <1>8, SilentStep

(* A node is told to leave: it shuts down, or the surface is withdrawn.      *)
LEMMA LeaveStep ==
  ASSUME TypeOK, OneAtATime, AtMostTwo, OneRanking, Paced, NEW x \in Node,
         NEW serves \in BOOLEAN, NEW f \in {"shutdown", "withdraw"}, Spend(f), Leave(x, serves)
  PROVE  OneAtATime'
<1> DEFINE s == st[x]
           q == s.queue
           i == Signalled("stop")
           r == Enqueue(Disarm(s, {"watchdog"}), i)
<1>1. /\ left' = [left EXCEPT ![f] = @ - 1]
      /\ power[x] = "on" /\ Alive(x) /\ s.role # "stopped"
      /\ power' = [power EXCEPT ![x] = "leaving"] /\ canServe' = [canServe EXCEPT ![x] = serves]
      /\ st' = [st EXCEPT ![x] = r] /\ UNCHANGED <<net, split>>
      /\ s \in Election /\ q \in Seq(Item) /\ Facing(x, s, power[x])
      /\ canServe[x]
  BY DEF Leave, Spend, Alive, TypeOK, Election, OneAtATime, Solo
<1>2. i.kind = "stop" /\ i \in Item
  BY DEF Signalled, Item, Signal, Handoff
<1> HIDE DEF i
<1>3. /\ r.queue = Append(q, i) /\ r.role = s.role /\ r.heard = s.heard
      /\ r.claimed = s.claimed /\ r.task = s.task
      /\ r.target = s.target /\ r.holder = s.holder /\ r.slept = s.slept
      /\ r.running = s.running
      /\ Dials(r, s.timer["probe"], s.timer["election"], s.timer["settle"],
               s.timer["handoff"], s.timer["heartbeat"], Off)
  BY <1>1 DEF Enqueue, Disarm, Election, Dials, Timer
<1> HIDE DEF r, s
<1>4. Facing(x, r, "leaving")
  <2>1. r.timer["watchdog"] = Off
    BY <1>3 DEF Dials
  <2>2. Addressed(x, r.queue, Off)
    <3>1. /\ Len(r.queue) = Len(q) + 1 /\ Len(q) \in Nat /\ r.queue[Len(q) + 1] = i
          /\ \A k \in 1..Len(q) : r.queue[k] = q[k]
      BY <1>1, <1>2, <1>3, AppendProperties, LenProperties
    <3>2. \A k \in 1..Len(r.queue) : k \in 1..Len(q) \/ r.queue[k] = i
      BY <3>1
    <3> QED BY <1>1, <1>2, <3>1, <3>2 DEF Facing, Addressed, Datagram
  <2> QED BY <1>1, <1>3, <2>1, <2>2 DEF Facing
<1>5. /\ st'[x] = r /\ power'[x] = "leaving"
      /\ \A y \in Node \ {x} : st'[y] = st[y] /\ power'[y] = power[y]
      /\ net' = net /\ canServe'[x] = serves
      /\ \A y \in Node \ {x} : canServe'[y] = canServe[y]
      /\ split' = {} /\ \A z \in Fault \ {"boot", "shutdown", "withdraw"} : left'[z] = 0
  BY <1>1 DEF TypeOK, OneAtATime, Solo, Unharmed
<1>6. ASSUME NEW y \in Node, x # y
      PROVE  /\ InOrder(r.queue, net'[y][x])
             /\ Both(x, y, r, Coming(x, y, r), st[y], Ahead(x, y),
                     power'[x] \in {"on", "leaving"}, Alive(y))
  <2> DEFINE h == Ahead(y, x)
             k == Ahead(x, y)
             g == Kinds(r.queue) \cup Types(net[y][x]) \cup Marks(serves)
  <2>1. /\ Scene(x, y, s, h, st[y], k, Alive(y)) /\ Steady
        /\ InOrder(q, net[y][x]) /\ h = Kinds(q) \cup Types(net[y][x])
        /\ net[y][x] \in Seq(InFlight)
    <3>1. Marks(canServe[x] \/ ~Alive(x)) = {}
      BY <1>1 DEF Marks
    <3>2. net[y][x] \in Seq(InFlight)
      BY DEF TypeOK
    <3> QED BY <1>1, <1>6, <3>1, <3>2, Setting, PeriodsAreSteady DEF OneAtATime, Duo, Ahead, s
  <2>2. InOrder(r.queue, net[y][x])
    BY <1>1, <1>2, <1>3, <2>1, QueuedInOrder DEF Word
  <2>3. Parting(h, g)
    <3>1. Kinds(r.queue) = Kinds(q) \cup {"stop"}
      BY <1>1, <1>2, <1>3, AppendKinds
    <3>2. "withdrawn" \notin h
      BY <1>1, <2>1, NoMarkQueued
    <3> QED BY <2>1, <3>1, <3>2 DEF Parting, Marks
  <2>4. Mark(r, s.role, s.heard, s.claimed, s.task.op, s.task.left)
    BY <1>3 DEF Mark
  <2> HIDE DEF h, k, g
  <2>5. Both(x, y, r, g, st[y], k, TRUE, Alive(y))
    BY <1>1, <1>3, <2>1, <2>3, <2>4, LeaveMove
  <2>6. (power'[x] \in {"on", "leaving"}) = TRUE
    BY <1>5
  <2>7. g = Coming(x, y, r)
    <3>1. (canServe'[x] \/ power'[x] \notin {"on", "leaving"}) = serves
      BY <1>5
    <3> QED BY <1>5, <3>1 DEF g, Coming
  <2> QED BY <1>5, <2>2, <2>5, <2>6, <2>7 DEF k
<1>7. /\ net'[x][x] = <<>> /\ power'[x] # "asleep" /\ power'[x] # "off"
      /\ \A y \in Node : \A k \in 1..Len(net'[y][x]) : net'[y][x][k].due = 0
  BY <1>5 DEF OneAtATime, Solo, Unharmed
<1>8. ToStop(r, serves)
  BY <1>1, <1>2, <1>3, AppendKinds DEF ToStop
<1> QED BY <1>4, <1>5, <1>6, <1>7, <1>8, SilentStep

(* A tick of one node: its timers run, and its watchdog may find the holder  *)
(* missing.                                                                  *)
LEMMA NodeTicks ==
  ASSUME NEW n \in Node, NEW s \in Election, NEW p, NEW r, s.slept = 0, r = Elapse(s),
         s.task.op = "none" => s.queue = <<>>, s.task.op # "none" => s.task.left > 0,
         \A t \in Timer : s.timer[t] # 0,
         Tasked(s), Facing(n, s, p), InOrder(s.queue, <<>>), NEW b, ToStop(s, b),
         NEW w \in SUBSET {"withdrawn"}
  PROVE  /\ Ticked(s, Kinds(s.queue) \cup w, r, Kinds(r.queue) \cup w, TRUE)
         /\ Facing(n, r, p) /\ InOrder(r.queue, <<>>) /\ ToStop(r, b)
<1> DEFINE e == s.timer["watchdog"]
           i == Signalled("timeout")
<1>1. /\ r.role = s.role /\ r.claimed = s.claimed /\ r.task.op = s.task.op
      /\ r.task.next = s.task.next /\ r.task.then = s.task.then
      /\ r.task.left = CountDown(s.task.left)
      /\ \A t \in Timer \ {"watchdog"} : r.timer[t] = CountDown(s.timer[t])
      /\ r.timer["watchdog"] = IF CountDown(e) = 0 THEN WatchdogPeriod ELSE CountDown(e)
      /\ r.heard = IF s.heard \in {Never, MasterTimeout} THEN s.heard ELSE s.heard + 1
      /\ r.target = s.target /\ r.holder = s.holder /\ r.slept = s.slept
      /\ r.running = s.running /\ r.out = s.out
  BY ElapseView
<1>2. \/ r.queue = s.queue
      \/ /\ r.queue = Append(s.queue, i) /\ CountDown(e) = 0
         /\ s.role = "standby" /\ r.heard >= MasterTimeout
  BY ElapseView
<1>3. Counted(s) /\ s.queue \in Seq(Item) /\ i \in Item /\ i.kind = "timeout"
  BY TimersAreCounted DEF Election, Signalled, Item, Signal, Handoff
<1>4. /\ \A d \in Int : Down(d, CountDown(d))
      /\ e \in Int /\ e # 0 /\ (CountDown(e) = 0 <=> e = 1) /\ (e = Off => CountDown(e) = Off)
  BY <1>3 DEF Down, CountDown, Counted, Timer, Off
<1> HIDE DEF i
<1>5. /\ Down(s.timer["probe"], r.timer["probe"])
      /\ Down(s.timer["election"], r.timer["election"])
      /\ Down(s.timer["settle"], r.timer["settle"])
      /\ Down(s.timer["handoff"], r.timer["handoff"])
      /\ Down(s.timer["heartbeat"], r.timer["heartbeat"])
      /\ Down(s.task.left, r.task.left)
  BY <1>1, <1>3, <1>4 DEF Counted, Timer
<1>6. /\ e = 1 => r.timer["watchdog"] = WatchdogPeriod
      /\ e # 1 => Down(e, r.timer["watchdog"])
      /\ e = Off => r.timer["watchdog"] = Off
  BY <1>1, <1>4 DEF Off
<1>7. /\ s.timer["probe"] # 0 /\ s.timer["election"] # 0 /\ s.timer["settle"] # 0
      /\ s.timer["handoff"] # 0 /\ s.timer["heartbeat"] # 0
  BY DEF Timer
<1>8. Kinds(Append(s.queue, i)) = Kinds(s.queue) \cup {"timeout"}
  BY <1>3, AppendKinds
<1>9. s.task.op = "none" => Kinds(s.queue) = {}
  BY EmptyIsSilent
<1>10. Ticked(s, Kinds(s.queue) \cup w, r, Kinds(r.queue) \cup w, TRUE)
  <2>1. /\ \A y : y # "timeout" => (y \in Kinds(r.queue) <=> y \in Kinds(s.queue))
        /\ "timeout" \in Kinds(s.queue) => "timeout" \in Kinds(r.queue)
        /\ "timeout" \notin w
        /\ "timeout" \in Kinds(r.queue) =>
              \/ "timeout" \in Kinds(s.queue)
              \/ e = 1 /\ s.role = "standby" /\ r.heard >= MasterTimeout
    BY <1>2, <1>4, <1>8
  <2>2. /\ s.heard # Never /\ s.heard # MasterTimeout => r.heard = s.heard + 1
        /\ s.heard = Never \/ s.heard = MasterTimeout => r.heard = s.heard
    BY <1>1
  <2> QED BY <1>1, <1>3, <1>5, <1>6, <1>7, <1>9, <2>1, <2>2 DEF Ticked
<1>11. Facing(n, r, p)
  <2>1. Addressed(n, r.queue, r.timer["watchdog"])
    <3>1. CASE r.queue = s.queue
      BY <1>6, <3>1 DEF Facing, Addressed
    <3>2. CASE r.queue = Append(s.queue, i)
      <4>1. /\ Len(r.queue) = Len(s.queue) + 1 /\ Len(s.queue) \in Nat
            /\ r.queue[Len(s.queue) + 1] = i
            /\ \A k \in 1..Len(s.queue) : r.queue[k] = s.queue[k]
        BY <1>3, <3>2, AppendProperties, LenProperties
      <4>2. \A k \in 1..Len(r.queue) : k \in 1..Len(s.queue) \/ r.queue[k] = i
        BY <4>1
      <4>3. s.timer["watchdog"] = Off => r.timer["watchdog"] = Off
        BY <1>6
      <4>4. /\ i.kind # "wake" /\ i.kind # "stop" /\ i.kind \notin Datagram
        BY <1>3 DEF Datagram
      <4>5. Addressed(n, s.queue, s.timer["watchdog"])
        BY DEF Facing
      <4> HIDE DEF e
      <4>6. ASSUME NEW k \in 1..Len(r.queue)
            PROVE  /\ r.queue[k].kind # "wake"
                   /\ r.queue[k].kind = "stop" => r.timer["watchdog"] = Off
                   /\ r.queue[k].kind \in Datagram => r.queue[k].from \in Node \ {n}
        <5>1. CASE k \in 1..Len(s.queue)
          <6>1. r.queue[k] = s.queue[k]
            BY <4>1, <5>1
          <6> QED BY <4>3, <4>5, <5>1, <6>1 DEF Addressed
        <5>2. CASE r.queue[k] = i
          BY <4>4, <5>2
        <5> QED BY <4>2, <5>1, <5>2
      <4> QED BY <4>6 DEF Addressed
    <3> QED BY <1>2, <3>1, <3>2
  <2> QED BY <1>1, <1>6, <2>1 DEF Facing
<1>12. InOrder(r.queue, <<>>)
  <2>1. CASE r.queue = Append(s.queue, i) /\ s.role = "standby"
    <3>1. s.queue = <<>>
      BY <1>3, <2>1 DEF Tasked, Counted
    <3> QED BY <1>3, <2>1, <3>1, QueuedInOrder DEF Word
  <2> QED BY <1>2, <2>1
<1>13. ToStop(r, b)
  BY <1>1, <1>2, <1>8 DEF ToStop
<1> QED BY <1>10, <1>11, <1>12, <1>13

(* A tick of a node that is not there.                                       *)
LEMMA NobodyTicks ==
  ASSUME NEW s, s = NewElection
  PROVE  Ticked(s, {}, s, {}, FALSE) /\ s.queue = <<>>
<1>1. /\ s.queue = <<>> /\ s.role = "stopped" /\ s.heard = Never /\ s.claimed = FALSE
      /\ s.task.op = "none" /\ s.task.left = 0
      /\ s.timer["probe"] = Off /\ s.timer["election"] = Off /\ s.timer["settle"] = Off
      /\ s.timer["handoff"] = Off /\ s.timer["heartbeat"] = Off /\ s.timer["watchdog"] = Off
  BY DEF NewElection, NoTask, Timer
<1>2. Counted(s)
  BY NewElectionType, TimersAreCounted
<1>3. Down(Off, Off) /\ Down(0, 0) /\ Off # 1
  BY DEF Down, Off
<1> QED BY <1>1, <1>2, <1>3 DEF Ticked

(* Time passes.                                                              *)
LEMMA TickStep ==
  ASSUME TypeOK, OneAtATime, OneRanking, Calm, Paced, Accompanied, Tick
  PROVE  OneAtATime'
<1>1. /\ \A n \in Node : Alive(n) => Prompt(n)
      /\ UNCHANGED <<power, canServe, split, left>>
  BY DEF Tick, Calm
<1>2. ASSUME NEW n \in Node
      PROVE  /\ Alive(n) => st'[n] = Elapse(st[n])
             /\ ~Alive(n) => st'[n] = st[n] /\ st[n] = NewElection
             /\ Facing(n, st[n], power[n]) /\ st[n] \in Election /\ st[n].slept = 0
  <2>1. power[n] \in {"on", "leaving", "off"}
    BY DEF TypeOK, OneAtATime, Solo
  <2> QED BY <2>1 DEF Tick, Alive, OneAtATime, Solo, TypeOK, Facing
<1>3. ASSUME NEW m \in Node, NEW n \in Node PROVE net[m][n] = <<>>
  <2>1. CASE m = n
    BY <2>1 DEF OneAtATime, Solo
  <2>2. CASE m # n /\ Alive(n)
    <3> SUFFICES ASSUME net[m][n] # <<>> PROVE FALSE
      OBVIOUS
    <3>1. net[m][n] \in Seq(InFlight) /\ Len(net[m][n]) \in Nat /\ Len(net[m][n]) > 0
      BY EmptySeq, LenProperties DEF TypeOK
    <3>2. Head(net[m][n]) = net[m][n][1] /\ 1 \in 1..Len(net[m][n])
      BY <3>1
    <3>3. Head(net[m][n]).due = 0
      BY <3>2 DEF OneAtATime, Unharmed
    <3> QED BY <1>1, <2>2, <3>3 DEF Prompt
  <2>3. CASE m # n /\ ~Alive(n)
    <3>1. Ahead(m, n) = {}
      BY <2>3 DEF OneAtATime, Duo, Both, Own, Gone
    <3>2. st[n].queue \in Seq(Item) /\ net[m][n] \in Seq(InFlight)
      BY DEF TypeOK, Election
    <3> QED BY <3>1, <3>2, NothingAhead DEF Ahead
  <2> QED BY <2>1, <2>2, <2>3
<1>4. ASSUME NEW m \in Node, NEW n \in Node PROVE net'[m][n] = <<>>
  <2>1. DOMAIN net[m][n] = {}
    BY <1>3
  <2>2. DOMAIN net'[m][n] = {}
    BY <2>1 DEF Tick
  <2>3. net'[m][n] \in Seq(InFlight)
    BY TickType DEF TypeOK
  <2>4. Len(net'[m][n]) \in Nat /\ DOMAIN net'[m][n] = 1..Len(net'[m][n])
    BY <2>3, LenProperties
  <2>5. Len(net'[m][n]) = 0
    <3>1. Len(net'[m][n]) > 0 => 1 \in 1..Len(net'[m][n])
      BY <2>4
    <3> QED BY <2>2, <2>4, <3>1
  <2> QED BY <2>3, <2>5, EmptySeq
<1>5. ASSUME NEW m \in Node, NEW n \in Node, m # n
      PROVE  /\ Ahead(m, n) = Kinds(st[n].queue) \cup Marks(canServe[n] \/ ~Alive(n))
             /\ Ahead(m, n)' = Kinds(st'[n].queue) \cup Marks(canServe[n] \/ ~Alive(n))
             /\ InOrder(st[n].queue, <<>>) /\ Tasked(st[n])
             /\ Both(m, n, st[m], Ahead(n, m), st[n], Ahead(m, n), Alive(m), Alive(n))
  <2>1. /\ InOrder(st[n].queue, net[m][n])
        /\ Both(m, n, st[m], Ahead(n, m), st[n], Ahead(m, n), Alive(m), Alive(n))
    BY <1>5 DEF OneAtATime, Duo
  <2>2. Alive(n)' = Alive(n)
    BY <1>1 DEF Alive
  <2> QED BY <1>1, <1>3, <1>4, <2>1, <2>2, EmptyIsSilent DEF Ahead, Both, Own
<1>6. ASSUME NEW n \in Node
      PROVE  /\ Ticked(st[n], Kinds(st[n].queue) \cup Marks(canServe[n] \/ ~Alive(n)),
                       st'[n], Kinds(st'[n].queue) \cup Marks(canServe[n] \/ ~Alive(n)), Alive(n))
             /\ Facing(n, st'[n], power[n]) /\ InOrder(st'[n].queue, <<>>)
             /\ ToStop(st'[n], canServe[n])
  <2>1. Tasked(st[n]) /\ InOrder(st[n].queue, <<>>)
    BY <1>5 DEF Accompanied
  <2>2. CASE Alive(n)
    <3>1. /\ st[n].task.op = "none" => st[n].queue = <<>>
          /\ st[n].task.op # "none" => st[n].task.left > 0
          /\ \A t \in Timer : st[n].timer[t] # 0
      BY <1>1, <2>2 DEF Prompt
    <3>2. Alive(n) = TRUE
      BY <2>2 DEF Alive
    <3>3. ToStop(st[n], canServe[n]) /\ Marks(canServe[n] \/ ~Alive(n)) \in SUBSET {"withdrawn"}
      BY DEF OneAtATime, Solo, Marks
    <3> QED BY <1>2, <2>1, <2>2, <3>1, <3>2, <3>3, NodeTicks
  <2>3. CASE ~Alive(n)
    <3>1. Alive(n) = FALSE
      BY <2>3 DEF Alive
    <3>2. Marks(canServe[n] \/ ~Alive(n)) = {} /\ ToStop(st[n], canServe[n])
      BY <2>3 DEF Marks, OneAtATime, Solo
    <3> QED BY <1>2, <2>1, <2>3, <3>1, <3>2, NobodyTicks, EmptyIsSilent
  <2> QED BY <2>2, <2>3
<1>7. Unharmed'
  BY <1>1, <1>4 DEF OneAtATime, Unharmed
<1>8. ASSUME NEW n \in Node PROVE Solo(n)'
  <2>1. power'[n] = "off" => st'[n] = NewElection
    BY <1>1, <1>2 DEF Alive
  <2> QED BY <1>1, <1>4, <1>6, <2>1 DEF OneAtATime, Solo
<1>9. ASSUME NEW m \in Node, NEW n \in Node, m # n PROVE Duo(m, n)'
  <2>1. /\ Both(m, n, st[m], Ahead(n, m), st[n], Ahead(m, n), Alive(m), Alive(n))
        /\ Both(n, m, st[n], Ahead(m, n), st[m], Ahead(n, m), Alive(n), Alive(m))
    BY <1>5, <1>9
  <2>2. /\ Ticked(st[m], Ahead(n, m), st'[m], Ahead(n, m)', Alive(m))
        /\ Ticked(st[n], Ahead(m, n), st'[n], Ahead(m, n)', Alive(n))
    BY <1>5, <1>6, <1>9
  <2>3. Rivals(m, n) /\ Rivals(n, m) /\ Steady
    BY <1>9, TwoAreRivals, PeriodsAreSteady
  <2>4. Own(st'[m], Ahead(n, m)', Alive(m)) /\ Own(st'[n], Ahead(m, n)', Alive(n))
    BY <2>1, <2>2, <2>3, TickOwn DEF Both
  <2>5. Pair(m, n, st'[m], Ahead(n, m)', st'[n], Ahead(m, n)')
    BY <2>1, <2>2, <2>3, TickPair
  <2>6. Pair(n, m, st'[n], Ahead(m, n)', st'[m], Ahead(n, m)')
    BY <2>1, <2>2, <2>3, TickPair
  <2>7. Alive(m)' = Alive(m) /\ Alive(n)' = Alive(n)
    BY <1>1 DEF Alive
  <2> QED BY <1>4, <1>6, <2>4, <2>5, <2>6, <2>7 DEF Duo, Both
<1> QED BY <1>7, <1>8, <1>9 DEF OneAtATime

(* Nothing but boots, shutdowns and withdrawals comes from the environment.  *)
LEMMA OnlyComingAndGoing ==
  ASSUME OneAtATime, Environment
  PROVE  \E n \in Node : Boot(n) \/ Shutdown(n) \/ Withdraw(n)
<1>1. \A f \in Fault \ {"boot", "shutdown", "withdraw"} : ~Spend(f)
  BY DEF Spend, OneAtATime, Unharmed
<1>2. split = {} /\ \A n \in Node : ~Wake(n)
  BY DEF Wake, OneAtATime, Solo, Unharmed
<1>3. ~Spend("crash") /\ ~Spend("sleep") /\ ~Spend("lose") /\ ~Spend("split")
      /\ ~Spend("conflict")
  BY <1>1 DEF Fault
<1>4. /\ ~Heal
      /\ \A n \in Node :
            /\ ~Crash(n) /\ ~Suspend(n) /\ ~Partition(n) /\ ~Conflict(n)
            /\ \A m \in Node : ~Lose(m, n)
  BY <1>2, <1>3 DEF Heal, Crash, Suspend, Partition, Conflict, Lose
<1> QED BY <1>2, <1>4 DEF Environment

(* The inductive step: whatever a node or the environment does, or the clock.*)
LEMMA OneAtATimeStep ==
  ASSUME TypeOK, Undisturbed, OneAtATime, AtMostTwo, OneRanking, Calm, Paced, Accompanied,
         [Next]_vars
  PROVE  OneAtATime'
<1>1. CASE Work
  <2>1. PICK n \in Node : NodeStep(n)
    BY <1>1 DEF Work
  <2> QED BY <2>1, ReceiveStep, DropStep, FireStep, RunStep, FinishStep, ExitStep DEF NodeStep
<1>2. CASE Environment
  <2>1. PICK n \in Node : Boot(n) \/ Shutdown(n) \/ Withdraw(n)
    BY <1>2, OnlyComingAndGoing
  <2>2. CASE Shutdown(n)
    BY <2>2, LeaveStep DEF Shutdown
  <2>3. CASE Withdraw(n)
    BY <2>3, LeaveStep DEF Withdraw
  <2> QED BY <2>1, <2>2, <2>3, BootStep
<1>3. CASE Tick
  BY <1>3, TickStep
<1>4. CASE UNCHANGED vars
  <2>1. /\ st' = st /\ power' = power /\ canServe' = canServe
        /\ net' = net /\ split' = split /\ left' = left
    BY <1>4 DEF vars
  <2>2. Unharmed'
    BY <2>1 DEF Unharmed, OneAtATime
  <2>3. \A n \in Node : Solo(n)'
    BY <2>1 DEF Solo, OneAtATime
  <2>4. ASSUME NEW m \in Node, NEW n \in Node, m # n PROVE Duo(m, n)'
    <3>1. Alive(m)' = Alive(m) /\ Alive(n)' = Alive(n)
      BY <2>1 DEF Alive
    <3>2. Ahead(m, n)' = Ahead(m, n) /\ Ahead(n, m)' = Ahead(n, m)
      BY <2>1, <3>1 DEF Ahead
    <3>3. Duo(m, n)
      BY <2>4 DEF OneAtATime
    <3> QED BY <2>1, <3>1, <3>2, <3>3 DEF Duo
  <2> QED BY <2>2, <2>3, <2>4 DEF OneAtATime
<1> QED BY <1>1, <1>2, <1>3, <1>4 DEF Next

(* Two elections that have not begun agree.                                  *)
LEMMA BothBegin ==
  ASSUME NEW m, NEW n, NEW r, Steady,
         Mark(r, "stopped", Never, FALSE, "none", 0), Dials(r, Off, Off, Off, Off, Off, Off)
  PROVE  Both(m, n, r, {}, r, {}, FALSE, FALSE)
<1>1. Own(r, {}, FALSE)
  <2>1. Watched(r, {}, FALSE)
    BY DEF Watched, Steady, Dials, Off
  <2> QED BY <2>1 DEF Own, Timed, Tasked, Fresh, Gone, Belongs, Armed, Dials, Mark
<1>2. ~Holding(r) /\ ~Bidding(r) /\ ~Arriving(r, {})
  BY DEF Holding, Bidding, Arriving, Mark
<1>3. ASSUME NEW x, NEW y PROVE Pair(x, y, r, {}, r, {})
  <2>1. Unrivalled(r, {}, r, {}) /\ Warned(r, {}, r, {})
    BY <1>2 DEF Unrivalled, Warned, Waits, Mark
  <2>2. Apart(x, y, r, {}, r, {}) /\ Contested(x, y, r, {}, r, {}) /\ Elected(r, {}, r)
    BY <1>2 DEF Apart, Contested, Elected, Mark
  <2>3. Followed(r, r, {}) /\ Released(r, {}, r, {}) /\ Spoken(x, y, r, {}, r, {})
    BY DEF Followed, Released, Spoken, Mark
  <2>4. Vacant(r, {}, r, {}) /\ Succeeds(r, {}, r, {}) /\ Missed(r, {}, r, {})
    BY DEF Vacant, Succeeds, Missed, Mark
  <2>5. Outlasted(r, {}, r, {})
    BY <1>2 DEF Outlasted
  <2> QED BY <1>2, <2>1, <2>2, <2>3, <2>4, <2>5 DEF Pair
<1> QED BY <1>1, <1>3 DEF Both

(* Before the first boot nothing is ahead of anybody.                        *)
LEMMA StartsOneAtATime ==
  ASSUME Calm, Paced, Init
  PROVE  OneAtATime
<1> DEFINE r == NewElection
<1>1. /\ \A n \in Node : /\ st[n] = r /\ power[n] = "off" /\ canServe[n]
                         /\ \A m \in Node : net[m][n] = <<>>
      /\ split = {} /\ left \in Limits
  BY DEF Init
<1>2. /\ r.queue = <<>> /\ r.role = "stopped" /\ r.heard = Never /\ r.claimed = FALSE
      /\ r.task = NoTask /\ r.running = FALSE
      /\ r.target = NoNode /\ r.holder = NoNode /\ r.slept = 0
      /\ Dials(r, Off, Off, Off, Off, Off, Off)
  BY DEF NewElection, Dials, Timer
<1>3. r = NewElection
  OBVIOUS
<1> HIDE DEF r
<1>4. Unharmed
  BY <1>1 DEF Unharmed, Calm, Excluded
<1>5. ASSUME NEW n \in Node PROVE Solo(n)
  <2>1. Facing(n, r, "off")
    BY <1>2, NodeAssumption DEF Facing, NoTask, Addressed
  <2>2. ToStop(r, canServe[n])
    BY <1>2 DEF ToStop, NoTask
  <2> QED BY <1>1, <1>3, <2>1, <2>2 DEF Solo
<1>6. ASSUME NEW m \in Node, NEW n \in Node PROVE Duo(m, n)
  <2>1. Ahead(m, n) = {} /\ Ahead(n, m) = {} /\ Alive(m) = FALSE /\ Alive(n) = FALSE
    BY <1>1, <1>2, EmptyIsSilent DEF Ahead, Alive, Marks
  <2>2. Both(m, n, r, {}, r, {}, FALSE, FALSE)
    <3>1. Mark(r, "stopped", Never, FALSE, "none", 0)
      BY <1>2 DEF Mark, NoTask
    <3> QED BY <1>2, <3>1, BothBegin, PeriodsAreSteady
  <2>3. InOrder(st[m].queue, net[n][m]) /\ InOrder(st[n].queue, net[m][n])
    BY <1>1, <1>2, EmptyIsSilent
  <2> QED BY <1>1, <2>1, <2>2, <2>3 DEF Duo
<1> QED BY <1>4, <1>5, <1>6 DEF OneAtATime

-----------------------------------------------------------------------------
(* The theorems.                                                             *)

(* OneAtATime holds always, of two nodes.                                    *)
LEMMA AlwaysOneAtATime ==
  ASSUME AtMostTwo, OneRanking, Calm, Paced, Accompanied
  PROVE  Spec => []OneAtATime
<1>1. Init => OneAtATime
  BY StartsOneAtATime
<1>2. TypeOK /\ Undisturbed /\ OneAtATime /\ [Next]_vars => OneAtATime'
  BY OneAtATimeStep
<1>3. ~StopMayFail /\ Excluded("conflict")
  BY DEF Calm, Fault
<1>4. Spec => []Undisturbed
  BY <1>3, StaysUndisturbed
<1> QED BY <1>1, <1>2, <1>4, TypeCorrect, PTL DEF Spec

(* The header of election.ts: at most one node at a time reads the surface,  *)
(* and its successor does not begin to start before it has stopped.  It holds*)
(* of two nodes, for every timing as paced as the settings, every ranking and*)
(* every build, however often a node boots, shuts down or is withdrawn while *)
(* the other holds, yields or is preempted.                                  *)
THEOREM OneReader ==
  ASSUME AtMostTwo, OneRanking, Calm, Paced
  PROVE  Spec => []SingleConsumer
<1>1. CASE Accompanied
  <2>1. TypeOK /\ Undisturbed /\ OneAtATime => SingleConsumer
    <3> SUFFICES ASSUME TypeOK, Undisturbed, OneAtATime,
                        NEW m \in Node, NEW n \in Node, Reading(m), Reading(n), m # n
                 PROVE  FALSE
      BY DEF SingleConsumer
    <3>1. Holding(st[m]) /\ Holding(st[n])
      BY DEF TypeOK, Election, Gate, Undisturbed, Attended, Tenured, Reading, Holding
    <3>2. Holding(st[m]) => ~Holding(st[n])
      BY DEF OneAtATime, Duo, Both, Pair
    <3> QED BY <3>1, <3>2
  <2>2. ~StopMayFail /\ Excluded("conflict")
    BY DEF Calm, Fault
  <2>3. Spec => []Undisturbed
    BY <2>2, StaysUndisturbed
  <2>4. Spec => []OneAtATime
    BY <1>1, AlwaysOneAtATime
  <2> QED BY <2>1, <2>3, <2>4, TypeCorrect, PTL
<1>2. CASE ~Accompanied
  <2>1. SingleConsumer
    BY <1>2 DEF Accompanied, SingleConsumer
  <2> QED BY <2>1, PTL
<1> QED BY <1>1, <1>2

(* So the two nodes take turns at reading: their elections together implement*)
(* SurfaceTenure, with nothing left to assume of who reads when.             *)
COROLLARY TwoTakeTurns ==
  ASSUME AtMostTwo, OneRanking, Calm, Paced
  PROVE  Spec => ReadInTurns
<1>1. ~StopMayFail /\ Excluded("conflict") /\ Excluded("sleep")
  BY DEF Calm, Fault
<1> QED BY <1>1, OneReader, TurnsAreTaken, PTL

===============================================================================
