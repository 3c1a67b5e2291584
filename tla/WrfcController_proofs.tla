----------------------- MODULE WrfcController_proofs -----------------------
(***************************************************************************)
(* Proofs about WrfcController, for any number of chains, fixes, retries   *)
(* and cancellations: every chain at work has exactly one worker, its      *)
(* owner reports what became of it, a verdict stands; and, where no commit *)
(* is left to the user without worktrees, the counter of active chains is  *)
(* right and the queue is served.                                          *)
(*                                                                         *)
(* The methods of the controller are operators on a value k of its fields, *)
(* and so are the parts of the invariant: each method has a lemma of its   *)
(* own, and the lemma of an action composes those of the methods it calls. *)
(***************************************************************************)
EXTENDS WrfcController, FiniteSetTheorems, SequenceTheorems,
        NaturalsInduction, WellFoundedInduction, TLAPS

AtWork == {"engineering", "reviewing", "fixing"}
Landable == {"gating", "committing"}

Act(k) == {c \in Chain : IsActive(k.state[c])}
Entries(q) == {q[i] : i \in DOMAIN q}

(* Who works for a chain fits its state: one child, one timer or one fix.    *)
Unmanned(k, c) == k.live[c] = <<>> /\ k.respawn[c] = "none" /\ c \notin k.planned
Staffed(k, c) ==
    IF k.state[c] \in AtWork
    THEN \/ Len(k.live[c]) = 1 /\ k.respawn[c] = "none" /\ c \notin k.planned
         \/ k.live[c] = <<>> /\ k.respawn[c] # "none" /\ c \notin k.planned
         \/ k.live[c] = <<>> /\ k.respawn[c] = "none" /\ c \in k.planned
    ELSE /\ k.live[c] = <<>>
         /\ k.state[c] \notin Terminal => Unmanned(k, c)

(* What the owner reports fits the state.                                    *)
ToldOK(k, c) ==
    /\ k.state[c] = "passed" => k.told[c] = "completed"
    /\ k.state[c] = "failed" => k.told[c] \in {"failed", "cancelled"}
    /\ k.state[c] \notin Terminal => k.told[c] = "none"

(* A chain is queued once, while it is pending and has no worktree coming.   *)
QueueOK(k) ==
    /\ \A i, j \in DOMAIN k.queue : k.queue[i] = k.queue[j] => i = j
    /\ \A c \in Entries(k.queue) : k.state[c] = "pending" /\ c \notin k.preparing
    /\ \A c \in k.preparing : k.state[c] \in {"pending", "failed"}
    /\ ~ deployment.isolated => k.preparing = {}

(* The chain that leads a session of gates has not gone back to work, and    *)
(* the one whose work is landing leads no other session.                     *)
Landing(k, r, c) ==
    \/ k.state[c] \in Terminal
    \/ k.state[c] \in Landable /\ (c # r => k.sessions[c].phase = "idle")
SessionOK(k, r) ==
    k.sessions[r].phase # "idle" =>
        /\ k.sessions[r].left # {}
        /\ k.state[r] \in Landable \cup Terminal
        /\ k.sessions[r].phase = "gates" => k.state[r] \in {"gating", "failed"}
        /\ k.sessions[r].phase = "landing" => Landing(k, r, Oldest(k.sessions[r].left))

Shape(k) ==
    /\ k \in Controller
    /\ \A c \in Chain : ToldOK(k, c)
    /\ \A c \in Chain : SessionOK(k, c)
    /\ QueueOK(k)

StaffedBut(k, c) == \A d \in Chain \ {c} : Staffed(k, d)

(* What every method keeps.                                                  *)
Kept(k) == Shape(k) /\ \A c \in Chain : Staffed(k, c)

(* The counter, and what keeps the queue moving.                             *)
Awaited(k) == Act(k) \cup {c \in Chain : c \in k.preparing /\ k.state[c] = "pending"}
Counted(k) == k.active = Cardinality(Act(k))
Roomy(k) ==
    /\ Counted(k)
    /\ ~ deployment.isolated => k.active <= MaxActive
    /\ k.queue # <<>> => IF deployment.isolated THEN Awaited(k) # {} ELSE k.active >= MaxActive

(* The same when a chain has just been counted off and the queue not looked  *)
(* at yet.                                                                   *)
Loose(k) ==
    /\ Counted(k)
    /\ ~ deployment.isolated => /\ k.active <= MaxActive
                                /\ k.queue # <<>> => k.active + 1 >= MaxActive

(* From k to m no verdict and no report of an ended chain changes.           *)
Final(k, m) ==
    \A c \in Chain : k.state[c] \in Terminal => m.state[c] = k.state[c] /\ m.told[c] = k.told[c]

-----------------------------------------------------------------------------
(* Numbers, sets and sequences.                                              *)

LEMMA Least ==
    ASSUME NEW T \in SUBSET Nat, T # {}
    PROVE  \E n \in T : \A m \in T : n <= m
  <1>1. IsWellFoundedOn(OpToRel(<, Nat), Nat)
    BY NatLessThanWellFounded
  <1>2. PICK n \in T : \A m \in T : ~ (<<m, n>> \in OpToRel(<, Nat))
    BY <1>1, WFMin
  <1>3. \A m \in T : ~ (m < n)
    BY <1>2 DEF OpToRel
  <1> QED
    BY <1>3

LEMMA ChainIsNat == Chain \subseteq Nat \ {0}
  BY WrfcAssumption DEF Chain

LEMMA OldestIsIn ==
    ASSUME NEW S \in SUBSET Chain, S # {}
    PROVE  Oldest(S) \in S
  <1>1. \E c \in S : \A d \in S : c <= d
    BY Least, ChainIsNat
  <1> QED
    BY <1>1 DEF Oldest

LEMMA ActIsFinite ==
    ASSUME NEW k
    PROVE  IsFiniteSet(Act(k)) /\ Cardinality(Act(k)) \in Nat
  <1>1. IsFiniteSet(Chain)
    BY FS_Interval, WrfcAssumption DEF Chain
  <1>2. Act(k) \in SUBSET Chain
    BY DEF Act
  <1>3. IsFiniteSet(Act(k))
    BY <1>1, <1>2, FS_Subset
  <1> QED
    BY <1>3, FS_CardinalityType

LEMMA CountStays ==
    ASSUME NEW k, NEW m, Counted(k), m.active = k.active,
           \A d \in Chain : IsActive(m.state[d]) <=> IsActive(k.state[d])
    PROVE  Counted(m) /\ Act(m) = Act(k)
  <1>1. Act(m) = Act(k)
    BY DEF Act
  <1> QED
    BY <1>1 DEF Counted

LEMMA CountUp ==
    ASSUME NEW k, NEW m, NEW c \in Chain, Counted(k), m.active = k.active + 1,
           ~ IsActive(k.state[c]), IsActive(m.state[c]),
           \A d \in Chain \ {c} : IsActive(m.state[d]) <=> IsActive(k.state[d])
    PROVE  Counted(m)
  <1>1. Act(m) = Act(k) \cup {c} /\ c \notin Act(k)
    BY DEF Act
  <1>2. Cardinality(Act(k) \cup {c}) = Cardinality(Act(k)) + 1
    <2> HIDE DEF Act
    <2> QED
      BY <1>1, ActIsFinite, FS_AddElement
  <1> QED
    BY <1>1, <1>2 DEF Counted

LEMMA CountDown ==
    ASSUME NEW k, NEW m, NEW c \in Chain, Counted(k), m.active = OneLess(k.active),
           IsActive(k.state[c]), ~ IsActive(m.state[c]),
           \A d \in Chain \ {c} : IsActive(m.state[d]) <=> IsActive(k.state[d])
    PROVE  Counted(m) /\ m.active + 1 = k.active
  <1>1. Act(m) = Act(k) \ {c} /\ c \in Act(k)
    BY DEF Act
  <1>2. Cardinality(Act(k) \ {c}) = Cardinality(Act(k)) - 1 /\ Cardinality(Act(k)) \in Nat
    BY <1>1, ActIsFinite, FS_RemoveElement
  <1>3. Cardinality(Act(k)) # 0
    BY <1>1, ActIsFinite, FS_EmptySet
  <1> QED
    BY <1>1, <1>2, <1>3 DEF Counted, OneLess

(* The queue without one of its chains.                                      *)
LEMMA RemovedAt ==
    ASSUME NEW S, NEW s \in Seq(S), NEW i \in 1 .. Len(s)
    PROVE  /\ RemoveAt(s, i) \in Seq(S)
           /\ Len(RemoveAt(s, i)) = Len(s) - 1
           /\ \A j \in 1 .. Len(s) - 1 : RemoveAt(s, i)[j] = IF j < i THEN s[j] ELSE s[j + 1]
  <1> DEFINE a == SubSeq(s, 1, i - 1)
             b == SubSeq(s, i + 1, Len(s))
  <1>1. a \in Seq(S) /\ Len(a) = i - 1 /\ \A j \in 1 .. i - 1 : a[j] = s[j]
    OBVIOUS
  <1>2. /\ b \in Seq(S) /\ Len(b) = Len(s) - i
        /\ \A j \in 1 .. Len(s) - i : b[j] = s[j + i]
    OBVIOUS
  <1> HIDE DEF a, b
  <1>3. /\ a \o b \in Seq(S) /\ Len(a \o b) = Len(s) - 1
        /\ \A j \in 1 .. Len(s) - 1 : (a \o b)[j] = IF j < i THEN a[j] ELSE b[j - (i - 1)]
    <2>1. /\ a \o b \in Seq(S) /\ Len(a \o b) = Len(a) + Len(b)
          /\ \A j \in 1 .. Len(a) + Len(b) :
                (a \o b)[j] = IF j <= Len(a) THEN a[j] ELSE b[j - Len(a)]
      BY <1>1, <1>2, ConcatProperties
    <2>2. Len(a) + Len(b) = Len(s) - 1
      BY <1>1, <1>2
    <2> QED
      BY <1>1, <1>2, <2>1, <2>2
  <1>4. \A j \in 1 .. Len(s) - 1 : (a \o b)[j] = IF j < i THEN s[j] ELSE s[j + 1]
    <2> TAKE j \in 1 .. Len(s) - 1
    <2>1. CASE j < i
      BY <2>1, <1>1, <1>3
    <2>2. CASE ~ (j < i)
      <3>1. j - (i - 1) \in 1 .. Len(s) - i /\ (j - (i - 1)) + i = j + 1
        BY <2>2
      <3> QED
        BY <2>2, <3>1, <1>2, <1>3
    <2> QED
      BY <2>1, <2>2
  <1>5. RemoveAt(s, i) = a \o b
    BY DEF RemoveAt, a, b
  <1> QED
    BY <1>3, <1>4, <1>5

LEMMA Unqueued ==
    ASSUME NEW q \in Seq(Chain), NEW c \in Chain,
           \A i, j \in DOMAIN q : q[i] = q[j] => i = j
    PROVE  /\ RemoveFirst(q, c) \in Seq(Chain)
           /\ Entries(RemoveFirst(q, c)) = Entries(q) \ {c}
           /\ \A i, j \in DOMAIN RemoveFirst(q, c) :
                 RemoveFirst(q, c)[i] = RemoveFirst(q, c)[j] => i = j
  <1> DEFINE I == {i \in 1 .. Len(q) : q[i] = c}
  <1>1. CASE I = {}
    <2>1. ~ \E i \in 1 .. Len(q) : q[i] = c
      BY <1>1
    <2>2. RemoveFirst(q, c) = q
      BY <2>1, Zenon DEF RemoveFirst
    <2> QED
      BY <2>1, <2>2 DEF Entries
  <1>2. CASE I # {}
    <2>1. PICK n \in I : \A i \in I : n <= i
      BY <1>2, Least
    <2>2. I = {n}
      BY <2>1
    <2>3. Min(I) = n
      BY <2>2 DEF Min
    <2>4. SelectInSeq(q, LAMBDA v : v = c) = n
      BY <1>2, <2>3 DEF SelectInSeq
    <2>5. RemoveFirst(q, c) = RemoveAt(q, n)
      BY <2>1, <2>4 DEF RemoveFirst
    <2> DEFINE p == RemoveAt(q, n)
    <2>6. n \in 1 .. Len(q) /\ q[n] = c
      BY <2>1
    <2>7. /\ p \in Seq(Chain) /\ Len(p) = Len(q) - 1
          /\ \A j \in 1 .. Len(q) - 1 : p[j] = IF j < n THEN q[j] ELSE q[j + 1]
      BY <2>6, RemovedAt
    <2> HIDE DEF p
    <2>8. DOMAIN p = 1 .. Len(q) - 1 /\ DOMAIN q = 1 .. Len(q)
      BY <2>7
    <2> DEFINE At(j) == IF j < n THEN j ELSE j + 1
    <2>9. \A j \in DOMAIN p : At(j) \in DOMAIN q /\ At(j) # n /\ p[j] = q[At(j)]
      BY <2>6, <2>7, <2>8
    <2>10. \A j \in DOMAIN p : q[At(j)] # c
      BY <2>6, <2>8, <2>9
    <2>11. \A i, j \in DOMAIN p : At(i) = At(j) => i = j
      BY <2>6, <2>8
    <2> HIDE DEF At
    <2>12. \A i, j \in DOMAIN p : p[i] = p[j] => i = j
      BY <2>9, <2>11
    <2>13. Entries(p) \subseteq Entries(q) \ {c}
      BY <2>9, <2>10 DEF Entries
    <2>14. Entries(q) \ {c} \subseteq Entries(p)
      <3> SUFFICES ASSUME NEW i \in DOMAIN q, q[i] # c
                   PROVE  \E j \in DOMAIN p : p[j] = q[i]
        BY DEF Entries
      <3>1. CASE i < n
        BY <3>1, <2>6, <2>7, <2>8
      <3>2. CASE ~ (i < n)
        <4>1. i - 1 \in DOMAIN p /\ p[i - 1] = q[i]
          BY <3>2, <2>6, <2>7, <2>8
        <4> QED
          BY <4>1
      <3> QED
        BY <3>1, <3>2
    <2> QED
      BY <2>5, <2>7, <2>12, <2>13, <2>14 DEF p
  <1> QED
    BY <1>1, <1>2

(* The queue without its head.                                               *)
LEMMA Dequeued ==
    ASSUME NEW q \in Seq(Chain), q # <<>>,
           \A i, j \in DOMAIN q : q[i] = q[j] => i = j
    PROVE  /\ Tail(q) \in Seq(Chain) /\ Head(q) \in Chain
           /\ Head(q) \in Entries(q) /\ Entries(Tail(q)) \subseteq Entries(q) \ {Head(q)}
           /\ \A i, j \in DOMAIN Tail(q) : Tail(q)[i] = Tail(q)[j] => i = j
  <1>1. Len(q) \in Nat \ {0} /\ Head(q) = q[1] /\ DOMAIN q = 1 .. Len(q)
    OBVIOUS
  <1>2. /\ Tail(q) \in Seq(Chain) /\ DOMAIN Tail(q) = 1 .. Len(q) - 1
        /\ \A i \in 1 .. Len(q) - 1 : Tail(q)[i] = q[i + 1]
    BY <1>1
  <1>3. Entries(Tail(q)) \subseteq Entries(q) \ {Head(q)}
    BY <1>1, <1>2 DEF Entries
  <1>4. \A i, j \in DOMAIN Tail(q) : Tail(q)[i] = Tail(q)[j] => i = j
    BY <1>1, <1>2
  <1>5. Head(q) \in Entries(q) /\ Head(q) \in Chain
    BY <1>1 DEF Entries
  <1> QED
    BY <1>2, <1>3, <1>4, <1>5

-----------------------------------------------------------------------------
(* Values of the controller's fields.                                        *)

LEMMA Fields ==
    ASSUME NEW k \in Controller
    PROVE  /\ k.state \in [Chain -> ChainState \cup {"none"}]
           /\ k.queue \in Seq(Chain) /\ k.active \in Nat
           /\ k.preparing \in SUBSET Chain /\ k.planned \in SUBSET Chain
           /\ k.live \in [Chain -> Seq(Role)]
           /\ k.respawn \in [Chain -> Role \cup {"none"}]
           /\ k.retried \in [Chain -> 0 .. RetryLimit] /\ k.fixes \in [Chain -> 0 .. MaxFixes]
           /\ k.verified \in [Chain -> BOOLEAN] /\ k.sessions \in [Chain -> Session]
           /\ k.told \in [Chain -> {"none", "completed", "failed", "cancelled"}]
  BY DEF Controller

(* A value is put together from its fields.                                  *)
HasFields(m) ==
    m = [state |-> m.state, queue |-> m.queue, active |-> m.active, preparing |-> m.preparing,
         live |-> m.live, respawn |-> m.respawn, retried |-> m.retried, planned |-> m.planned,
         fixes |-> m.fixes, verified |-> m.verified, sessions |-> m.sessions, told |-> m.told]

LEMMA Disassembled ==
    ASSUME NEW k \in Controller
    PROVE  HasFields(k)
  BY DEF Controller, HasFields

LEMMA Assembled ==
    ASSUME NEW m, HasFields(m),
           m.state \in [Chain -> ChainState \cup {"none"}], m.queue \in Seq(Chain),
           m.active \in Nat, m.preparing \in SUBSET Chain, m.live \in [Chain -> Seq(Role)],
           m.respawn \in [Chain -> Role \cup {"none"}], m.retried \in [Chain -> 0 .. RetryLimit],
           m.planned \in SUBSET Chain, m.fixes \in [Chain -> 0 .. MaxFixes],
           m.verified \in [Chain -> BOOLEAN], m.sessions \in [Chain -> Session],
           m.told \in [Chain -> {"none", "completed", "failed", "cancelled"}]
    PROVE  m \in Controller
  <1>1. [state |-> m.state, queue |-> m.queue, active |-> m.active, preparing |-> m.preparing,
         live |-> m.live, respawn |-> m.respawn, retried |-> m.retried, planned |-> m.planned,
         fixes |-> m.fixes, verified |-> m.verified, sessions |-> m.sessions, told |-> m.told]
            \in Controller
    BY DEF Controller
  <1> QED
    BY <1>1 DEF HasFields

LEMMA SessionFields ==
    ASSUME NEW s \in Session
    PROVE  /\ s.phase \in {"idle", "gates", "turn", "landing"}
           /\ s.left \in SUBSET Chain /\ s.origin \in Chain \cup {None}
  BY DEF Session

(* The states a chain is in.                                                 *)
LEMMA ActiveStates ==
    /\ \A s \in AtWork \cup Landable \cup {"awaiting_gates"} : IsActive(s)
    /\ \A s \in Terminal \cup {"pending", "none"} : ~ IsActive(s)
  BY DEF AtWork, Landable, Terminal, IsActive, ChainState, Working

(* Agents of c come and go; k and m agree on everything else but c's state.  *)
Elsewhere(k, m, c) ==
    \A d \in Chain \ {c} :
        /\ m.state[d] = k.state[d] /\ m.live[d] = k.live[d] /\ m.respawn[d] = k.respawn[d]
        /\ d \in m.planned <=> d \in k.planned
        /\ m.told[d] = k.told[d]

LEMMA StaffedElsewhere ==
    ASSUME NEW k, NEW m, NEW c \in Chain, Elsewhere(k, m, c), StaffedBut(k, c), Staffed(m, c)
    PROVE  \A d \in Chain : Staffed(m, d)
  <1> TAKE d \in Chain
  <1>1. CASE d = c
    BY <1>1
  <1>2. CASE d # c
    <2>1. Staffed(k, d)
      BY <1>2 DEF StaffedBut
    <2> QED
      BY <1>2, <2>1 DEF Staffed, Unmanned, Elsewhere
  <1> QED
    BY <1>1, <1>2

LEMMA ToldElsewhere ==
    ASSUME NEW k, NEW m, NEW c \in Chain, Elsewhere(k, m, c),
           \A d \in Chain : ToldOK(k, d), ToldOK(m, c)
    PROVE  \A d \in Chain : ToldOK(m, d)
  BY DEF ToldOK, Elsewhere

(* A chain that leads no session and lands in none.                          *)
Free(k, d) ==
    /\ k.sessions[d].phase = "idle"
    /\ \A r \in Chain \ {d} : k.sessions[r].phase = "landing" => Oldest(k.sessions[r].left) # d

(* A chain that changes its state during a session does no harm to it.       *)
Harmless(k, m, d) ==
    \/ Free(k, d)
    \/ m.state[d] = k.state[d]
    \/ k.state[d] \notin Landable \cup Terminal
    \/ m.state[d] = "failed"
    \/ k.sessions[d].phase # "gates" /\ m.state[d] = "passed"
    \/ k.sessions[d].phase # "gates" /\ k.state[d] = "gating" /\ m.state[d] = "committing"

LEMMA SessionStands ==
    ASSUME NEW k \in Controller, NEW m, m.sessions = k.sessions,
           NEW r \in Chain, SessionOK(k, r),
           \A d \in Chain : Harmless(k, m, d)
    PROVE  SessionOK(m, r)
  <1> DEFINE s == k.sessions[r]
             c == Oldest(s.left)
  <1> SUFFICES ASSUME s.phase # "idle" PROVE SessionOK(m, r)
    BY DEF SessionOK
  <1>1. /\ s.left # {} /\ k.state[r] \in Landable \cup Terminal
        /\ s.phase = "gates" => k.state[r] \in {"gating", "failed"}
        /\ s.phase = "landing" => Landing(k, r, c)
    BY DEF SessionOK
  <1>2. s.left \in SUBSET Chain
    BY Fields, SessionFields
  <1>3. c \in Chain
    BY <1>1, <1>2, OldestIsIn
  <1> HIDE DEF c
  <1>4. Harmless(k, m, r) /\ Harmless(k, m, c)
    BY <1>3
  <1>5. ~ Free(k, r) /\ (s.phase = "landing" /\ c # r => ~ Free(k, c))
    BY DEF Free, c
  <1>6. m.state[r] \in Landable \cup Terminal
    BY <1>1, <1>4, <1>5 DEF Harmless, Landable, Terminal
  <1>7. s.phase = "gates" => m.state[r] \in {"gating", "failed"}
    BY <1>1, <1>4, <1>5 DEF Harmless, Landable, Terminal
  <1>8. s.phase = "landing" => Landing(m, r, c)
    BY <1>1, <1>4, <1>5 DEF Harmless, Landing, Landable, Terminal
  <1> QED
    BY <1>1, <1>6, <1>7, <1>8 DEF SessionOK, c

(* A chain that has left the queue, or was never in it, moves on.            *)
LEMMA QueueStands ==
    ASSUME NEW k, NEW m, QueueOK(k), m.queue = k.queue, m.preparing = k.preparing,
           \A d \in Chain : m.state[d] = k.state[d] \/ k.state[d] \notin {"pending", "failed"},
           k \in Controller
    PROVE  QueueOK(m)
  <1>1. Entries(k.queue) \subseteq Chain
    BY Fields DEF Entries
  <1>2. k.preparing \subseteq Chain
    BY Fields
  <1> HIDE DEF Entries
  <1> QED
    BY <1>1, <1>2 DEF QueueOK

LEMMA FinalTrans ==
    ASSUME NEW k, NEW l, NEW m, Final(k, l), Final(l, m)
    PROVE  Final(k, m)
  BY DEF Final

LEMMA FinalElsewhere ==
    ASSUME NEW k, NEW m, NEW c \in Chain, Elsewhere(k, m, c), k.state[c] \notin Terminal
    PROVE  Final(k, m)
  BY DEF Final, Elsewhere

(* Only what is told of c changes, the active chains stay the same.          *)
LEMMA RoomStays ==
    ASSUME NEW k, NEW m, Roomy(k), m.active = k.active, m.queue = k.queue,
           m.preparing = k.preparing,
           \A d \in Chain : IsActive(m.state[d]) <=> IsActive(k.state[d]),
           \A d \in Chain : k.state[d] = "pending" => m.state[d] = "pending"
    PROVE  Roomy(m)
  <1>1. Counted(m) /\ Act(m) = Act(k)
    BY CountStays DEF Roomy
  <1>2. Awaited(k) \subseteq Awaited(m)
    BY <1>1 DEF Awaited
  <1> QED
    BY <1>1, <1>2 DEF Roomy

(* An active chain moves on and stays active.                                *)
Moving == AtWork \cup {"awaiting_gates"}

LEMMA Moves ==
    ASSUME NEW k, NEW m \in Controller, NEW c \in Chain,
           Shape(k), StaffedBut(k, c), Elsewhere(k, m, c), Staffed(m, c),
           m.queue = k.queue, m.preparing = k.preparing, m.sessions = k.sessions,
           m.told[c] = k.told[c],
           k.state[c] \in Moving \cup Landable, m.state[c] \in Moving \cup Landable,
           Harmless(k, m, c)
    PROVE  Kept(m) /\ Final(k, m)
  <1>1. k.state[c] \notin Terminal \cup {"pending", "failed"}
        /\ m.state[c] \notin Terminal
    BY DEF Moving, AtWork, Terminal, Landable
  <1>2. \A d \in Chain : Staffed(m, d)
    BY StaffedElsewhere
  <1>3. \A d \in Chain : ToldOK(m, d)
    <2>1. ToldOK(k, c)
      BY DEF Shape
    <2>2. ToldOK(m, c)
      BY <1>1, <2>1 DEF ToldOK, Terminal
    <2> QED
      BY <2>2, ToldElsewhere DEF Shape
  <1>4. \A d \in Chain : Harmless(k, m, d)
    BY DEF Harmless, Elsewhere
  <1>5. \A d \in Chain : SessionOK(m, d)
    BY <1>4, SessionStands DEF Shape
  <1>6. \A d \in Chain : m.state[d] = k.state[d] \/ k.state[d] \notin {"pending", "failed"}
    BY <1>1 DEF Elsewhere
  <1>7. QueueOK(m)
    BY <1>6, QueueStands DEF Shape
  <1>8. Final(k, m)
    BY <1>1, FinalElsewhere
  <1> QED
    BY <1>2, <1>3, <1>5, <1>7, <1>8 DEF Kept, Shape

LEMMA MovesInRoom ==
    ASSUME NEW k, NEW m, NEW c \in Chain, Roomy(k), Elsewhere(k, m, c),
           m.active = k.active, m.queue = k.queue, m.preparing = k.preparing,
           k.state[c] \in Moving \cup Landable, m.state[c] \in Moving \cup Landable
    PROVE  Roomy(m)
  <1>1. IsActive(k.state[c]) /\ IsActive(m.state[c]) /\ k.state[c] # "pending"
    BY ActiveStates DEF Moving, AtWork, Landable
  <1>2. \A d \in Chain : IsActive(m.state[d]) <=> IsActive(k.state[d])
    BY <1>1 DEF Elsewhere
  <1>3. \A d \in Chain : k.state[d] = "pending" => m.state[d] = "pending"
    BY <1>1 DEF Elsewhere
  <1> QED
    BY <1>2, <1>3, RoomStays

-----------------------------------------------------------------------------
(* The methods: what each does to the fields, and that it keeps the rest.    *)

LEMMA StartEngineerFields ==
    ASSUME NEW k \in Controller, NEW c \in Chain, NEW m, m = StartEngineer(k, c)
    PROVE  /\ m \in Controller
           /\ m.queue = k.queue /\ m.active = k.active + 1 /\ m.preparing = k.preparing
           /\ m.state[c] = "engineering" /\ m.live[c] = Append(k.live[c], "engineer")
           /\ m.respawn = k.respawn /\ m.planned = k.planned
           /\ m.sessions = k.sessions /\ m.told = k.told
           /\ Elsewhere(k, m, c)
  <1>1. HasFields(k)
    BY Disassembled
  <1>2. /\ HasFields(m)
        /\ m.state = [k.state EXCEPT ![c] = "engineering"]
        /\ m.live = [k.live EXCEPT ![c] = Append(@, "engineer")]
        /\ m.queue = k.queue /\ m.active = k.active + 1 /\ m.preparing = k.preparing
        /\ m.respawn = k.respawn /\ m.retried = k.retried /\ m.planned = k.planned
        /\ m.fixes = k.fixes /\ m.verified = k.verified /\ m.sessions = k.sessions
        /\ m.told = k.told
    BY <1>1 DEF HasFields, StartEngineer, Spawn
  <1>3. /\ m.live \in [Chain -> Seq(Role)]
        /\ m.state \in [Chain -> ChainState \cup {"none"}]
        /\ m.active \in Nat
    BY <1>2, Fields DEF Role, ChainState, Working
  <1>4. m \in Controller
    BY <1>2, <1>3, Fields, Assembled
  <1> QED
    BY <1>2, <1>4, Fields DEF Elsewhere

(* An engineer starts for a chain that leaves the queue, or whose worktree   *)
(* is ready.                                                                 *)
LEMMA StartEngineerKeeps ==
    ASSUME NEW k \in Controller, NEW c \in Chain, NEW m, m = StartEngineer(k, c),
           Kept(k), k.state[c] = "pending", c \notin Entries(k.queue), c \notin k.preparing
    PROVE  /\ Kept(m) /\ Final(k, m) /\ (Counted(k) => Counted(m))
           /\ m.queue = k.queue /\ m.active = k.active + 1 /\ m.sessions = k.sessions
           /\ m.preparing = k.preparing /\ c \in Awaited(m)
  <1>1. /\ m \in Controller
        /\ m.queue = k.queue /\ m.active = k.active + 1 /\ m.preparing = k.preparing
        /\ m.state[c] = "engineering" /\ m.live[c] = Append(k.live[c], "engineer")
        /\ m.respawn = k.respawn /\ m.planned = k.planned
        /\ m.sessions = k.sessions /\ m.told = k.told
        /\ Elsewhere(k, m, c)
    BY StartEngineerFields
  <1>2. k.state[c] \notin AtWork \cup Terminal \cup Landable
    BY DEF AtWork, Terminal, Landable
  <1>3. Unmanned(k, c)
    BY <1>2 DEF Kept, Staffed
  <1>4. Staffed(m, c)
    BY <1>1, <1>3 DEF Staffed, Unmanned, AtWork
  <1>5. \A d \in Chain : Staffed(m, d)
    BY <1>1, <1>4, StaffedElsewhere DEF Kept, StaffedBut
  <1>6. \A d \in Chain : ToldOK(m, d)
    <2>1. ToldOK(m, c)
      BY <1>1, <1>2 DEF Kept, Shape, ToldOK, Terminal
    <2> QED
      BY <1>1, <2>1, ToldElsewhere DEF Kept, Shape
  <1>7. \A d \in Chain : SessionOK(m, d)
    <2>1. \A d \in Chain : Harmless(k, m, d)
      BY <1>1, <1>2 DEF Harmless, Elsewhere
    <2> QED
      BY <1>1, <2>1, SessionStands DEF Kept, Shape
  <1>8. QueueOK(m)
    <2>1. \A d \in Chain \ {c} : m.state[d] = k.state[d]
      BY <1>1 DEF Elsewhere
    <2>2. Entries(k.queue) \subseteq Chain /\ k.preparing \subseteq Chain
      BY Fields DEF Entries
    <2>3. QueueOK(k)
      BY DEF Kept, Shape
    <2> HIDE DEF Entries
    <2> QED
      BY <1>1, <2>1, <2>2, <2>3 DEF QueueOK
  <1>9. Final(k, m)
    BY <1>1, <1>2, FinalElsewhere
  <1>10. Counted(k) => Counted(m)
    <2>1. ~ IsActive(k.state[c]) /\ IsActive(m.state[c])
      BY <1>1, ActiveStates DEF AtWork
    <2> QED
      BY <1>1, <2>1, CountUp DEF Elsewhere
  <1>11. c \in Awaited(m)
    BY <1>1, ActiveStates DEF AtWork, Awaited, Act
  <1> QED
    BY <1>1, <1>5, <1>6, <1>7, <1>8, <1>9, <1>10, <1>11 DEF Kept, Shape

LEMMA StartKeeps ==
    ASSUME NEW k \in Controller, NEW c \in Chain, NEW m, m = Start(k, c),
           Kept(k), k.state[c] = "pending", c \notin Entries(k.queue), c \notin k.preparing
    PROVE  /\ Kept(m) /\ Final(k, m) /\ (Counted(k) => Counted(m))
           /\ m.queue = k.queue /\ m.sessions = k.sessions /\ c \in Awaited(m)
           /\ ~ deployment.isolated => m.active = k.active + 1
  <1>1. CASE deployment.isolated
    <2>1. m = [k EXCEPT !.preparing = @ \cup {c}]
      BY <1>1 DEF Start
    <2>2. /\ m \in Controller /\ m.preparing = k.preparing \cup {c}
          /\ m.queue = k.queue /\ m.active = k.active /\ m.state = k.state
          /\ m.live = k.live /\ m.respawn = k.respawn /\ m.planned = k.planned
          /\ m.sessions = k.sessions /\ m.told = k.told
      <3>1. HasFields(k)
        BY Disassembled
      <3>2. /\ HasFields(m) /\ m.preparing = k.preparing \cup {c}
            /\ m.queue = k.queue /\ m.active = k.active /\ m.state = k.state
            /\ m.live = k.live /\ m.respawn = k.respawn /\ m.planned = k.planned
            /\ m.retried = k.retried /\ m.fixes = k.fixes /\ m.verified = k.verified
            /\ m.sessions = k.sessions /\ m.told = k.told
        BY <2>1, <3>1 DEF HasFields
      <3> QED
        BY <3>2, Fields, Assembled
    <2>3. \A d \in Chain : Staffed(m, d) /\ ToldOK(m, d) /\ SessionOK(m, d)
      BY <2>2 DEF Kept, Shape, Staffed, Unmanned, ToldOK, SessionOK, Landing
    <2>4. QueueOK(m)
      BY <1>1, <2>2 DEF Kept, Shape, QueueOK
    <2>5. Final(k, m)
      BY <2>2 DEF Final
    <2>6. Counted(k) => Counted(m)
      BY <2>2, CountStays
    <2> QED
      BY <1>1, <2>2, <2>3, <2>4, <2>5, <2>6 DEF Kept, Shape, Awaited
  <1>2. CASE ~ deployment.isolated
    BY <1>2, StartEngineerKeeps DEF Start
  <1> QED
    BY <1>1, <1>2

(* The head of the queue starts, if there is room.                           *)
LEMMA DequeueKeeps ==
    ASSUME NEW k, NEW m, m = DequeueNext(k), Kept(k)
    PROVE  Kept(m) /\ Final(k, m) /\ m.sessions = k.sessions /\ (Loose(k) => Roomy(m))
  <1>1. k \in Controller /\ k.queue \in Seq(Chain) /\ k.active \in Nat
    BY Fields DEF Kept, Shape
  <1>2. CASE k.queue = <<>> \/ k.active >= MaxActive
    <2>1. m = k
      BY <1>2 DEF DequeueNext
    <2>2. Loose(k) /\ deployment.isolated /\ k.queue # <<>> => Awaited(k) # {}
      <3> SUFFICES ASSUME Loose(k), k.queue # <<>> PROVE Awaited(k) # {}
        OBVIOUS
      <3>1. Cardinality(Act(k)) # 0
        BY <1>2, <1>1, WrfcAssumption DEF Loose, Counted
      <3>2. Act(k) # {}
        BY <3>1, FS_EmptySet
      <3> QED
        BY <3>2 DEF Awaited
    <2> QED
      BY <1>2, <2>1, <2>2 DEF Final, Loose, Roomy
  <1>3. CASE ~ (k.queue = <<>> \/ k.active >= MaxActive)
    <2> DEFINE c == Head(k.queue)
               l == [k EXCEPT !.queue = Tail(@)]
    <2>1. m = Start(l, c)
      BY <1>3 DEF DequeueNext
    <2>2. /\ Tail(k.queue) \in Seq(Chain) /\ c \in Chain
          /\ c \in Entries(k.queue) /\ Entries(Tail(k.queue)) \subseteq Entries(k.queue) \ {c}
          /\ \A i, j \in DOMAIN Tail(k.queue) : Tail(k.queue)[i] = Tail(k.queue)[j] => i = j
      BY <1>1, <1>3, Dequeued DEF Kept, Shape, QueueOK
    <2>3. /\ l \in Controller /\ l.queue = Tail(k.queue)
          /\ l.preparing = k.preparing /\ l.active = k.active /\ l.state = k.state
          /\ l.live = k.live /\ l.respawn = k.respawn /\ l.planned = k.planned
          /\ l.sessions = k.sessions /\ l.told = k.told
      BY <1>1, <2>2 DEF Controller
    <2> HIDE DEF l, c
    <2>4. \A d \in Chain : Staffed(l, d) /\ ToldOK(l, d) /\ SessionOK(l, d)
      BY <2>3 DEF Kept, Shape, Staffed, Unmanned, ToldOK, SessionOK, Landing
    <2>5. QueueOK(l) /\ l.state[c] = "pending" /\ c \notin Entries(l.queue) /\ c \notin l.preparing
      <3>1. QueueOK(k)
        BY DEF Kept, Shape
      <3> HIDE DEF Entries
      <3> QED
        BY <3>1, <2>2, <2>3 DEF QueueOK
    <2>6. Kept(l) /\ Final(k, l)
      BY <2>3, <2>4, <2>5 DEF Kept, Shape, Final
    <2>7. /\ Kept(m) /\ Final(l, m) /\ (Counted(l) => Counted(m))
          /\ m.queue = l.queue /\ m.sessions = l.sessions /\ c \in Awaited(m)
          /\ ~ deployment.isolated => m.active = l.active + 1
      BY <2>1, <2>2, <2>3, <2>5, <2>6, StartKeeps
    <2>8. Loose(k) => Counted(l)
      BY <2>3, CountStays DEF Loose
    <2>9. Loose(k) => Roomy(m)
      <3> SUFFICES ASSUME Loose(k) PROVE Roomy(m)
        OBVIOUS
      <3>1. Counted(m)
        <4>1. Counted(l)
          BY <2>8
        <4> QED
          BY <2>7, <4>1
      <3>2. ~ deployment.isolated => m.active = MaxActive
        BY <1>1, <1>3, <2>3, <2>7, WrfcAssumption DEF Loose
      <3> QED
        BY <2>7, <3>1, <3>2, WrfcAssumption DEF Roomy
    <2>10. Final(k, m)
      BY <2>6, <2>7, FinalTrans
    <2> QED
      BY <2>3, <2>7, <2>9, <2>10
  <1> QED
    BY <1>2, <1>3

(* No session but o's own counts on what the session of o is.                *)
Unwatched(k, o, s) ==
    \/ s.phase = "idle" \/ k.sessions[o].phase # "idle"
    \/ \A r \in Chain \ {o} : k.sessions[r].phase = "landing" => Oldest(k.sessions[r].left) # o

(* Value k with the session of o changed to s.                               *)
LEMMA SessionChanges ==
    ASSUME NEW k, NEW o \in Chain, NEW s \in Session, NEW m, m = [k EXCEPT !.sessions[o] = s],
           Kept(k), SessionOK(m, o), Unwatched(k, o, s)
    PROVE  /\ Kept(m) /\ Final(k, m) /\ (Roomy(k) => Roomy(m))
           /\ m.state = k.state /\ m.fixes = k.fixes
  <1>1. k \in Controller /\ HasFields(k)
    BY Disassembled DEF Kept, Shape
  <1>2. /\ HasFields(m) /\ m.sessions = [k.sessions EXCEPT ![o] = s]
        /\ m.queue = k.queue /\ m.active = k.active /\ m.preparing = k.preparing
        /\ m.state = k.state /\ m.live = k.live /\ m.respawn = k.respawn
        /\ m.planned = k.planned /\ m.retried = k.retried /\ m.fixes = k.fixes
        /\ m.verified = k.verified /\ m.told = k.told
    BY <1>1 DEF HasFields
  <1>3. m.sessions \in [Chain -> Session]
    BY <1>1, <1>2, Fields
  <1>4. m \in Controller
    BY <1>1, <1>2, <1>3, Fields, Assembled
  <1>5. \A d \in Chain : Staffed(m, d) /\ ToldOK(m, d)
    BY <1>2 DEF Kept, Shape, Staffed, Unmanned, ToldOK
  <1>6. QueueOK(m)
    BY <1>2 DEF Kept, Shape, QueueOK
  <1>7. ASSUME NEW r \in Chain PROVE SessionOK(m, r)
    <2>1. CASE r = o
      BY <2>1
    <2>2. CASE r # o
      <3> DEFINE c == Oldest(k.sessions[r].left)
      <3>1. m.sessions[r] = k.sessions[r] /\ m.sessions[o] = s
        BY <1>1, <1>2, <2>2, Fields
      <3>2. SessionOK(k, r)
        BY DEF Kept, Shape
      <3>3. k.sessions[r].phase = "landing" /\ Landing(k, r, c) => Landing(m, r, c)
        <4>1. \A d \in Chain : d # o => m.sessions[d] = k.sessions[d]
          BY <1>1, <1>2, Fields
        <4>2. k.sessions[r].phase = "landing" => c \in Chain
          <5>1. k.sessions[r].left \in SUBSET Chain
            BY <1>1, Fields, SessionFields
          <5>2. k.sessions[r].phase = "landing" => k.sessions[r].left # {}
            BY <3>2 DEF SessionOK
          <5> QED
            BY <5>1, <5>2, OldestIsIn
        <4> HIDE DEF c
        <4> SUFFICES ASSUME k.sessions[r].phase = "landing", Landing(k, r, c)
                     PROVE  Landing(m, r, c)
          OBVIOUS
        <4>3. CASE c # o
          BY <4>1, <4>2, <4>3, <1>2 DEF Landing
        <4>4. CASE c = o
          <5>1. s.phase = "idle" \/ k.sessions[o].phase # "idle"
            BY <2>2, <4>4 DEF c, Unwatched
          <5> QED
            BY <5>1, <4>4, <3>1, <2>2, <1>2 DEF Landing
        <4> QED
          BY <4>3, <4>4
      <3> HIDE DEF c
      <3> QED
        BY <3>1, <3>2, <3>3, <1>2 DEF SessionOK, c
    <2> QED
      BY <2>1, <2>2
  <1>8. Roomy(k) => Roomy(m)
    <2>1. Act(m) = Act(k) /\ Awaited(m) = Awaited(k)
      BY <1>2 DEF Act, Awaited
    <2> QED
      BY <1>2, <2>1 DEF Roomy, Counted
  <1>9. Final(k, m)
    BY <1>2 DEF Final
  <1> QED
    BY <1>2, <1>4, <1>5, <1>6, <1>7, <1>8, <1>9 DEF Kept, Shape

LEMMA IdleIsSession == Idle \in Session
  BY DEF Idle, Session

LEMMA CloseKeeps ==
    ASSUME NEW k, NEW r \in Chain, NEW m, m = Close(k, r), Kept(k)
    PROVE  /\ Kept(m) /\ Final(k, m) /\ (Roomy(k) => Roomy(m))
           /\ m.state = k.state /\ m.fixes = k.fixes
           /\ \A d \in Chain : m.sessions[d] = IF d = r THEN Idle ELSE k.sessions[d]
  <1>1. m = [k EXCEPT !.sessions[r] = Idle]
    BY DEF Close
  <1>2. k \in Controller /\ HasFields(k)
    BY Disassembled DEF Kept, Shape
  <1>3. m.sessions[r] = Idle
    BY <1>1, <1>2, Fields DEF HasFields
  <1>4. SessionOK(m, r) /\ Idle.phase = "idle"
    BY <1>3 DEF SessionOK, Idle
  <1>5. /\ Kept(m) /\ Final(k, m) /\ (Roomy(k) => Roomy(m))
        /\ m.state = k.state /\ m.fixes = k.fixes
    <2> DEFINE s == Idle
    <2>1. s \in Session /\ m = [k EXCEPT !.sessions[r] = s] /\ s.phase = "idle"
      BY <1>1, <1>4, IdleIsSession
    <2> HIDE DEF s
    <2>2. Unwatched(k, r, s)
      BY <2>1 DEF Unwatched
    <2>3. /\ Kept(m) /\ Final(k, m) /\ (Roomy(k) => Roomy(m))
          /\ m.state = k.state /\ m.fixes = k.fixes
      BY <1>4, <2>1, <2>2, SessionChanges
    <2> QED
      BY <2>3
  <1>6. \A d \in Chain : m.sessions[d] = IF d = r THEN Idle ELSE k.sessions[d]
    BY <1>1, <1>2, Fields DEF HasFields
  <1> QED
    BY <1>5, <1>6

(* The gates start for all the chains that wait for them, if none works.     *)
LEMMA GatesKeep ==
    ASSUME NEW k, NEW origin \in Chain \cup {None}, NEW m, m = CheckAndRunGates(k, origin),
           Kept(k)
    PROVE  Kept(m) /\ Final(k, m) /\ (Roomy(k) => Roomy(m))
  <1> DEFINE ready == {c \in Chain : k.state[c] = "awaiting_gates"}
             quiet == ready = {} \/ \E c \in Chain : k.state[c] \in Working
  <1>1. CASE quiet
    <2>1. m = k
      BY <1>1 DEF CheckAndRunGates
    <2> QED
      BY <2>1 DEF Final
  <1>2. CASE ~ quiet
    <2> DEFINE o == Oldest(ready)
               s == [phase |-> "gates", left |-> ready, origin |-> origin]
               l == [k EXCEPT !.state[o] = "gating"]
    <2>1. m = [k EXCEPT !.state[o] = "gating", !.sessions[o] = s]
      BY <1>2 DEF CheckAndRunGates
    <2>2. o \in Chain /\ k.state[o] = "awaiting_gates" /\ ready # {}
      <3>1. ready \in SUBSET Chain /\ ready # {}
        BY <1>2
      <3>2. o \in ready
        BY <3>1, OldestIsIn
      <3> HIDE DEF o
      <3> QED
        BY <3>1, <3>2
    <2>3. s \in Session /\ s.phase = "gates" /\ s.left # {}
      BY <2>2 DEF Session
    <2> HIDE DEF o, s, ready
    <2>4. m = [l EXCEPT !.sessions[o] = s]
      BY <2>1
    <2>5. k \in Controller /\ HasFields(k)
      BY Disassembled DEF Kept, Shape
    <2>6. /\ HasFields(l) /\ l.sessions = k.sessions /\ l.state = [k.state EXCEPT ![o] = "gating"]
          /\ l.queue = k.queue /\ l.active = k.active /\ l.preparing = k.preparing
          /\ l.live = k.live /\ l.respawn = k.respawn
          /\ l.planned = k.planned /\ l.retried = k.retried /\ l.fixes = k.fixes
          /\ l.verified = k.verified /\ l.told = k.told
      BY <2>5 DEF HasFields
    <2>7. l \in Controller
      <3> HIDE DEF l
      <3>1. "gating" \in ChainState
        BY DEF ChainState
      <3>2. l.state \in [Chain -> ChainState \cup {"none"}]
        <4>1. k.state \in [Chain -> ChainState \cup {"none"}]
          BY <2>5, Fields
        <4> QED
          BY <3>1, <4>1, <2>2, <2>6
      <3> QED
        BY <3>2, <2>5, <2>6, Fields, Assembled
    <2> HIDE DEF l
    <2>8. l.state[o] = "gating" /\ Elsewhere(k, l, o)
      BY <2>2, <2>5, <2>6, Fields DEF Elsewhere
    <2>9. Staffed(l, o) /\ StaffedBut(k, o)
      <3>1. Staffed(k, o)
        BY <2>2 DEF Kept
      <3>2. Unmanned(k, o)
        BY <3>1, <2>2 DEF Staffed, AtWork, Terminal
      <3> QED
        BY <2>6, <2>8, <3>2 DEF Staffed, Unmanned, AtWork, Kept, StaffedBut
    <2>10. Kept(l) /\ Final(k, l)
      <3>1. Harmless(k, l, o)
        BY <2>2 DEF Harmless, Landable, Terminal
      <3> QED
        BY <2>2, <2>6, <2>7, <2>8, <2>9, <3>1, Moves DEF Kept, Moving, Landable
    <2>11. Roomy(k) => Roomy(l)
      BY <2>2, <2>6, <2>8, MovesInRoom DEF Moving, Landable
    <2>12. SessionOK(m, o)
      <3>1. m.sessions[o] = s /\ m.state[o] = "gating"
        BY <2>2, <2>4, <2>6, <2>7, <2>8, Fields DEF HasFields
      <3> QED
        BY <3>1, <2>3 DEF SessionOK, Landable
    <2>13. ASSUME NEW r \in Chain \ {o}, l.sessions[r].phase = "landing"
           PROVE  Oldest(l.sessions[r].left) # o
      <3>1. SessionOK(k, r) /\ k.sessions[r].phase = "landing"
        BY <2>6, <2>13 DEF Kept, Shape
      <3>2. Landing(k, r, Oldest(k.sessions[r].left))
        BY <3>1 DEF SessionOK
      <3> QED
        BY <3>2, <2>2, <2>6 DEF Landing, Landable, Terminal
    <2>14. Kept(m) /\ Final(l, m) /\ (Roomy(l) => Roomy(m))
      <3>1. Unwatched(l, o, s)
        BY <2>13 DEF Unwatched
      <3> QED
        BY <2>2, <2>3, <2>4, <2>10, <2>12, <3>1, SessionChanges
    <2>15. Final(k, m)
      BY <2>10, <2>14, FinalTrans
    <2> QED
      BY <2>11, <2>14, <2>15
  <1> QED
    BY <1>1, <1>2

LEMMA AfterwardsKeeps ==
    ASSUME NEW k, NEW c \in Chain \cup {None}, NEW m, m = Afterwards(k, c), Kept(k)
    PROVE  Kept(m) /\ Final(k, m) /\ (Roomy(k) => Roomy(m))
  <1>1. CASE m = k
    BY <1>1 DEF Final
  <1>2. CASE m = CheckAndRunGates(k, None)
    BY <1>2, GatesKeep
  <1> QED
    BY <1>1, <1>2 DEF Afterwards

(* A chain stops for good; the queue is not looked at yet.                   *)
LEMMA StopKeeps ==
    ASSUME NEW k, NEW c \in Chain, NEW v \in {"failed", "cancelled"}, NEW m, m = Stop(k, c, v),
           Shape(k), StaffedBut(k, c), k.state[c] \notin {"none", "passed"}
    PROVE  Kept(m) /\ Final(k, m) /\ m.sessions = k.sessions /\ (Roomy(k) => Loose(m))
  <1>1. k \in Controller /\ HasFields(k) /\ ToldOK(k, c) /\ QueueOK(k)
    BY Disassembled DEF Shape
  <1> DEFINE q == IF k.state[c] = "pending" THEN RemoveFirst(k.queue, c) ELSE k.queue
             n == IF IsActive(k.state[c]) THEN OneLess(k.active) ELSE k.active
             t == IF k.told[c] = "none" THEN v ELSE k.told[c]
  <1>2. /\ q \in Seq(Chain) /\ Entries(q) = Entries(k.queue) \ {c}
        /\ \A i, j \in DOMAIN q : q[i] = q[j] => i = j
    <2>1. CASE k.state[c] = "pending"
      BY <2>1, <1>1, Fields, Unqueued DEF QueueOK
    <2>2. CASE k.state[c] # "pending"
      <3>1. c \notin Entries(k.queue)
        BY <2>2, <1>1 DEF QueueOK
      <3> QED
        BY <2>2, <3>1, <1>1, Fields DEF QueueOK
    <2> QED
      BY <2>1, <2>2
  <1>3. n \in Nat
    BY <1>1, Fields DEF OneLess
  <1>4. t \in {"completed", "failed", "cancelled"}
    BY <1>1, Fields
  <1> DEFINE s == [k.state EXCEPT ![c] = "failed"]
             l == [k.live EXCEPT ![c] = <<>>]
             o == [k.told EXCEPT ![c] = t]
  <1>5. m = [k EXCEPT !.queue = q, !.active = n, !.state = s, !.live = l, !.told = o]
    BY Zenon DEF Stop
  <1>6. s \in [Chain -> ChainState \cup {"none"}] /\ s[c] = "failed"
        /\ \A d \in Chain \ {c} : s[d] = k.state[d]
    BY <1>1, Fields DEF ChainState, Terminal
  <1>7. l \in [Chain -> Seq(Role)] /\ l[c] = <<>> /\ \A d \in Chain \ {c} : l[d] = k.live[d]
    BY <1>1, Fields
  <1>8. /\ o \in [Chain -> {"none", "completed", "failed", "cancelled"}] /\ o[c] = t
        /\ \A d \in Chain \ {c} : o[d] = k.told[d]
    BY <1>1, <1>4, Fields
  <1>9. t \in {"failed", "cancelled"} /\ (k.state[c] = "failed" => t = k.told[c])
    BY <1>1, Fields DEF ToldOK, Terminal, ChainState
  <1>10. (k.state[c] = "pending" => q = RemoveFirst(k.queue, c))
         /\ (IsActive(k.state[c]) => n = OneLess(k.active))
         /\ (~ IsActive(k.state[c]) => n = k.active)
    OBVIOUS
  <1> HIDE DEF q, n, t, s, l, o
  <1>11. /\ HasFields(m) /\ m.sessions = k.sessions /\ m.state = s /\ m.live = l /\ m.told = o
         /\ m.queue = q /\ m.active = n /\ m.preparing = k.preparing /\ m.respawn = k.respawn
         /\ m.planned = k.planned /\ m.retried = k.retried /\ m.fixes = k.fixes
         /\ m.verified = k.verified
    BY <1>1, <1>5 DEF HasFields
  <1>12. m \in Controller
    BY <1>1, <1>2, <1>3, <1>6, <1>7, <1>8, <1>11, Fields, Assembled
  <1>13. Elsewhere(k, m, c)
    BY <1>6, <1>7, <1>8, <1>11 DEF Elsewhere
  <1>14. \A d \in Chain : Staffed(m, d)
    <2>1. Staffed(m, c)
      BY <1>6, <1>7, <1>11 DEF Staffed, AtWork, Terminal
    <2> QED
      BY <2>1, <1>13, StaffedElsewhere
  <1>15. \A d \in Chain : ToldOK(m, d)
    <2>1. ToldOK(m, c)
      BY <1>6, <1>8, <1>9, <1>11 DEF ToldOK, Terminal
    <2> QED
      BY <2>1, <1>13, ToldElsewhere DEF Shape
  <1>16. \A d \in Chain : SessionOK(m, d)
    <2>1. \A d \in Chain : Harmless(k, m, d)
      BY <1>6, <1>11 DEF Harmless
    <2> QED
      BY <2>1, <1>1, <1>11, SessionStands DEF Shape
  <1>17. QueueOK(m)
    <2>1. Entries(k.queue) \subseteq Chain /\ k.preparing \subseteq Chain
      BY <1>1, Fields DEF Entries
    <2> HIDE DEF Entries
    <2> QED
      BY <2>1, <1>1, <1>2, <1>6, <1>11 DEF QueueOK
  <1>18. Final(k, m)
    <2>1. k.state[c] \in Terminal => k.state[c] = "failed"
      BY DEF Terminal
    <2> QED
      BY <2>1, <1>6, <1>8, <1>9, <1>11 DEF Final
  <1>19. ASSUME Roomy(k) PROVE Loose(m)
    <2>1. Counted(m) /\ (m.active = k.active \/ m.active + 1 = k.active)
      <3>1. ~ IsActive(m.state[c])
        BY <1>6, <1>11, ActiveStates DEF Terminal
      <3>2. CASE IsActive(k.state[c])
        <4>1. m.active = OneLess(k.active)
          BY <3>2, <1>10, <1>11
        <4>2. \A d \in Chain \ {c} : IsActive(m.state[d]) <=> IsActive(k.state[d])
          BY <1>6, <1>11
        <4> QED
          BY <3>1, <3>2, <4>1, <4>2, <1>19, CountDown DEF Roomy
      <3>3. CASE ~ IsActive(k.state[c])
        <4>1. m.active = k.active
          BY <3>3, <1>10, <1>11
        <4>2. \A d \in Chain : IsActive(m.state[d]) <=> IsActive(k.state[d])
          BY <3>1, <3>3, <1>6, <1>11
        <4> QED
          BY <4>1, <4>2, <1>19, CountStays DEF Roomy
      <3> QED
        BY <3>2, <3>3
    <2>2. m.queue # <<>> => k.queue # <<>>
      <3> SUFFICES ASSUME m.queue # <<>> PROVE k.queue # <<>>
        OBVIOUS
      <3>1. 1 \in DOMAIN q
        BY <1>2, <1>11
      <3>2. q[1] \in Entries(k.queue)
        BY <3>1, <1>2 DEF Entries
      <3> QED
        BY <3>2 DEF Entries
    <2>3. k.active \in Nat /\ m.active \in Nat
      BY <1>1, <1>12, Fields
    <2> QED
      BY <2>1, <2>2, <2>3, <1>19, WrfcAssumption DEF Roomy, Loose
  <1> QED
    BY <1>11, <1>12, <1>14, <1>15, <1>16, <1>17, <1>18, <1>19 DEF Kept, Shape

LEMMA CancelKeeps ==
    ASSUME NEW k, NEW c \in Chain, NEW m, m = CancelChain(k, c),
           Kept(k), k.state[c] \notin {"none", "passed"}
    PROVE  Kept(m) /\ Final(k, m) /\ m.sessions = k.sessions /\ (Roomy(k) => Roomy(m))
  <1> DEFINE l == Stop(k, c, "cancelled")
  <1>1. Kept(l) /\ Final(k, l) /\ l.sessions = k.sessions /\ (Roomy(k) => Loose(l))
    BY StopKeeps DEF Kept, StaffedBut
  <1>2. m = DequeueNext(l)
    BY DEF CancelChain
  <1> HIDE DEF l
  <1>3. Kept(m) /\ Final(l, m) /\ m.sessions = l.sessions /\ (Loose(l) => Roomy(m))
    BY <1>1, <1>2, DequeueKeeps
  <1>4. Final(k, m)
    BY <1>1, <1>3, FinalTrans
  <1> QED
    BY <1>1, <1>3, <1>4

LEMMA FailKeeps ==
    ASSUME NEW k, NEW c \in Chain, NEW m, m = FailChain(k, c),
           Shape(k), StaffedBut(k, c), k.state[c] \notin {"none", "passed"}
    PROVE  Kept(m) /\ Final(k, m) /\ (Roomy(k) => Roomy(m))
  <1> DEFINE l == Stop(k, c, "failed")
             h == DequeueNext(l)
  <1>1. Kept(l) /\ Final(k, l) /\ (Roomy(k) => Loose(l))
    BY StopKeeps
  <1>2. m = CheckAndRunGates(h, None)
    BY DEF FailChain
  <1> HIDE DEF l
  <1>3. Kept(h) /\ Final(l, h) /\ (Loose(l) => Roomy(h))
    BY <1>1, DequeueKeeps
  <1> HIDE DEF h
  <1>4. Kept(m) /\ Final(h, m) /\ (Roomy(h) => Roomy(m))
    BY <1>2, <1>3, GatesKeep
  <1>5. Final(k, h)
    BY <1>1, <1>3, FinalTrans
  <1>6. Final(k, m)
    BY <1>4, <1>5, FinalTrans
  <1> QED
    BY <1>1, <1>3, <1>4, <1>6

(* A chain whose work has landed has passed.                                 *)
LEMMA CompleteKeeps ==
    ASSUME NEW k, NEW c \in Chain, NEW m, m = CompleteAsPassed(k, c),
           Kept(k), k.state[c] \in Landable, k.sessions[c].phase # "gates"
    PROVE  Kept(m) /\ Final(k, m) /\ m.sessions = k.sessions /\ (Roomy(k) => Roomy(m))
  <1>1. k \in Controller /\ HasFields(k) /\ ToldOK(k, c) /\ QueueOK(k) /\ Staffed(k, c)
    BY Disassembled DEF Kept, Shape
  <1>2. k.state[c] \notin AtWork \cup Terminal \cup {"pending", "failed"}
    BY DEF AtWork, Terminal, Landable
  <1>3. k.told[c] = "none" /\ Unmanned(k, c)
    BY <1>1, <1>2 DEF ToldOK, Staffed
  <1> DEFINE n == OneLess(k.active)
             s == [k.state EXCEPT ![c] = "passed"]
             t == IF k.told[c] = "none" THEN "completed" ELSE k.told[c]
             o == [k.told EXCEPT ![c] = t]
             l == [k EXCEPT !.active = n, !.state = s, !.told = o]
  <1>4. m = DequeueNext(l)
    BY Zenon DEF CompleteAsPassed
  <1>5. n \in Nat
    BY <1>1, Fields DEF OneLess
  <1>6. s \in [Chain -> ChainState \cup {"none"}] /\ s[c] = "passed"
        /\ \A d \in Chain \ {c} : s[d] = k.state[d]
    BY <1>1, Fields DEF ChainState, Terminal
  <1>7. /\ o \in [Chain -> {"none", "completed", "failed", "cancelled"}] /\ o[c] = "completed"
        /\ \A d \in Chain \ {c} : o[d] = k.told[d]
    BY <1>1, <1>3, Fields
  <1> HIDE DEF n, s, t, o
  <1>8. l = [k EXCEPT !.active = n, !.state = s, !.told = o]
    OBVIOUS
  <1> HIDE DEF l
  <1>9. /\ HasFields(l) /\ l.sessions = k.sessions /\ l.state = s /\ l.live = k.live
        /\ l.told = o /\ l.queue = k.queue /\ l.active = n /\ l.preparing = k.preparing
        /\ l.respawn = k.respawn /\ l.planned = k.planned /\ l.retried = k.retried
        /\ l.fixes = k.fixes /\ l.verified = k.verified
    BY <1>1, <1>8 DEF HasFields
  <1>10. l \in Controller
    BY <1>1, <1>5, <1>6, <1>7, <1>9, Fields, Assembled
  <1>11. Elsewhere(k, l, c)
    BY <1>6, <1>7, <1>9 DEF Elsewhere
  <1>12. \A d \in Chain : Staffed(l, d)
    <2>1. Staffed(l, c)
      BY <1>3, <1>6, <1>9 DEF Staffed, Unmanned, AtWork
    <2> QED
      BY <2>1, <1>11, StaffedElsewhere DEF Kept, StaffedBut
  <1>13. \A d \in Chain : ToldOK(l, d)
    <2>1. ToldOK(l, c)
      BY <1>6, <1>7, <1>9 DEF ToldOK, Terminal
    <2> QED
      BY <2>1, <1>11, ToldElsewhere DEF Kept, Shape
  <1>14. \A d \in Chain : SessionOK(l, d)
    <2>1. \A d \in Chain : Harmless(k, l, d)
      BY <1>6, <1>9 DEF Harmless
    <2> QED
      BY <2>1, <1>1, <1>9, SessionStands DEF Kept, Shape
  <1>15. QueueOK(l)
    <2>1. \A d \in Chain : l.state[d] = k.state[d] \/ k.state[d] \notin {"pending", "failed"}
      BY <1>2, <1>6, <1>9
    <2> QED
      BY <2>1, <1>1, <1>9, QueueStands
  <1>16. Kept(l) /\ Final(k, l)
    BY <1>2, <1>10, <1>11, <1>12, <1>13, <1>14, <1>15, FinalElsewhere DEF Kept, Shape
  <1>17. ASSUME Roomy(k) PROVE Loose(l)
    <2>1. IsActive(k.state[c]) /\ ~ IsActive(l.state[c]) /\ l.active = OneLess(k.active)
      BY <1>6, <1>9, ActiveStates DEF Terminal, n
    <2>2. \A d \in Chain \ {c} : IsActive(l.state[d]) <=> IsActive(k.state[d])
      BY <1>6, <1>9
    <2>3. Counted(l) /\ l.active + 1 = k.active
      BY <2>1, <2>2, <1>17, CountDown DEF Roomy
    <2>4. k.active \in Nat /\ l.active \in Nat
      BY <1>1, <1>10, Fields
    <2> QED
      BY <2>3, <2>4, <1>9, <1>17, WrfcAssumption DEF Roomy, Loose
  <1>18. Kept(m) /\ Final(l, m) /\ m.sessions = l.sessions /\ (Loose(l) => Roomy(m))
    BY <1>4, <1>16, DequeueKeeps
  <1>19. Final(k, m)
    BY <1>16, <1>18, FinalTrans
  <1> QED
    BY <1>9, <1>17, <1>18, <1>19

(* The session goes on to the next chain, or is over.                        *)
LEMMA NextTurnKeeps ==
    ASSUME NEW k, NEW r \in Chain, NEW m, m = NextTurn(k, r),
           Kept(k), k.sessions[r].phase # "idle"
    PROVE  Kept(m) /\ Final(k, m) /\ (Roomy(k) => Roomy(m))
  <1> DEFINE s == k.sessions[r]
             rest == s.left \ {Oldest(s.left)}
             l == Close(k, r)
             z == [s EXCEPT !.phase = "turn", !.left = rest]
  <1>1. k \in Controller /\ HasFields(k) /\ s \in Session /\ SessionOK(k, r)
    BY Fields, Disassembled DEF Kept, Shape
  <1>2. rest \in SUBSET Chain /\ s.origin \in Chain \cup {None}
    BY <1>1, SessionFields
  <1>3. CASE rest = {}
    <2>1. m = Afterwards(l, s.origin)
      BY <1>3 DEF NextTurn
    <2>2. Kept(l) /\ Final(k, l) /\ (Roomy(k) => Roomy(l))
      BY CloseKeeps
    <2> HIDE DEF l
    <2>3. Kept(m) /\ Final(l, m) /\ (Roomy(l) => Roomy(m))
      BY <1>2, <2>1, <2>2, AfterwardsKeeps
    <2>4. Final(k, m)
      BY <2>2, <2>3, FinalTrans
    <2> QED
      BY <2>2, <2>3, <2>4
  <1>4. CASE rest # {}
    <2>1. m = [k EXCEPT !.sessions[r] = z]
      BY <1>4 DEF NextTurn
    <2>2. z \in Session /\ z.phase = "turn" /\ z.left = rest
      BY <1>1, <1>2 DEF Session
    <2> HIDE DEF z
    <2>3. m.sessions[r] = z /\ m.state = k.state
      BY <1>1, <2>1, Fields DEF HasFields
    <2>4. SessionOK(m, r)
      BY <1>1, <1>4, <2>2, <2>3 DEF SessionOK
    <2>5. Unwatched(k, r, z)
      BY DEF Unwatched
    <2> QED
      BY <2>1, <2>2, <2>4, <2>5, SessionChanges
  <1> QED
    BY <1>3, <1>4

-----------------------------------------------------------------------------
(* The actions.                                                              *)

(* What a step from k to m does to the invariant.                            *)
Safe(k, m) == Kept(m) /\ Final(k, m) /\ (Roomy(k) => Roomy(m))

LEMMA SafeTrans ==
    ASSUME NEW k, NEW l, NEW m, Safe(k, l), Safe(l, m)
    PROVE  Safe(k, m)
  BY FinalTrans DEF Safe

(* A chain whose child has just gone: nobody works for it.                   *)
LEMMA WithoutKeeps ==
    ASSUME NEW k, NEW c \in Chain, NEW i \in DOMAIN k.live[c], NEW m, m = Without(k, c, i),
           Kept(k)
    PROVE  /\ m \in Controller /\ Shape(m) /\ StaffedBut(m, c) /\ Unmanned(m, c)
           /\ Final(k, m) /\ (Roomy(k) => Roomy(m))
           /\ k.state[c] \in AtWork /\ m.state = k.state /\ m.fixes = k.fixes
           /\ m.verified = k.verified /\ m.retried = k.retried /\ i = Len(k.live[c])
  <1>1. k \in Controller /\ HasFields(k) /\ Staffed(k, c) /\ k.live[c] \in Seq(Role)
    BY Fields, Disassembled DEF Kept, Shape
  <1>2. k.live[c] # <<>>
    BY <1>1
  <1>3. /\ k.state[c] \in AtWork /\ Len(k.live[c]) = 1
        /\ k.respawn[c] = "none" /\ c \notin k.planned
    BY <1>1, <1>2 DEF Staffed
  <1> DEFINE e == RemoveAt(k.live[c], i)
  <1>4. e \in Seq(Role) /\ Len(e) = 0 /\ i = 1
    BY <1>1, <1>3, RemovedAt
  <1>5. e = <<>>
    BY <1>4
  <1> HIDE DEF e
  <1>6. m = [k EXCEPT !.live[c] = e]
    BY DEF Without, e
  <1>7. /\ HasFields(m) /\ m.sessions = k.sessions /\ m.state = k.state
        /\ m.live = [k.live EXCEPT ![c] = e]
        /\ m.told = k.told /\ m.queue = k.queue /\ m.active = k.active
        /\ m.preparing = k.preparing /\ m.respawn = k.respawn /\ m.planned = k.planned
        /\ m.retried = k.retried /\ m.fixes = k.fixes /\ m.verified = k.verified
    BY <1>1, <1>6 DEF HasFields
  <1>8. m.live \in [Chain -> Seq(Role)] /\ m.live[c] = <<>>
        /\ \A d \in Chain \ {c} : m.live[d] = k.live[d]
    <2>1. k.live \in [Chain -> Seq(Role)]
      BY <1>1, Fields
    <2>2. m.live \in [Chain -> Seq(Role)]
      BY <1>4, <1>7, <2>1
    <2>3. m.live[c] = e /\ \A d \in Chain \ {c} : m.live[d] = k.live[d]
      BY <1>7, <2>1
    <2> QED
      BY <1>5, <2>2, <2>3
  <1>9. m \in Controller
    BY <1>1, <1>7, <1>8, Fields, Assembled
  <1>10. Unmanned(m, c)
    BY <1>3, <1>7, <1>8 DEF Unmanned
  <1>11. StaffedBut(m, c)
    BY <1>7, <1>8 DEF StaffedBut, Kept, Staffed, Unmanned
  <1>12. Shape(m)
    BY <1>7, <1>9 DEF Kept, Shape, QueueOK, ToldOK, SessionOK, Landing
  <1>13. Final(k, m)
    BY <1>7 DEF Final
  <1>14. Roomy(k) => Roomy(m)
    <2>1. Act(m) = Act(k) /\ Awaited(m) = Awaited(k)
      BY <1>7 DEF Act, Awaited
    <2> QED
      BY <1>7, <2>1 DEF Roomy, Counted
  <1> QED
    BY <1>3, <1>4, <1>7, <1>9, <1>10, <1>11, <1>12, <1>13, <1>14

(* One worker starts for a chain that nobody works for.                      *)
LEMMA WorkStarts ==
    ASSUME NEW k \in Controller, NEW m \in Controller, NEW c \in Chain,
           Shape(k), StaffedBut(k, c), Unmanned(k, c), Elsewhere(k, m, c), Staffed(m, c),
           m.queue = k.queue, m.preparing = k.preparing, m.sessions = k.sessions,
           m.told = k.told, m.active = k.active,
           k.state[c] \in AtWork, m.state[c] \in Moving
    PROVE  Safe(k, m)
  <1>1. Harmless(k, m, c)
    BY DEF Harmless, AtWork, Landable, Terminal
  <1>2. Kept(m) /\ Final(k, m)
    BY <1>1, Moves DEF Moving
  <1>3. Roomy(k) => Roomy(m)
    BY MovesInRoom DEF Moving
  <1> QED
    BY <1>2, <1>3 DEF Safe

LEMMA ReviewStarts ==
    ASSUME NEW k \in Controller, NEW c \in Chain, NEW m, m = StartReview(k, c),
           Shape(k), StaffedBut(k, c), Unmanned(k, c), k.state[c] \in AtWork
    PROVE  Safe(k, m)
  <1> DEFINE s == [k.state EXCEPT ![c] = "reviewing"]
             l == [k.live EXCEPT ![c] = Append(@, "reviewer")]
  <1>1. HasFields(k)
    BY Disassembled
  <1>2. /\ HasFields(m) /\ m.sessions = k.sessions /\ m.state = s /\ m.live = l
        /\ m.told = k.told /\ m.queue = k.queue /\ m.active = k.active
        /\ m.preparing = k.preparing /\ m.respawn = k.respawn /\ m.planned = k.planned
        /\ m.retried = k.retried /\ m.fixes = k.fixes /\ m.verified = k.verified
    BY <1>1 DEF StartReview, Spawn, HasFields
  <1>3. /\ s \in [Chain -> ChainState \cup {"none"}] /\ s[c] = "reviewing"
        /\ \A d \in Chain \ {c} : s[d] = k.state[d]
    BY Fields DEF ChainState, Working
  <1>4. /\ l \in [Chain -> Seq(Role)] /\ Len(l[c]) = 1
        /\ \A d \in Chain \ {c} : l[d] = k.live[d]
    BY Fields DEF Role, Unmanned
  <1> HIDE DEF s, l
  <1>5. m \in Controller
    BY <1>2, <1>3, <1>4, Fields, Assembled
  <1>6. Elsewhere(k, m, c)
    BY <1>2, <1>3, <1>4 DEF Elsewhere
  <1>7. Staffed(m, c) /\ m.state[c] \in Moving
    BY <1>2, <1>3, <1>4 DEF Staffed, Unmanned, AtWork, Moving
  <1> QED
    BY <1>2, <1>5, <1>6, <1>7, WorkStarts

LEMMA PlannedFixStarts ==
    ASSUME NEW k \in Controller, NEW c \in Chain, NEW m, m = StartPlannedFix(k, c),
           Shape(k), StaffedBut(k, c), Unmanned(k, c), k.state[c] \in AtWork,
           k.fixes[c] < MaxFixes
    PROVE  Safe(k, m)
  <1> DEFINE s == [k.state EXCEPT ![c] = "fixing"]
             f == [k.fixes EXCEPT ![c] = @ + 1]
             x == k.planned \cup {c}
  <1>1. HasFields(k)
    BY Disassembled
  <1>2. /\ HasFields(m) /\ m.sessions = k.sessions /\ m.state = s /\ m.live = k.live
        /\ m.told = k.told /\ m.queue = k.queue /\ m.active = k.active
        /\ m.preparing = k.preparing /\ m.respawn = k.respawn /\ m.planned = x
        /\ m.retried = k.retried /\ m.fixes = f /\ m.verified = k.verified
    BY <1>1 DEF StartPlannedFix, HasFields
  <1>3. /\ s \in [Chain -> ChainState \cup {"none"}] /\ s[c] = "fixing"
        /\ \A d \in Chain \ {c} : s[d] = k.state[d]
    BY Fields DEF ChainState, Working
  <1>4. f \in [Chain -> 0 .. MaxFixes]
    BY Fields, WrfcAssumption
  <1>5. x \in SUBSET Chain
    BY Fields
  <1> HIDE DEF s, f
  <1>6. m \in Controller
    <2> HIDE DEF x
    <2> QED
      BY <1>2, <1>3, <1>4, <1>5, Fields, Assembled
  <1>7. Elsewhere(k, m, c)
    BY <1>2, <1>3 DEF Elsewhere
  <1>8. Staffed(m, c) /\ m.state[c] \in Moving
    BY <1>2, <1>3 DEF Staffed, Unmanned, AtWork, Moving
  <1> QED
    BY <1>2, <1>6, <1>7, <1>8, WorkStarts

LEMMA FailIsSafe ==
    ASSUME NEW k, NEW c \in Chain, NEW m, m = FailChain(k, c),
           Shape(k), StaffedBut(k, c), k.state[c] \in AtWork \cup {"gating", "failed"}
    PROVE  Safe(k, m)
  <1>1. k.state[c] \notin {"none", "passed"}
    BY DEF AtWork
  <1> QED
    BY <1>1, FailKeeps DEF Safe

LEMMA AfterwardsIsSafe ==
    ASSUME NEW k, NEW l, NEW c \in Chain \cup {None}, NEW m, Safe(k, l), m = Afterwards(l, c)
    PROVE  Safe(k, m)
  <1>1. Safe(l, m)
    BY AfterwardsKeeps DEF Safe
  <1> QED
    BY <1>1, SafeTrans

LEMMA CreateIsSafe ==
    ASSUME Kept(ctl), NEW c \in Chain, Create(c)
    PROVE  Safe(ctl, ctl')
  <1> DEFINE k == [ctl EXCEPT !.state[c] = "pending"]
             s == [ctl.state EXCEPT ![c] = "pending"]
  <1>1. /\ ctl \in Controller /\ HasFields(ctl) /\ QueueOK(ctl)
        /\ Staffed(ctl, c) /\ ToldOK(ctl, c) /\ ctl.state[c] = "none"
    BY Disassembled DEF Kept, Shape, Create
  <1>2. ctl' = IF k.active >= MaxActive THEN [k EXCEPT !.queue = Append(@, c)] ELSE Start(k, c)
    BY DEF Create
  <1>3. /\ HasFields(k) /\ k.sessions = ctl.sessions /\ k.state = s /\ k.live = ctl.live
        /\ k.told = ctl.told /\ k.queue = ctl.queue /\ k.active = ctl.active
        /\ k.preparing = ctl.preparing /\ k.respawn = ctl.respawn /\ k.planned = ctl.planned
        /\ k.retried = ctl.retried /\ k.fixes = ctl.fixes /\ k.verified = ctl.verified
    BY <1>1 DEF HasFields
  <1>4. /\ s \in [Chain -> ChainState \cup {"none"}] /\ s[c] = "pending"
        /\ \A d \in Chain \ {c} : s[d] = ctl.state[d]
    BY <1>1, Fields DEF ChainState, Working
  <1> HIDE DEF s, k
  <1>5. k \in Controller
    BY <1>1, <1>3, <1>4, Fields, Assembled
  <1>6. Elsewhere(ctl, k, c) /\ ctl.state[c] \notin AtWork \cup Landable \cup Terminal
    BY <1>1, <1>3, <1>4 DEF Elsewhere, AtWork, Landable, Terminal
  <1>7. \A d \in Chain : Staffed(k, d)
    <2>1. Unmanned(ctl, c)
      BY <1>1, <1>6 DEF Staffed
    <2>2. Staffed(k, c)
      BY <2>1, <1>3, <1>4 DEF Staffed, Unmanned, AtWork
    <2> QED
      BY <2>2, <1>6, StaffedElsewhere DEF Kept, StaffedBut
  <1>8. \A d \in Chain : ToldOK(k, d)
    <2>1. ToldOK(k, c)
      BY <1>1, <1>3, <1>4, <1>6 DEF ToldOK, Terminal
    <2> QED
      BY <2>1, <1>6, ToldElsewhere DEF Kept, Shape
  <1>9. \A d \in Chain : SessionOK(k, d)
    <2>1. \A d \in Chain : Harmless(ctl, k, d)
      BY <1>3, <1>4, <1>6 DEF Harmless
    <2> QED
      BY <2>1, <1>1, <1>3, SessionStands DEF Kept, Shape
  <1>10. QueueOK(k)
    <2>1. \A d \in Chain : k.state[d] = ctl.state[d] \/ ctl.state[d] \notin {"pending", "failed"}
      BY <1>1, <1>3, <1>4
    <2> QED
      BY <2>1, <1>1, <1>3, QueueStands
  <1>11. Kept(k) /\ Final(ctl, k)
    BY <1>5, <1>6, <1>7, <1>8, <1>9, <1>10, FinalElsewhere DEF Kept, Shape
  <1>12. Roomy(ctl) => Roomy(k)
    <2>1. \A d \in Chain : IsActive(k.state[d]) <=> IsActive(ctl.state[d])
      BY <1>1, <1>3, <1>4, ActiveStates
    <2>2. \A d \in Chain : ctl.state[d] = "pending" => k.state[d] = "pending"
      BY <1>3, <1>4
    <2> QED
      BY <2>1, <2>2, <1>3, RoomStays
  <1>13. k.state[c] = "pending" /\ c \notin Entries(k.queue) /\ c \notin k.preparing
    BY <1>1, <1>3, <1>4 DEF QueueOK
  <1>14. Safe(k, ctl')
    <2>1. CASE k.active >= MaxActive
      <3> DEFINE q == Append(k.queue, c)
      <3>1. ctl' = [k EXCEPT !.queue = q]
        BY <2>1, <1>2
      <3>2. /\ q \in Seq(Chain) /\ Entries(q) = Entries(k.queue) \cup {c}
            /\ \A i, j \in DOMAIN q : q[i] = q[j] => i = j
        <4>1. /\ k.queue \in Seq(Chain) /\ DOMAIN k.queue = 1 .. Len(k.queue)
              /\ \A i, j \in DOMAIN k.queue : k.queue[i] = k.queue[j] => i = j
              /\ \A i \in DOMAIN k.queue : k.queue[i] # c
          BY <1>5, <1>10, <1>13, Fields DEF QueueOK, Entries
        <4>2. /\ q \in Seq(Chain) /\ DOMAIN q = 1 .. Len(k.queue) + 1
              /\ \A i \in 1 .. Len(k.queue) : q[i] = k.queue[i]
              /\ q[Len(k.queue) + 1] = c
          BY <4>1
        <4> HIDE DEF q
        <4>3. Len(k.queue) \in Nat
          BY <4>1
        <4>4. \A i \in DOMAIN q : i \in DOMAIN k.queue \/ i = Len(k.queue) + 1
          BY <4>1, <4>2, <4>3
        <4>5. \A i, j \in DOMAIN q : q[i] = q[j] => i = j
          BY <4>1, <4>2, <4>4
        <4>6. Entries(q) = Entries(k.queue) \cup {c}
          BY <4>1, <4>2, <4>3, <4>4 DEF Entries
        <4> QED
          BY <4>2, <4>5, <4>6
      <3> HIDE DEF q
      <3>3. /\ HasFields(ctl') /\ ctl'.sessions = k.sessions /\ ctl'.state = k.state
            /\ ctl'.live = k.live
            /\ ctl'.told = k.told /\ ctl'.queue = q /\ ctl'.active = k.active
            /\ ctl'.preparing = k.preparing /\ ctl'.respawn = k.respawn
            /\ ctl'.planned = k.planned /\ ctl'.retried = k.retried /\ ctl'.fixes = k.fixes
            /\ ctl'.verified = k.verified
        BY <3>1, <1>3 DEF HasFields
      <3>4. ctl' \in Controller
        BY <3>2, <3>3, <1>5, Fields, Assembled
      <3>5. \A d \in Chain : Staffed(ctl', d) /\ ToldOK(ctl', d) /\ SessionOK(ctl', d)
        BY <3>3, <1>7, <1>8, <1>9 DEF Staffed, Unmanned, ToldOK, SessionOK, Landing
      <3>6. QueueOK(ctl')
        <4> HIDE DEF Entries
        <4> QED
          BY <3>2, <3>3, <1>10, <1>13 DEF QueueOK
      <3>7. Final(k, ctl')
        BY <3>3 DEF Final
      <3>8. Roomy(k) => Roomy(ctl')
        <4> SUFFICES ASSUME Roomy(k) PROVE Roomy(ctl')
          OBVIOUS
        <4>1. Act(ctl') = Act(k) /\ Awaited(ctl') = Awaited(k)
          BY <3>3 DEF Act, Awaited
        <4>2. Act(k) # {}
          <5>1. k.active \in Nat /\ k.active # 0
            BY <2>1, <1>5, Fields, WrfcAssumption
          <5> QED
            BY <5>1, FS_EmptySet DEF Roomy, Counted
        <4> QED
          BY <2>1, <3>3, <4>1, <4>2 DEF Roomy, Counted, Awaited
      <3> QED
        BY <3>4, <3>5, <3>6, <3>7, <3>8 DEF Safe, Kept, Shape
    <2>2. CASE ~ (k.active >= MaxActive)
      <3>1. /\ Kept(ctl') /\ Final(k, ctl') /\ (Counted(k) => Counted(ctl'))
            /\ ctl'.queue = k.queue /\ c \in Awaited(ctl')
            /\ ~ deployment.isolated => ctl'.active = k.active + 1
        BY <2>2, <1>2, <1>5, <1>11, <1>13, StartKeeps
      <3>2. k.active \in Nat
        BY <1>5, Fields
      <3>3. Roomy(k) => Roomy(ctl')
        BY <2>2, <3>1, <3>2, WrfcAssumption DEF Roomy
      <3> QED
        BY <3>1, <3>3 DEF Safe
    <2> QED
      BY <2>1, <2>2
  <1>15. Safe(ctl, k)
    BY <1>11, <1>12 DEF Safe
  <1> QED
    BY <1>14, <1>15, SafeTrans

LEMMA CancelIsSafe ==
    ASSUME Kept(ctl), NEW c \in Chain, Cancel(c)
    PROVE  Safe(ctl, ctl')
  <1>1. ctl' = CancelChain(ctl, c) /\ ctl.state[c] \notin {"none", "passed"}
    BY DEF Cancel, Terminal
  <1> QED
    BY <1>1, CancelKeeps DEF Safe

LEMMA WorkspaceReadyIsSafe ==
    ASSUME Kept(ctl), NEW c \in Chain, WorkspaceReady(c)
    PROVE  Safe(ctl, ctl')
  <1> DEFINE p == ctl.preparing \ {c}
             k == [ctl EXCEPT !.preparing = p]
  <1>1. ctl \in Controller /\ HasFields(ctl) /\ QueueOK(ctl) /\ c \in ctl.preparing
    BY Disassembled DEF Kept, Shape, WorkspaceReady
  <1>2. deployment.isolated /\ ctl.state[c] \in {"pending", "failed"} /\ c \notin Entries(ctl.queue)
    BY <1>1 DEF QueueOK
  <1>3. ctl' = IF k.state[c] = "pending" THEN StartEngineer(k, c) ELSE k
    BY DEF WorkspaceReady
  <1>4. p \in SUBSET Chain
    BY <1>1, Fields
  <1>5. /\ HasFields(k) /\ k.sessions = ctl.sessions /\ k.state = ctl.state /\ k.live = ctl.live
        /\ k.told = ctl.told /\ k.queue = ctl.queue /\ k.active = ctl.active
        /\ k.preparing = p /\ k.respawn = ctl.respawn /\ k.planned = ctl.planned
        /\ k.retried = ctl.retried /\ k.fixes = ctl.fixes /\ k.verified = ctl.verified
    BY <1>1 DEF HasFields
  <1> HIDE DEF k
  <1>6. k \in Controller
    <2> HIDE DEF p
    <2> QED
      BY <1>1, <1>4, <1>5, Fields, Assembled
  <1>7. \A d \in Chain : Staffed(k, d) /\ ToldOK(k, d) /\ SessionOK(k, d)
    BY <1>5 DEF Kept, Shape, Staffed, Unmanned, ToldOK, SessionOK, Landing
  <1>8. QueueOK(k)
    BY <1>1, <1>2, <1>5 DEF QueueOK
  <1>9. Kept(k) /\ Final(ctl, k)
    BY <1>5, <1>6, <1>7, <1>8 DEF Kept, Shape, Final
  <1>10. Counted(ctl) => Counted(k)
    BY <1>5 DEF Counted, Act
  <1>11. CASE k.state[c] = "pending"
    <2>1. ctl' = StartEngineer(k, c) /\ c \notin Entries(k.queue) /\ c \notin k.preparing
      BY <1>2, <1>3, <1>5, <1>11
    <2>2. /\ Kept(ctl') /\ Final(k, ctl') /\ (Counted(k) => Counted(ctl'))
          /\ c \in Awaited(ctl')
      BY <1>6, <1>9, <1>11, <2>1, StartEngineerKeeps
    <2>3. Roomy(ctl) => Roomy(ctl')
      BY <1>2, <1>10, <2>2 DEF Roomy
    <2>4. Final(ctl, ctl')
      BY <1>9, <2>2, FinalTrans
    <2> QED
      BY <2>2, <2>3, <2>4 DEF Safe
  <1>12. CASE k.state[c] # "pending"
    <2>1. ctl' = k /\ Act(k) = Act(ctl) /\ Awaited(k) = Awaited(ctl)
      BY <1>3, <1>5, <1>12 DEF Act, Awaited
    <2>2. Roomy(ctl) => Roomy(ctl')
      BY <1>2, <1>5, <1>10, <2>1 DEF Roomy
    <2> QED
      BY <1>9, <2>1, <2>2 DEF Safe
  <1> QED
    BY <1>11, <1>12

LEMMA WorkDoneIsSafe ==
    ASSUME Kept(ctl), NEW c \in Chain, WorkDone(c)
    PROVE  Safe(ctl, ctl')
  <1>1. PICK i \in DOMAIN ctl.live[c], found \in BOOLEAN :
            ctl' = Afterwards(StartReview([Without(ctl, c, i) EXCEPT !.verified[c] = found], c), c)
    BY DEF WorkDone
  <1> DEFINE w == Without(ctl, c, i)
             k == [w EXCEPT !.verified[c] = found]
             l == StartReview(k, c)
  <1>2. /\ w \in Controller /\ Shape(w) /\ StaffedBut(w, c) /\ Unmanned(w, c)
        /\ Final(ctl, w) /\ (Roomy(ctl) => Roomy(w))
        /\ ctl.state[c] \in AtWork /\ w.state = ctl.state
    BY WithoutKeeps
  <1>3. ctl' = Afterwards(l, c)
    BY <1>1
  <1> HIDE DEF w
  <1>4. HasFields(w)
    BY <1>2, Disassembled
  <1>5. /\ HasFields(k) /\ k.sessions = w.sessions /\ k.state = w.state /\ k.live = w.live
        /\ k.told = w.told /\ k.queue = w.queue /\ k.active = w.active
        /\ k.preparing = w.preparing /\ k.respawn = w.respawn /\ k.planned = w.planned
        /\ k.retried = w.retried /\ k.fixes = w.fixes
        /\ k.verified = [w.verified EXCEPT ![c] = found]
    BY <1>4 DEF HasFields
  <1> HIDE DEF k
  <1>6. k.verified \in [Chain -> BOOLEAN]
    <2>1. w.verified \in [Chain -> BOOLEAN]
      BY <1>2, Fields
    <2> QED
      BY <1>5, <2>1, Zenon
  <1>7. k \in Controller
    BY <1>2, <1>5, <1>6, Fields, Assembled
  <1>8. Shape(k) /\ StaffedBut(k, c) /\ Unmanned(k, c)
    <2>1. QueueOK(k)
      BY <1>2, <1>5 DEF Shape, QueueOK
    <2>2. \A d \in Chain : ToldOK(k, d) /\ SessionOK(k, d)
      BY <1>2, <1>5 DEF Shape, ToldOK, SessionOK, Landing
    <2> QED
      BY <2>1, <2>2, <1>2, <1>5, <1>7 DEF Shape, StaffedBut, Staffed, Unmanned
  <1>9. Final(ctl, k)
    BY <1>2, <1>5 DEF Final
  <1>10. Roomy(ctl) => Roomy(k)
    <2>1. Act(k) = Act(w) /\ Awaited(k) = Awaited(w)
      BY <1>5 DEF Act, Awaited
    <2> QED
      BY <1>2, <1>5, <2>1 DEF Roomy, Counted
  <1>11. Safe(k, l)
    BY <1>2, <1>5, <1>7, <1>8, ReviewStarts
  <1> HIDE DEF l
  <1>12. Safe(ctl, l)
    BY <1>9, <1>10, <1>11, FinalTrans DEF Safe
  <1> QED
    BY <1>3, <1>12, AfterwardsIsSafe

LEMMA ReviewPassesIsSafe ==
    ASSUME Kept(ctl), NEW c \in Chain, ReviewPasses(c)
    PROVE  Safe(ctl, ctl')
  <1>1. PICK i \in DOMAIN ctl.live[c] :
            ctl' = CheckAndRunGates([Without(ctl, c, i) EXCEPT !.state[c] = "awaiting_gates"], c)
    BY DEF ReviewPasses
  <1> DEFINE w == Without(ctl, c, i)
             s == [w.state EXCEPT ![c] = "awaiting_gates"]
             k == [w EXCEPT !.state[c] = "awaiting_gates"]
  <1>2. /\ w \in Controller /\ Shape(w) /\ StaffedBut(w, c) /\ Unmanned(w, c)
        /\ Final(ctl, w) /\ (Roomy(ctl) => Roomy(w))
        /\ ctl.state[c] \in AtWork /\ w.state = ctl.state
    BY WithoutKeeps
  <1>3. ctl' = CheckAndRunGates(k, c)
    BY <1>1
  <1> HIDE DEF w
  <1>4. HasFields(w)
    BY <1>2, Disassembled
  <1>5. /\ HasFields(k) /\ k.sessions = w.sessions /\ k.state = s /\ k.live = w.live
        /\ k.told = w.told /\ k.queue = w.queue /\ k.active = w.active
        /\ k.preparing = w.preparing /\ k.respawn = w.respawn /\ k.planned = w.planned
        /\ k.retried = w.retried /\ k.fixes = w.fixes /\ k.verified = w.verified
    BY <1>4 DEF HasFields
  <1>6. /\ s \in [Chain -> ChainState \cup {"none"}] /\ s[c] = "awaiting_gates"
        /\ \A d \in Chain \ {c} : s[d] = w.state[d]
    BY <1>2, Fields DEF ChainState
  <1> HIDE DEF k, s
  <1>7. k \in Controller
    BY <1>2, <1>5, <1>6, Fields, Assembled
  <1>8. Elsewhere(w, k, c)
    BY <1>5, <1>6 DEF Elsewhere
  <1>9. Staffed(k, c) /\ k.state[c] \in Moving /\ w.state[c] \in AtWork
    BY <1>2, <1>5, <1>6 DEF Staffed, Unmanned, AtWork, Moving
  <1>10. Safe(w, k)
    BY <1>2, <1>5, <1>7, <1>8, <1>9, WorkStarts
  <1>11. Safe(ctl, k)
    BY <1>2, <1>10, FinalTrans DEF Safe
  <1>12. Safe(k, ctl')
    BY <1>3, <1>11, GatesKeep DEF Safe
  <1> QED
    BY <1>11, <1>12, SafeTrans

LEMMA ReviewFailsIsSafe ==
    ASSUME Kept(ctl), NEW c \in Chain, ReviewFails(c)
    PROVE  Safe(ctl, ctl')
  <1>1. PICK i \in DOMAIN ctl.live[c] :
            LET k == Without(ctl, c, i)
            IN  ctl' = Afterwards(IF k.fixes[c] >= MaxFixes THEN FailChain(k, c)
                                                            ELSE StartPlannedFix(k, c), c)
    BY DEF ReviewFails
  <1> DEFINE w == Without(ctl, c, i)
             l == IF w.fixes[c] >= MaxFixes THEN FailChain(w, c) ELSE StartPlannedFix(w, c)
  <1>2. ctl' = Afterwards(l, c)
    BY <1>1
  <1>3. /\ w \in Controller /\ Shape(w) /\ StaffedBut(w, c) /\ Unmanned(w, c)
        /\ Final(ctl, w) /\ (Roomy(ctl) => Roomy(w))
        /\ ctl.state[c] \in AtWork /\ w.state = ctl.state
    BY WithoutKeeps
  <1> HIDE DEF w
  <1>4. Safe(w, l)
    <2>1. CASE w.fixes[c] >= MaxFixes
      <3>1. l = FailChain(w, c)
        BY <2>1
      <3> HIDE DEF l
      <3> QED
        BY <3>1, <1>3, FailIsSafe
    <2>2. CASE ~ (w.fixes[c] >= MaxFixes)
      <3>1. l = StartPlannedFix(w, c) /\ w.fixes[c] < MaxFixes
        BY <2>2, <1>3, Fields, WrfcAssumption
      <3> HIDE DEF l
      <3> QED
        BY <3>1, <1>3, PlannedFixStarts
    <2> QED
      BY <2>1, <2>2
  <1> HIDE DEF l
  <1>5. Safe(ctl, l)
    BY <1>3, <1>4, FinalTrans DEF Safe
  <1> QED
    BY <1>2, <1>5, AfterwardsIsSafe

(* A planned fix has come back.                                              *)
LEMMA UnplannedKeeps ==
    ASSUME NEW k, NEW c \in Chain, NEW m, m = [k EXCEPT !.planned = @ \ {c}],
           Kept(k), c \in k.planned
    PROVE  /\ m \in Controller /\ Shape(m) /\ StaffedBut(m, c) /\ m.state = k.state
           /\ Final(k, m) /\ (Roomy(k) => Roomy(m))
           /\ k.state[c] \in Terminal => Kept(m)
           /\ k.state[c] \notin Terminal => k.state[c] \in AtWork /\ Unmanned(m, c)
  <1> DEFINE x == k.planned \ {c}
  <1>1. k \in Controller /\ HasFields(k) /\ Staffed(k, c)
    BY Disassembled DEF Kept, Shape
  <1>2. x \in SUBSET Chain
    BY <1>1, Fields
  <1>3. /\ HasFields(m) /\ m.sessions = k.sessions /\ m.state = k.state /\ m.live = k.live
        /\ m.told = k.told /\ m.queue = k.queue /\ m.active = k.active
        /\ m.preparing = k.preparing /\ m.respawn = k.respawn /\ m.planned = x
        /\ m.retried = k.retried /\ m.fixes = k.fixes /\ m.verified = k.verified
    BY <1>1 DEF HasFields
  <1>4. m \in Controller
    <2> HIDE DEF x
    <2> QED
      BY <1>1, <1>2, <1>3, Fields, Assembled
  <1>5. Shape(m)
    <2>1. QueueOK(m)
      BY <1>3 DEF Kept, Shape, QueueOK
    <2>2. \A d \in Chain : ToldOK(m, d) /\ SessionOK(m, d)
      BY <1>3 DEF Kept, Shape, ToldOK, SessionOK, Landing
    <2> QED
      BY <2>1, <2>2, <1>4 DEF Shape
  <1>6. StaffedBut(m, c)
    BY <1>3 DEF Kept, StaffedBut, Staffed, Unmanned
  <1>7. k.state[c] \in Terminal => Kept(m)
    <2>1. k.state[c] \in Terminal => Staffed(m, c)
      BY <1>1, <1>3 DEF Staffed, AtWork, Terminal
    <2> QED
      BY <2>1, <1>5, <1>6 DEF Kept, StaffedBut
  <1>8. k.state[c] \notin Terminal => k.state[c] \in AtWork /\ Unmanned(m, c)
    BY <1>1, <1>3 DEF Staffed, Unmanned
  <1>9. Final(k, m)
    BY <1>3 DEF Final
  <1>10. Roomy(k) => Roomy(m)
    <2>1. Act(m) = Act(k) /\ Awaited(m) = Awaited(k)
      BY <1>3 DEF Act, Awaited
    <2> QED
      BY <1>3, <2>1 DEF Roomy, Counted
  <1> QED
    BY <1>3, <1>4, <1>5, <1>6, <1>7, <1>8, <1>9, <1>10

LEMMA FixMergedIsSafe ==
    ASSUME Kept(ctl), NEW c \in Chain, FixMerged(c)
    PROVE  Safe(ctl, ctl')
  <1> DEFINE k == [ctl EXCEPT !.planned = @ \ {c}]
  <1>1. /\ c \in ctl.planned
        /\ ctl' = IF k.state[c] \in Terminal THEN k
                  ELSE IF Allowed(k, c, "reviewing") THEN StartReview(k, c) ELSE FailChain(k, c)
    BY DEF FixMerged
  <1>2. /\ k \in Controller /\ Shape(k) /\ StaffedBut(k, c) /\ k.state = ctl.state
        /\ Final(ctl, k) /\ (Roomy(ctl) => Roomy(k))
        /\ ctl.state[c] \in Terminal => Kept(k)
        /\ ctl.state[c] \notin Terminal => ctl.state[c] \in AtWork /\ Unmanned(k, c)
    BY <1>1, UnplannedKeeps
  <1> HIDE DEF k
  <1>3. CASE k.state[c] \in Terminal
    BY <1>1, <1>2, <1>3 DEF Safe
  <1>4. CASE k.state[c] \notin Terminal
    <2>1. Safe(k, ctl')
      <3>1. CASE Allowed(k, c, "reviewing")
        BY <1>1, <1>2, <1>4, <3>1, ReviewStarts
      <3>2. CASE ~ Allowed(k, c, "reviewing")
        BY <1>1, <1>2, <1>4, <3>2, FailIsSafe
      <3> QED
        BY <3>1, <3>2
    <2> QED
      BY <1>2, <2>1, FinalTrans DEF Safe
  <1> QED
    BY <1>3, <1>4

LEMMA FixFailedIsSafe ==
    ASSUME Kept(ctl), NEW c \in Chain, FixFailed(c)
    PROVE  Safe(ctl, ctl')
  <1> DEFINE k == [ctl EXCEPT !.planned = @ \ {c}]
  <1>1. /\ c \in ctl.planned
        /\ ctl' = IF k.state[c] \in Terminal THEN k ELSE FailChain(k, c)
    BY DEF FixFailed
  <1>2. /\ k \in Controller /\ Shape(k) /\ StaffedBut(k, c) /\ k.state = ctl.state
        /\ Final(ctl, k) /\ (Roomy(ctl) => Roomy(k))
        /\ ctl.state[c] \in Terminal => Kept(k)
        /\ ctl.state[c] \notin Terminal => ctl.state[c] \in AtWork /\ Unmanned(k, c)
    BY <1>1, UnplannedKeeps
  <1> HIDE DEF k
  <1>3. CASE k.state[c] \in Terminal
    BY <1>1, <1>2, <1>3 DEF Safe
  <1>4. CASE k.state[c] \notin Terminal
    <2>1. Safe(k, ctl')
      BY <1>1, <1>2, <1>4, FailIsSafe
    <2> QED
      BY <1>2, <2>1, FinalTrans DEF Safe
  <1> QED
    BY <1>3, <1>4

LEMMA ChildFailsIsSafe ==
    ASSUME Kept(ctl), NEW c \in Chain, ChildFails(c)
    PROVE  Safe(ctl, ctl')
  <1>1. /\ ctl' = FailChain(ctl, c) /\ ctl.state[c] \in AtWork
        /\ Shape(ctl) /\ StaffedBut(ctl, c)
    BY DEF ChildFails, AtWork, Kept, StaffedBut
  <1> QED
    BY <1>1, FailIsSafe

LEMMA TransportFailsIsSafe ==
    ASSUME Kept(ctl), NEW c \in Chain, TransportFails(c)
    PROVE  Safe(ctl, ctl')
  <1> DEFINE i == Len(ctl.live[c])
             k == Without(ctl, c, i)
  <1>1. ctl \in Controller /\ ctl.live[c] \in Seq(Role) /\ ctl.live[c] # <<>>
    BY Fields DEF Kept, Shape, TransportFails
  <1>2. i \in DOMAIN ctl.live[c] /\ Last(ctl.live[c]) \in Role
    BY <1>1 DEF Last
  <1>3. /\ k \in Controller /\ Shape(k) /\ StaffedBut(k, c) /\ Unmanned(k, c)
        /\ Final(ctl, k) /\ (Roomy(ctl) => Roomy(k))
        /\ ctl.state[c] \in AtWork /\ k.state = ctl.state /\ k.retried = ctl.retried
    BY <1>2, WithoutKeeps
  <1> DEFINE role == Last(ctl.live[c])
             l == [k EXCEPT !.retried[c] = @ + 1, !.respawn[c] = role]
  <1>4. ctl' = IF ctl.retried[c] < RetryLimit THEN l ELSE FailChain(k, c)
    BY DEF TransportFails
  <1> HIDE DEF k, role
  <1>5. CASE ctl.retried[c] < RetryLimit
    <2> DEFINE t == [k.retried EXCEPT ![c] = @ + 1]
               w == [k.respawn EXCEPT ![c] = role]
    <2>1. HasFields(k) /\ role \in Role
      BY <1>2, <1>3, Disassembled DEF role
    <2>2. l = [k EXCEPT !.retried = t, !.respawn = w]
      OBVIOUS
    <2>3. t \in [Chain -> 0 .. RetryLimit]
      <3>1. k.retried \in [Chain -> 0 .. RetryLimit] /\ k.retried[c] < RetryLimit
        BY <1>3, <1>5, Fields
      <3> QED
        BY <3>1, WrfcAssumption
    <2>4. w \in [Chain -> Role \cup {"none"}] /\ w[c] = role
          /\ \A d \in Chain \ {c} : w[d] = k.respawn[d]
      BY <1>3, <2>1, Fields
    <2> HIDE DEF t, w, l
    <2>5. /\ HasFields(l) /\ l.sessions = k.sessions /\ l.state = k.state /\ l.live = k.live
          /\ l.told = k.told /\ l.queue = k.queue /\ l.active = k.active
          /\ l.preparing = k.preparing /\ l.respawn = w /\ l.planned = k.planned
          /\ l.retried = t /\ l.fixes = k.fixes /\ l.verified = k.verified
      BY <2>1, <2>2 DEF HasFields
    <2>6. l \in Controller
      BY <1>3, <2>3, <2>4, <2>5, Fields, Assembled
    <2>7. Elsewhere(k, l, c)
      BY <2>4, <2>5 DEF Elsewhere
    <2>8. Staffed(l, c) /\ l.state[c] \in Moving
      <3>1. role # "none"
        BY <2>1 DEF Role
      <3> QED
        BY <1>3, <2>4, <2>5, <3>1 DEF Staffed, Unmanned, Moving
    <2>9. Safe(k, l)
      BY <1>3, <2>5, <2>6, <2>7, <2>8, WorkStarts
    <2> QED
      BY <1>3, <1>4, <1>5, <2>9, FinalTrans DEF Safe
  <1>6. CASE ~ (ctl.retried[c] < RetryLimit)
    <2>1. ctl' = FailChain(k, c)
      BY <1>4, <1>6
    <2>2. Safe(k, ctl')
      BY <1>3, <2>1, FailIsSafe
    <2> QED
      BY <1>3, <2>2, FinalTrans DEF Safe
  <1> QED
    BY <1>5, <1>6

LEMMA RetryDueIsSafe ==
    ASSUME Kept(ctl), NEW c \in Chain, RetryDue(c)
    PROVE  Safe(ctl, ctl')
  <1> DEFINE w == [ctl.respawn EXCEPT ![c] = "none"]
             k == [ctl EXCEPT !.respawn[c] = "none"]
             role == ctl.respawn[c]
  <1>1. ctl \in Controller /\ HasFields(ctl) /\ Staffed(ctl, c) /\ role # "none" /\ role \in Role
    BY Fields, Disassembled DEF Kept, Shape, RetryDue
  <1>2. ctl' = Respawn(k, c, role)
    BY DEF RetryDue
  <1>3. /\ HasFields(k) /\ k.sessions = ctl.sessions /\ k.state = ctl.state /\ k.live = ctl.live
        /\ k.told = ctl.told /\ k.queue = ctl.queue /\ k.active = ctl.active
        /\ k.preparing = ctl.preparing /\ k.respawn = w /\ k.planned = ctl.planned
        /\ k.retried = ctl.retried /\ k.fixes = ctl.fixes /\ k.verified = ctl.verified
    BY <1>1 DEF HasFields
  <1>4. w \in [Chain -> Role \cup {"none"}] /\ w[c] = "none"
        /\ \A d \in Chain \ {c} : w[d] = ctl.respawn[d]
    BY <1>1, Fields
  <1> HIDE DEF k, w
  <1>5. k \in Controller
    BY <1>1, <1>3, <1>4, Fields, Assembled
  <1>6. Shape(k)
    <2>1. QueueOK(k)
      BY <1>3 DEF Kept, Shape, QueueOK
    <2>2. \A d \in Chain : ToldOK(k, d) /\ SessionOK(k, d)
      BY <1>3 DEF Kept, Shape, ToldOK, SessionOK, Landing
    <2> QED
      BY <2>1, <2>2, <1>5 DEF Shape
  <1>7. StaffedBut(k, c)
    BY <1>3, <1>4 DEF Kept, StaffedBut, Staffed, Unmanned
  <1>8. Final(ctl, k)
    BY <1>3 DEF Final
  <1>9. Roomy(ctl) => Roomy(k)
    <2>1. Act(k) = Act(ctl) /\ Awaited(k) = Awaited(ctl)
      BY <1>3 DEF Act, Awaited
    <2> QED
      BY <1>3, <2>1 DEF Roomy, Counted
  <1>10. CASE k.state[c] \in Terminal
    <2>1. ctl' = k
      BY <1>2, <1>10 DEF Respawn
    <2>2. Staffed(k, c)
      BY <1>1, <1>3, <1>10 DEF Staffed, AtWork, Terminal
    <2>3. Kept(k)
      BY <1>6, <1>7, <2>2 DEF Kept, StaffedBut
    <2> QED
      BY <1>8, <1>9, <2>1, <2>3 DEF Safe
  <1>11. CASE k.state[c] \notin Terminal
    <2> DEFINE l == [k.live EXCEPT ![c] = Append(@, role)]
    <2>1. k.state[c] \in AtWork /\ Unmanned(k, c)
      BY <1>1, <1>3, <1>4, <1>11 DEF Staffed, Unmanned
    <2>2. HasFields(k) /\ ctl' = Spawn(k, c, role)
      BY <1>2, <1>3, <1>11 DEF Respawn
    <2>3. /\ HasFields(ctl') /\ ctl'.sessions = k.sessions /\ ctl'.state = k.state
          /\ ctl'.live = l /\ ctl'.told = k.told /\ ctl'.queue = k.queue
          /\ ctl'.active = k.active /\ ctl'.preparing = k.preparing
          /\ ctl'.respawn = k.respawn /\ ctl'.planned = k.planned
          /\ ctl'.retried = k.retried /\ ctl'.fixes = k.fixes /\ ctl'.verified = k.verified
      BY <2>2 DEF HasFields, Spawn
    <2>4. /\ l \in [Chain -> Seq(Role)] /\ Len(l[c]) = 1
          /\ \A d \in Chain \ {c} : l[d] = k.live[d]
      <3>1. k.live \in [Chain -> Seq(Role)] /\ k.live[c] = <<>>
        BY <1>5, <2>1, Fields DEF Unmanned
      <3> HIDE DEF role
      <3> QED
        BY <1>1, <3>1
    <2> HIDE DEF l
    <2>5. ctl' \in Controller
      BY <1>5, <2>3, <2>4, Fields, Assembled
    <2>6. Elsewhere(k, ctl', c)
      BY <2>3, <2>4 DEF Elsewhere
    <2>7. Staffed(ctl', c) /\ ctl'.state[c] \in Moving
      BY <2>1, <2>3, <2>4 DEF Staffed, Unmanned, Moving
    <2>8. Safe(k, ctl')
      BY <1>5, <1>6, <1>7, <2>1, <2>3, <2>5, <2>6, <2>7, WorkStarts
    <2> QED
      BY <1>8, <1>9, <2>8, FinalTrans DEF Safe
  <1> QED
    BY <1>10, <1>11

LEMMA GatesPassIsSafe ==
    ASSUME Kept(ctl), NEW r \in Chain, GatesPass(r)
    PROVE  Safe(ctl, ctl')
  <1> DEFINE s == ctl.sessions[r]
             z == [s EXCEPT !.phase = "turn"]
  <1>1. /\ ctl \in Controller /\ HasFields(ctl) /\ s \in Session /\ SessionOK(ctl, r)
        /\ s.phase = "gates"
    BY Fields, Disassembled DEF Kept, Shape, GatesPass
  <1>2. ctl' = [ctl EXCEPT !.sessions[r] = z]
    BY Zenon DEF GatesPass
  <1>3. z \in Session /\ z.phase = "turn" /\ z.left = s.left
    BY <1>1 DEF Session
  <1> HIDE DEF z
  <1>4. ctl'.sessions[r] = z /\ ctl'.state = ctl.state
    BY <1>1, <1>2, Fields DEF HasFields
  <1>5. SessionOK(ctl', r)
    BY <1>1, <1>3, <1>4 DEF SessionOK
  <1>6. Unwatched(ctl, r, z)
    BY <1>1 DEF Unwatched
  <1> QED
    BY <1>2, <1>3, <1>5, <1>6, SessionChanges DEF Safe

(* A chain that the gates sent back gets a fixer.                            *)
LEMMA GateFixStarts ==
    ASSUME NEW k, NEW c \in Chain, NEW m, m = StartGateFix(k, c),
           Kept(k), Free(k, c), k.state[c] = "gating", k.fixes[c] < MaxFixes
    PROVE  Safe(k, m)
  <1> DEFINE s == [k.state EXCEPT ![c] = "fixing"]
             f == [k.fixes EXCEPT ![c] = @ + 1]
             l == [k.live EXCEPT ![c] = Append(@, "fixer")]
  <1>1. k \in Controller /\ HasFields(k) /\ Staffed(k, c)
    BY Disassembled DEF Kept, Shape
  <1>2. Unmanned(k, c)
    BY <1>1 DEF Staffed, AtWork, Terminal
  <1>3. /\ HasFields(m) /\ m.sessions = k.sessions /\ m.state = s /\ m.live = l
        /\ m.told = k.told /\ m.queue = k.queue /\ m.active = k.active
        /\ m.preparing = k.preparing /\ m.respawn = k.respawn /\ m.planned = k.planned
        /\ m.retried = k.retried /\ m.fixes = f /\ m.verified = k.verified
    BY <1>1 DEF StartGateFix, Spawn, HasFields
  <1>4. /\ s \in [Chain -> ChainState \cup {"none"}] /\ s[c] = "fixing"
        /\ \A d \in Chain \ {c} : s[d] = k.state[d]
    BY <1>1, Fields DEF ChainState, Working
  <1>5. f \in [Chain -> 0 .. MaxFixes]
    BY <1>1, Fields, WrfcAssumption
  <1>6. /\ l \in [Chain -> Seq(Role)] /\ Len(l[c]) = 1
        /\ \A d \in Chain \ {c} : l[d] = k.live[d]
    BY <1>1, <1>2, Fields DEF Role, Unmanned
  <1> HIDE DEF s, f, l
  <1>7. m \in Controller
    BY <1>1, <1>3, <1>4, <1>5, <1>6, Fields, Assembled
  <1>8. Elsewhere(k, m, c)
    BY <1>3, <1>4, <1>6 DEF Elsewhere
  <1>9. Staffed(m, c) /\ m.state[c] = "fixing"
    BY <1>2, <1>3, <1>4, <1>6 DEF Staffed, Unmanned, AtWork
  <1>10. Harmless(k, m, c)
    BY DEF Harmless
  <1>11. Shape(k) /\ StaffedBut(k, c)
    BY DEF Kept, StaffedBut
  <1>12. k.state[c] \in Moving \cup Landable /\ m.state[c] \in Moving \cup Landable
    BY <1>9 DEF Moving, AtWork, Landable
  <1>13. Kept(m) /\ Final(k, m)
    BY <1>3, <1>7, <1>8, <1>9, <1>10, <1>11, <1>12, Moves
  <1>14. Roomy(k) => Roomy(m)
    BY <1>3, <1>8, <1>12, MovesInRoom
  <1> QED
    BY <1>13, <1>14 DEF Safe

LEMMA GatesFailIsSafe ==
    ASSUME Kept(ctl), NEW r \in Chain, GatesFail(r)
    PROVE  Safe(ctl, ctl')
  <1> DEFINE k == Close(ctl, r)
             origin == ctl.sessions[r].origin
  <1>1. /\ ctl.sessions[r].phase = "gates"
        /\ ctl' = IF k.fixes[r] >= MaxFixes THEN Afterwards(FailChain(k, r), origin)
                  ELSE IF Allowed(k, r, "fixing") THEN Afterwards(StartGateFix(k, r), origin)
                  ELSE [k EXCEPT !.fixes[r] = @ + 1]
    BY DEF GatesFail
  <1>2. /\ ctl \in Controller /\ HasFields(ctl) /\ SessionOK(ctl, r)
        /\ origin \in Chain \cup {None}
    <2>1. ctl \in Controller /\ HasFields(ctl) /\ SessionOK(ctl, r)
      BY Disassembled DEF Kept, Shape
    <2>2. ctl.sessions[r] \in Session
      BY <2>1, Fields
    <2> QED
      BY <2>1, <2>2, SessionFields
  <1>3. /\ Kept(k) /\ Final(ctl, k) /\ (Roomy(ctl) => Roomy(k)) /\ k.state = ctl.state
        /\ \A d \in Chain : k.sessions[d] = IF d = r THEN Idle ELSE ctl.sessions[d]
    BY CloseKeeps
  <1>4. k.state[r] \in {"gating", "failed"}
    BY <1>1, <1>2, <1>3 DEF SessionOK
  <1> HIDE DEF k, origin
  <1>5. Shape(k) /\ StaffedBut(k, r) /\ k \in Controller /\ HasFields(k)
    BY <1>3, Disassembled DEF Kept, Shape, StaffedBut
  <1>6. k.fixes \in [Chain -> 0 .. MaxFixes]
    BY <1>5, Fields
  <1>7. Safe(k, ctl')
    <2>1. CASE k.fixes[r] >= MaxFixes
      <3>1. Safe(k, FailChain(k, r))
        BY <1>4, <1>5, FailIsSafe
      <3>2. ctl' = Afterwards(FailChain(k, r), origin)
        BY <2>1, <1>1
      <3> QED
        BY <1>2, <3>1, <3>2, AfterwardsIsSafe
    <2>2. CASE ~ (k.fixes[r] >= MaxFixes) /\ Allowed(k, r, "fixing")
      <3>1. k.fixes[r] < MaxFixes
        BY <2>2, <1>6, WrfcAssumption
      <3>2. k.state[r] = "gating"
        BY <2>2, <1>4 DEF Allowed, Transitions
      <3>3. Free(k, r)
        <4>1. k.sessions[r].phase = "idle"
          BY <1>3 DEF Idle
        <4>2. ASSUME NEW q \in Chain \ {r}, k.sessions[q].phase = "landing"
              PROVE  Oldest(k.sessions[q].left) # r
          <5>1. ctl.sessions[q] = k.sessions[q] /\ SessionOK(ctl, q)
            BY <1>3 DEF Kept, Shape
          <5>2. Landing(ctl, q, Oldest(k.sessions[q].left))
            BY <4>2, <5>1 DEF SessionOK
          <5> QED
            BY <5>2, <1>1, <1>3, <3>2 DEF Landing, Terminal
        <4> QED
          BY <4>1, <4>2 DEF Free
      <3>4. Safe(k, StartGateFix(k, r))
        BY <1>3, <3>1, <3>2, <3>3, GateFixStarts
      <3>5. ctl' = Afterwards(StartGateFix(k, r), origin)
        BY <2>2, <1>1
      <3> QED
        BY <1>2, <3>4, <3>5, AfterwardsIsSafe
    <2>3. CASE ~ (k.fixes[r] >= MaxFixes) /\ ~ Allowed(k, r, "fixing")
      <3> DEFINE f == [k.fixes EXCEPT ![r] = @ + 1]
      <3>1. f \in [Chain -> 0 .. MaxFixes]
        BY <2>3, <1>6, WrfcAssumption
      <3>2. ctl' = [k EXCEPT !.fixes = f]
        BY <2>3, <1>1
      <3> HIDE DEF f
      <3>3. /\ HasFields(ctl') /\ ctl'.sessions = k.sessions /\ ctl'.state = k.state
            /\ ctl'.live = k.live
            /\ ctl'.told = k.told /\ ctl'.queue = k.queue /\ ctl'.active = k.active
            /\ ctl'.preparing = k.preparing /\ ctl'.respawn = k.respawn
            /\ ctl'.planned = k.planned /\ ctl'.retried = k.retried /\ ctl'.fixes = f
            /\ ctl'.verified = k.verified
        BY <1>5, <3>2 DEF HasFields
      <3>4. ctl' \in Controller
        BY <1>5, <3>1, <3>3, Fields, Assembled
      <3>5. \A d \in Chain : Staffed(ctl', d) /\ ToldOK(ctl', d) /\ SessionOK(ctl', d)
        BY <1>3, <3>3 DEF Kept, Shape, Staffed, Unmanned, ToldOK, SessionOK, Landing
      <3>6. QueueOK(ctl')
        BY <1>3, <3>3 DEF Kept, Shape, QueueOK
      <3>7. Roomy(k) => Roomy(ctl')
        <4>1. Act(ctl') = Act(k) /\ Awaited(ctl') = Awaited(k)
          BY <3>3 DEF Act, Awaited
        <4> QED
          BY <3>3, <4>1 DEF Roomy, Counted
      <3>8. Final(k, ctl')
        BY <3>3 DEF Final
      <3> QED
        BY <3>4, <3>5, <3>6, <3>7, <3>8 DEF Safe, Kept, Shape
    <2> QED
      BY <2>1, <2>2, <2>3
  <1>8. Safe(ctl, k)
    BY <1>3 DEF Safe
  <1> QED
    BY <1>7, <1>8, SafeTrans

LEMMA TurnThrowsIsSafe ==
    ASSUME Kept(ctl), NEW r \in Chain, TurnThrows(r)
    PROVE  Safe(ctl, ctl')
  <1>1. ctl' = Close(ctl, r)
    BY DEF TurnThrows, Called
  <1> QED
    BY <1>1, CloseKeeps DEF Safe

LEMMA LandedIsSafe ==
    ASSUME Kept(ctl), NEW r \in Chain, Landed(r)
    PROVE  Safe(ctl, ctl')
  <1> DEFINE c == Oldest(ctl.sessions[r].left)
             l == IF ctl.state[c] \in Terminal THEN ctl ELSE CompleteAsPassed(ctl, c)
  <1>1. ctl.sessions[r].phase = "landing" /\ ctl' = NextTurn(l, r)
    BY DEF Landed
  <1>2. ctl \in Controller /\ SessionOK(ctl, r)
    BY DEF Kept, Shape
  <1>3. ctl.sessions[r].left # {} /\ Landing(ctl, r, c)
    BY <1>1, <1>2 DEF SessionOK
  <1>4. c \in Chain
    <2>1. ctl.sessions[r].left \in SUBSET Chain
      BY <1>2, Fields, SessionFields
    <2> QED
      BY <1>3, <2>1, OldestIsIn
  <1> HIDE DEF c
  <1>5. Safe(ctl, l) /\ l.sessions = ctl.sessions
    <2>1. CASE ctl.state[c] \in Terminal
      <3>1. l = ctl
        BY <2>1
      <3> QED
        BY <3>1 DEF Safe, Final
    <2>2. CASE ctl.state[c] \notin Terminal
      <3>1. l = CompleteAsPassed(ctl, c)
        BY <2>2
      <3>2. ctl.state[c] \in Landable /\ ctl.sessions[c].phase # "gates"
        BY <1>1, <1>3, <2>2 DEF Landing
      <3> HIDE DEF l
      <3> QED
        BY <1>4, <3>1, <3>2, CompleteKeeps DEF Safe
    <2> QED
      BY <2>1, <2>2
  <1> HIDE DEF l
  <1>6. Safe(l, ctl')
    BY <1>1, <1>5, NextTurnKeeps DEF Safe
  <1> QED
    BY <1>5, <1>6, SafeTrans

(* A chain that waited for the gates is told of their result, and a commit   *)
(* of its work is begun.                                                     *)
Callable(k, r, c, t) ==
    \/ c # r /\ k.state[c] = "awaiting_gates"
    \/ c = r /\ k.state[c] = "gating" /\ k.sessions[c].phase = "turn" /\ t = "committing"

LEMMA CalledIsSafe ==
    ASSUME Kept(ctl), NEW r \in Chain, NEW c \in Chain, NEW t \in Landable,
           Callable(ctl, r, c, t), NEW m, m = [ctl EXCEPT !.state[c] = t]
    PROVE  Safe(ctl, m) /\ (c # r => ctl.sessions[c].phase = "idle")
  <1> DEFINE s == [ctl.state EXCEPT ![c] = t]
  <1>1. ctl \in Controller /\ HasFields(ctl) /\ Staffed(ctl, c) /\ SessionOK(ctl, c)
    BY Disassembled DEF Kept, Shape
  <1>2. /\ HasFields(m) /\ m.sessions = ctl.sessions /\ m.state = s /\ m.live = ctl.live
        /\ m.told = ctl.told /\ m.queue = ctl.queue /\ m.active = ctl.active
        /\ m.preparing = ctl.preparing /\ m.respawn = ctl.respawn /\ m.planned = ctl.planned
        /\ m.retried = ctl.retried /\ m.fixes = ctl.fixes /\ m.verified = ctl.verified
    BY <1>1 DEF HasFields
  <1>3. /\ s \in [Chain -> ChainState \cup {"none"}] /\ s[c] = t
        /\ \A d \in Chain \ {c} : s[d] = ctl.state[d]
    BY <1>1, Fields DEF ChainState, Landable
  <1> HIDE DEF s
  <1>4. m \in Controller
    BY <1>1, <1>2, <1>3, Fields, Assembled
  <1>5. Elsewhere(ctl, m, c)
    BY <1>2, <1>3 DEF Elsewhere
  <1>6. Staffed(m, c)
    <2>1. Unmanned(ctl, c)
      BY <1>1 DEF Callable, Staffed, AtWork, Terminal
    <2> QED
      BY <2>1, <1>2, <1>3 DEF Staffed, Unmanned, AtWork, Landable
  <1>7. c # r => ctl.sessions[c].phase = "idle"
    BY <1>1 DEF Callable, SessionOK, Landable, Terminal
  <1>8. Harmless(ctl, m, c)
    BY <1>2, <1>3 DEF Callable, Harmless, Landable, Terminal
  <1>9. Shape(ctl) /\ StaffedBut(ctl, c)
    BY DEF Kept, StaffedBut
  <1>10. ctl.state[c] \in Moving \cup Landable /\ m.state[c] \in Moving \cup Landable
    BY <1>2, <1>3 DEF Callable, Moving, Landable
  <1>11. Kept(m) /\ Final(ctl, m)
    BY <1>2, <1>4, <1>5, <1>6, <1>8, <1>9, <1>10, Moves
  <1>12. Roomy(ctl) => Roomy(m)
    BY <1>2, <1>5, <1>10, MovesInRoom
  <1> QED
    BY <1>7, <1>11, <1>12 DEF Safe

(* The count goes down and the move is refused.                              *)
LEMMA ThrownKeeps ==
    ASSUME NEW k, NEW m, m = CompletionThrows(k), Kept(k)
    PROVE  Kept(m) /\ Final(k, m)
  <1> DEFINE n == OneLess(k.active)
  <1>1. k \in Controller /\ HasFields(k)
    BY Disassembled DEF Kept, Shape
  <1>2. m = [k EXCEPT !.active = n]
    BY DEF CompletionThrows
  <1>3. n \in Nat
    BY <1>1, Fields DEF OneLess
  <1> HIDE DEF n
  <1>4. /\ HasFields(m) /\ m.sessions = k.sessions /\ m.state = k.state /\ m.live = k.live
        /\ m.told = k.told /\ m.queue = k.queue /\ m.active = n
        /\ m.preparing = k.preparing /\ m.respawn = k.respawn /\ m.planned = k.planned
        /\ m.retried = k.retried /\ m.fixes = k.fixes /\ m.verified = k.verified
    BY <1>1, <1>2 DEF HasFields
  <1>5. m \in Controller
    BY <1>1, <1>3, <1>4, Fields, Assembled
  <1>6. \A d \in Chain : Staffed(m, d) /\ ToldOK(m, d) /\ SessionOK(m, d)
    BY <1>4 DEF Kept, Shape, Staffed, Unmanned, ToldOK, SessionOK, Landing
  <1>7. QueueOK(m)
    BY <1>4 DEF Kept, Shape, QueueOK
  <1>8. Final(k, m)
    BY <1>4 DEF Final
  <1> QED
    BY <1>5, <1>6, <1>7, <1>8 DEF Kept, Shape

LEMMA TurnKeeps ==
    ASSUME Kept(ctl), NEW r \in Chain, Turn(r)
    PROVE  /\ Kept(ctl') /\ Final(ctl, ctl')
           /\ deployment.isolated \/ deployment.autoCommit => Safe(ctl, ctl')
  <1> DEFINE c == Oldest(ctl.sessions[r].left)
             k == Called(ctl, r)
             m == IF deployment.autoCommit THEN [k EXCEPT !.state[c] = "committing"] ELSE k
  <1>1. /\ ctl.sessions[r].phase = "turn"
        /\ c = r \/ Allowed(ctl, c, "gating")
        /\ deployment.autoCommit => Allowed(k, c, "committing")
        /\ ctl' = IF deployment.isolated THEN [m EXCEPT !.sessions[r].phase = "landing"]
                  ELSE IF Allowed(m, c, "passed") THEN NextTurn(CompleteAsPassed(m, c), r)
                  ELSE Close(CompletionThrows(m), r)
    BY DEF Turn
  <1>2. k = IF c = r THEN ctl ELSE [ctl EXCEPT !.state[c] = "gating"]
    BY DEF Called
  <1>3. /\ ctl \in Controller /\ HasFields(ctl) /\ SessionOK(ctl, r)
        /\ ctl.sessions[r] \in Session
    BY Fields, Disassembled DEF Kept, Shape
  <1>4. c \in Chain
    <2>1. ctl.sessions[r].left \in SUBSET Chain
      BY <1>3, SessionFields
    <2>2. ctl.sessions[r].left # {}
      BY <1>1, <1>3 DEF SessionOK
    <2> QED
      BY <2>1, <2>2, OldestIsIn
  <1> HIDE DEF c
  <1>5. c # r => ctl.state[c] = "awaiting_gates"
    BY <1>1 DEF Allowed, Transitions
  <1>6. /\ Safe(ctl, m) /\ m.sessions = ctl.sessions
        /\ c # r => ctl.sessions[c].phase = "idle"
        /\ c # r \/ deployment.autoCommit => m.state[c] \in Landable
    <2>1. CASE c = r /\ ~ deployment.autoCommit
      <3>1. m = ctl
        BY <2>1, <1>2
      <3> QED
        BY <2>1, <3>1 DEF Safe, Final
    <2>2. CASE c = r /\ deployment.autoCommit
      <3>1. m = [ctl EXCEPT !.state[c] = "committing"]
        BY <2>2, <1>2
      <3>2. ctl.state[c] = "gating"
        BY <2>2, <1>1, <1>2 DEF Allowed, Transitions
      <3> HIDE DEF m
      <3>3. "committing" \in Landable
        BY DEF Landable
      <3> QED
        <4>1. Callable(ctl, r, c, "committing")
          BY <2>2, <1>1, <3>2 DEF Callable
        <4>2. Safe(ctl, m) /\ m.sessions = ctl.sessions /\ m.state[c] = "committing"
          <5>1. Safe(ctl, m)
            BY <1>4, <3>1, <3>3, <4>1, CalledIsSafe
          <5>2. m.sessions = ctl.sessions
            BY <1>3, <3>1 DEF HasFields
          <5>3. m.state[c] = "committing"
            BY <1>3, <1>4, <3>1, Fields DEF HasFields
          <5> QED
            BY <5>1, <5>2, <5>3
        <4> QED
          BY <2>2, <3>3, <4>2
    <2>3. CASE c # r
      <3> DEFINE t == IF deployment.autoCommit THEN "committing" ELSE "gating"
      <3>1. m = [ctl EXCEPT !.state[c] = t]
        <4>1. CASE deployment.autoCommit
          <5>1. m = [[ctl EXCEPT !.state[c] = "gating"] EXCEPT !.state[c] = "committing"]
            BY <2>3, <4>1, <1>2
          <5>2. ctl.state \in [Chain -> ChainState \cup {"none"}]
            BY <1>3, Fields
          <5>3. [[ctl.state EXCEPT ![c] = "gating"] EXCEPT ![c] = "committing"]
                    = [ctl.state EXCEPT ![c] = "committing"]
            BY <5>2
          <5>4. m = [ctl EXCEPT !.state[c] = "committing"]
            BY <1>3, <5>1, <5>3 DEF HasFields
          <5> QED
            BY <4>1, <5>4
        <4>2. CASE ~ deployment.autoCommit
          BY <2>3, <4>2, <1>2
        <4> QED
          BY <4>1, <4>2
      <3>2. t \in Landable
        BY DEF Landable
      <3> HIDE DEF m, t
      <3> QED
        <4>1. Callable(ctl, r, c, t)
          BY <2>3, <1>5 DEF Callable
        <4>2. Safe(ctl, m) /\ m.sessions = ctl.sessions /\ m.state[c] = t
          <5>1. Safe(ctl, m)
            BY <1>4, <3>1, <3>2, <4>1, CalledIsSafe
          <5>2. m.sessions = ctl.sessions
            BY <1>3, <3>1 DEF HasFields
          <5>3. m.state[c] = t
            BY <1>3, <1>4, <3>1, Fields DEF HasFields
          <5> QED
            BY <5>1, <5>2, <5>3
        <4>3. c # r => ctl.sessions[c].phase = "idle"
          BY <1>4, <3>1, <3>2, <4>1, CalledIsSafe
        <4> QED
          BY <2>3, <3>2, <4>2, <4>3
    <2> QED
      BY <2>1, <2>2, <2>3
  <1> HIDE DEF k, m
  <1>7. m \in Controller /\ HasFields(m) /\ SessionOK(m, r) /\ Kept(m)
    BY <1>6, Disassembled DEF Safe, Kept, Shape
  <1>8. CASE deployment.isolated
    <2> DEFINE s == ctl.sessions[r]
               z == [s EXCEPT !.phase = "landing"]
    <2>1. ctl' = [m EXCEPT !.sessions[r] = z]
      <3>1. ctl' = [m EXCEPT !.sessions[r].phase = "landing"]
        BY <1>1, <1>8
      <3> QED
        BY <1>6, <3>1
    <2>2. z \in Session /\ z.phase = "landing" /\ z.left = s.left
      BY <1>3 DEF Session
    <2> HIDE DEF z
    <2>3. ctl'.state = m.state
          /\ \A d \in Chain : ctl'.sessions[d] = IF d = r THEN z ELSE m.sessions[d]
      BY <1>7, <2>1, Fields DEF HasFields
    <2>4. m.state[r] \in Landable \cup Terminal /\ s.left # {}
      BY <1>1, <1>6, <1>7 DEF SessionOK
    <2>5. Landing(ctl', r, c)
      <3>1. CASE c = r
        BY <2>3, <2>4, <3>1 DEF Landing
      <3>2. CASE c # r
        BY <1>4, <1>6, <2>3, <3>2 DEF Landing
      <3> QED
        BY <3>1, <3>2
    <2>6. SessionOK(ctl', r)
      BY <2>2, <2>3, <2>4, <2>5 DEF SessionOK, c
    <2>7. Unwatched(m, r, z)
      BY <1>1, <1>6 DEF Unwatched
    <2>8. Safe(m, ctl')
      BY <1>7, <2>1, <2>2, <2>6, <2>7, SessionChanges DEF Safe
    <2>9. Safe(ctl, ctl')
      BY <1>6, <2>8, SafeTrans
    <2> QED
      BY <2>9 DEF Safe
  <1>9. CASE ~ deployment.isolated /\ Allowed(m, c, "passed")
    <2> DEFINE l == CompleteAsPassed(m, c)
    <2>1. ctl' = NextTurn(l, r)
      BY <1>1, <1>9
    <2>2. m.state[c] \in Landable
      BY <1>9 DEF Allowed, Transitions, Landable
    <2>3. m.sessions[c].phase # "gates"
      BY <1>1, <1>6
    <2>4. Safe(m, l) /\ l.sessions = m.sessions
      BY <1>4, <1>7, <2>2, <2>3, CompleteKeeps DEF Safe
    <2> HIDE DEF l
    <2>5. l.sessions[r].phase # "idle" /\ Kept(l)
      BY <1>1, <1>6, <2>4 DEF Safe
    <2>6. Safe(l, ctl')
      BY <2>1, <2>5, NextTurnKeeps DEF Safe
    <2>7. Safe(ctl, l)
      BY <1>6, <2>4, SafeTrans
    <2>8. Safe(ctl, ctl')
      BY <2>6, <2>7, SafeTrans
    <2> QED
      BY <2>8 DEF Safe
  <1>10. CASE ~ deployment.isolated /\ ~ Allowed(m, c, "passed")
    <2> DEFINE l == CompletionThrows(m)
    <2>1. ctl' = Close(l, r)
      BY <1>1, <1>10
    <2>2. Kept(l) /\ Final(m, l)
      BY <1>7, ThrownKeeps
    <2> HIDE DEF l
    <2>3. Kept(ctl') /\ Final(l, ctl')
      BY <2>1, <2>2, CloseKeeps
    <2>4. Final(ctl, l)
      BY <1>6, <2>2, FinalTrans DEF Safe
    <2>5. Final(ctl, ctl')
      BY <2>3, <2>4, FinalTrans
    <2>6. ~ deployment.autoCommit
      <3>1. m.state[c] \in Landable => Allowed(m, c, "passed")
        BY DEF Allowed, Transitions, Landable
      <3> QED
        BY <1>6, <1>10, <3>1
    <2> QED
      BY <1>10, <2>3, <2>5, <2>6
  <1> QED
    BY <1>8, <1>9, <1>10

-----------------------------------------------------------------------------
(* The invariant and its theorems.                                           *)

Inv ==
    /\ Kept(ctl)
    /\ deployment \in Deployments /\ cancels \in 0 .. MaxCancels

(* No deployment leaves its commits to the user and works without worktrees. *)
CommitsOrIsolates == \A d \in Deployments : d.isolated \/ d.autoCommit

LEMMA InitInv == Init => Inv /\ Roomy(ctl)
  <1> SUFFICES ASSUME Init PROVE Inv /\ Roomy(ctl)
    OBVIOUS
  <1>1. /\ ctl.state = [c \in Chain |-> "none"] /\ ctl.queue = <<>> /\ ctl.active = 0
        /\ ctl.preparing = {} /\ ctl.live = [c \in Chain |-> <<>>]
        /\ ctl.respawn = [c \in Chain |-> "none"] /\ ctl.retried = [c \in Chain |-> 0]
        /\ ctl.planned = {} /\ ctl.fixes = [c \in Chain |-> 0]
        /\ ctl.verified = [c \in Chain |-> TRUE] /\ ctl.sessions = [c \in Chain |-> Idle]
        /\ ctl.told = [c \in Chain |-> "none"] /\ HasFields(ctl)
    BY DEF Init, HasFields
  <1>2. ctl \in Controller
    <2>1. /\ ctl.live \in [Chain -> Seq(Role)] /\ ctl.sessions \in [Chain -> Session]
          /\ ctl.queue \in Seq(Chain)
      BY <1>1, IdleIsSession
    <2>2. ctl.retried \in [Chain -> 0 .. RetryLimit] /\ ctl.fixes \in [Chain -> 0 .. MaxFixes]
      BY <1>1, WrfcAssumption
    <2>3. ctl.verified \in [Chain -> BOOLEAN]
      BY <1>1, Zenon
    <2>4. /\ ctl.state \in [Chain -> ChainState \cup {"none"}] /\ ctl.active \in Nat
          /\ ctl.respawn \in [Chain -> Role \cup {"none"}]
          /\ ctl.told \in [Chain -> {"none", "completed", "failed", "cancelled"}]
      BY <1>1
    <2>5. ctl.preparing \in SUBSET Chain /\ ctl.planned \in SUBSET Chain
      BY <1>1
    <2>6. HasFields(ctl)
      BY <1>1
    <2> QED
      BY <2>1, <2>2, <2>3, <2>4, <2>5, <2>6, Assembled
  <1>3. \A c \in Chain : Staffed(ctl, c) /\ ToldOK(ctl, c) /\ SessionOK(ctl, c)
    BY <1>1 DEF Staffed, Unmanned, ToldOK, SessionOK, Idle, AtWork, Terminal
  <1>4. QueueOK(ctl)
    BY <1>1 DEF QueueOK, Entries
  <1>5. Roomy(ctl)
    <2>1. Act(ctl) = {}
      BY <1>1, ActiveStates DEF Act
    <2> QED
      BY <1>1, <2>1, FS_EmptySet, WrfcAssumption DEF Roomy, Counted
  <1>6. deployment \in Deployments /\ cancels \in 0 .. MaxCancels
    BY WrfcAssumption DEF Init
  <1> QED
    BY <1>2, <1>3, <1>4, <1>5, <1>6 DEF Inv, Kept, Shape

LEMMA StepIsSafe ==
    ASSUME Inv, Next
    PROVE  /\ Kept(ctl') /\ Final(ctl, ctl')
           /\ deployment' = deployment /\ cancels' \in 0 .. MaxCancels
           /\ CommitsOrIsolates /\ Roomy(ctl) => Roomy(ctl')
  <1> DEFINE Goal == /\ Kept(ctl') /\ Final(ctl, ctl')
                     /\ deployment' = deployment /\ cancels' \in 0 .. MaxCancels
                     /\ CommitsOrIsolates /\ Roomy(ctl) => Roomy(ctl')
  <1>1. Kept(ctl) /\ deployment \in Deployments /\ cancels \in 0 .. MaxCancels
    BY DEF Inv
  <1>2. ASSUME NEW c \in Chain, Create(c) PROVE Goal
    BY <1>1, <1>2, CreateIsSafe DEF Safe, Create
  <1>3. ASSUME NEW c \in Chain, Cancel(c) PROVE Goal
    <2>1. cancels' \in 0 .. MaxCancels /\ deployment' = deployment
      BY <1>1, <1>3, WrfcAssumption DEF Cancel
    <2> QED
      BY <1>1, <1>3, <2>1, CancelIsSafe DEF Safe
  <1>4. ASSUME NEW c \in Chain, WorkspaceReady(c) PROVE Goal
    BY <1>1, <1>4, WorkspaceReadyIsSafe DEF Safe, WorkspaceReady
  <1>5. ASSUME NEW c \in Chain, WorkDone(c) PROVE Goal
    BY <1>1, <1>5, WorkDoneIsSafe DEF Safe, WorkDone
  <1>6. ASSUME NEW c \in Chain, ReviewPasses(c) PROVE Goal
    BY <1>1, <1>6, ReviewPassesIsSafe DEF Safe, ReviewPasses
  <1>7. ASSUME NEW c \in Chain, ReviewFails(c) PROVE Goal
    BY <1>1, <1>7, ReviewFailsIsSafe DEF Safe, ReviewFails
  <1>8. ASSUME NEW c \in Chain, FixMerged(c) PROVE Goal
    BY <1>1, <1>8, FixMergedIsSafe DEF Safe, FixMerged
  <1>9. ASSUME NEW c \in Chain, FixFailed(c) PROVE Goal
    BY <1>1, <1>9, FixFailedIsSafe DEF Safe, FixFailed
  <1>10. ASSUME NEW c \in Chain, TransportFails(c) PROVE Goal
    BY <1>1, <1>10, TransportFailsIsSafe DEF Safe, TransportFails
  <1>11. ASSUME NEW c \in Chain, ChildFails(c) PROVE Goal
    BY <1>1, <1>11, ChildFailsIsSafe DEF Safe, ChildFails
  <1>12. ASSUME NEW c \in Chain, RetryDue(c) PROVE Goal
    BY <1>1, <1>12, RetryDueIsSafe DEF Safe, RetryDue
  <1>13. ASSUME NEW c \in Chain, GatesPass(c) PROVE Goal
    BY <1>1, <1>13, GatesPassIsSafe DEF Safe, GatesPass
  <1>14. ASSUME NEW c \in Chain, GatesFail(c) PROVE Goal
    BY <1>1, <1>14, GatesFailIsSafe DEF Safe, GatesFail
  <1>15. ASSUME NEW c \in Chain, TurnThrows(c) PROVE Goal
    BY <1>1, <1>15, TurnThrowsIsSafe DEF Safe, TurnThrows
  <1>16. ASSUME NEW c \in Chain, Turn(c) PROVE Goal
    <2>1. CommitsOrIsolates => deployment.isolated \/ deployment.autoCommit
      BY <1>1 DEF CommitsOrIsolates
    <2> QED
      BY <1>1, <1>16, <2>1, TurnKeeps DEF Safe, Turn
  <1>17. ASSUME NEW c \in Chain, Landed(c) PROVE Goal
    BY <1>1, <1>17, LandedIsSafe DEF Safe, Landed
  <1> QED
    BY <1>2, <1>3, <1>4, <1>5, <1>6, <1>7, <1>8, <1>9, <1>10, <1>11, <1>12, <1>13, <1>14,
       <1>15, <1>16, <1>17 DEF Next, Answer

(* The parts of the invariant speak of the controller and the deployment.    *)
LEMMA KeptPrimed ==
    ASSUME Kept(ctl'), deployment' = deployment
    PROVE  Kept(ctl)'
  BY DEF Kept, Shape, QueueOK, Entries, SessionOK, Landing, ToldOK, Staffed, Unmanned

LEMMA RoomyPrimed ==
    ASSUME Roomy(ctl'), deployment' = deployment
    PROVE  Roomy(ctl)'
  BY DEF Roomy, Counted, Act, Awaited

LEMMA KeptSame ==
    ASSUME UNCHANGED vars
    PROVE  /\ Inv => Inv'
           /\ Roomy(ctl) => Roomy(ctl)'
  <1>1. ctl' = ctl /\ deployment' = deployment /\ cancels' = cancels
    BY DEF vars
  <1>2. Kept(ctl) => Kept(ctl)'
    BY <1>1, KeptPrimed
  <1>3. Roomy(ctl) => Roomy(ctl)'
    BY <1>1, RoomyPrimed
  <1> QED
    BY <1>1, <1>2, <1>3 DEF Inv

LEMMA NextInv == Inv /\ [Next]_vars => Inv'
  <1> SUFFICES ASSUME Inv, [Next]_vars PROVE Inv'
    OBVIOUS
  <1>1. CASE Next
    <2>1. Kept(ctl') /\ deployment' = deployment /\ cancels' \in 0 .. MaxCancels
      BY <1>1, StepIsSafe
    <2>2. Kept(ctl)'
      BY <2>1, KeptPrimed
    <2> QED
      BY <2>1, <2>2 DEF Inv
  <1>2. CASE UNCHANGED vars
    BY <1>2, KeptSame
  <1> QED
    BY <1>1, <1>2

LEMMA NextRoomy == CommitsOrIsolates /\ Inv /\ Roomy(ctl) /\ [Next]_vars => Roomy(ctl)'
  <1> SUFFICES ASSUME CommitsOrIsolates, Inv, Roomy(ctl), [Next]_vars PROVE Roomy(ctl)'
    OBVIOUS
  <1>1. CASE Next
    <2>1. deployment' = deployment /\ Roomy(ctl')
      BY <1>1, StepIsSafe
    <2> QED
      BY <2>1, RoomyPrimed
  <1>2. CASE UNCHANGED vars
    BY <1>2, KeptSame
  <1> QED
    BY <1>1, <1>2

LEMMA AlwaysInv == Spec => []Inv
  BY InitInv, NextInv, PTL DEF Spec

(* The controller's fields have their types in every reachable state; review *)
(* and gate fixes together stay within one budget, retries within theirs.    *)
THEOREM TypeCorrect == Spec => []TypeOK
  <1>1. Inv => TypeOK
    BY DEF Inv, Kept, Shape, TypeOK
  <1> QED
    BY <1>1, AlwaysInv, PTL

(* Whatever comes back late or fails, a chain at work has exactly one child, *)
(* retry timer or planned fix, and every other chain has nothing working for *)
(* it (handlers of onAgentComplete, onAgentFailed and the retry timers).     *)
THEOREM OneWorkerEach == Spec => []EveryPhaseHasItsWorker
  <1>1. Inv => EveryPhaseHasItsWorker
    <2> SUFFICES ASSUME Inv, NEW c \in Chain
                 PROVE  Workers(c) = IF ctl.state[c] \in {"engineering", "reviewing", "fixing"}
                                     THEN 1 ELSE 0
      BY DEF EveryPhaseHasItsWorker
    <2>1. Staffed(ctl, c) /\ ctl.live[c] \in Seq(Role)
      BY Fields DEF Inv, Kept, Shape
    <2>2. ctl.live[c] = <<>> => Len(ctl.live[c]) = 0
      OBVIOUS
    <2>3. CASE ctl.state[c] \in AtWork
      <3>1. ~ Ended(c)
        BY <2>3 DEF Ended, AtWork, Terminal
      <3> QED
        <4>1. CASE Len(ctl.live[c]) = 1 /\ ctl.respawn[c] = "none" /\ c \notin ctl.planned
          BY <2>3, <4>1 DEF Workers, AtWork
        <4>2. CASE ctl.live[c] = <<>> /\ ctl.respawn[c] # "none" /\ c \notin ctl.planned
          BY <2>2, <2>3, <3>1, <4>2 DEF Workers, AtWork
        <4>3. CASE ctl.live[c] = <<>> /\ ctl.respawn[c] = "none" /\ c \in ctl.planned
          BY <2>2, <2>3, <3>1, <4>3 DEF Workers, AtWork
        <4> QED
          BY <2>1, <2>3, <4>1, <4>2, <4>3 DEF Staffed
    <2>4. CASE ctl.state[c] \notin AtWork
      <3>1. Len(ctl.live[c]) = 0 /\ (~ Ended(c) => ctl.respawn[c] = "none" /\ c \notin ctl.planned)
        BY <2>1, <2>2, <2>4 DEF Staffed, Unmanned, Ended
      <3> QED
        BY <2>4, <3>1 DEF Workers, AtWork
    <2> QED
      BY <2>3, <2>4
  <1> QED
    BY <1>1, AlwaysInv, PTL

(* The owner's agent reports an end exactly when its chain has one, and the  *)
(* same one (completeChainAsPassed, failChain, cancelChain).                 *)
THEOREM OwnersAreTold == Spec => []OwnerKnowsTheEnd
  <1>1. Inv => OwnerKnowsTheEnd
    <2> SUFFICES ASSUME Inv, NEW c \in Chain
                 PROVE  ctl.told[c] \in CASE ctl.state[c] = "passed" -> {"completed"}
                                          [] ctl.state[c] = "failed" -> {"failed", "cancelled"}
                                          [] OTHER -> {"none"}
      BY DEF OwnerKnowsTheEnd
    <2>1. ToldOK(ctl, c)
      BY DEF Inv, Kept, Shape
    <2> QED
      BY <2>1 DEF ToldOK, Terminal
  <1> QED
    BY <1>1, AlwaysInv, PTL

(* No late answer changes the verdict on a chain or what its owner reported. *)
THEOREM VerdictsAreFinal == Spec => VerdictIsFinal
  <1>1. Inv /\ [Next]_vars =>
            [\A c \in Chain : Ended(c) => /\ ctl'.state[c] = ctl.state[c]
                                          /\ ctl'.told[c] = ctl.told[c]]_vars
    <2> SUFFICES ASSUME Inv, Next, NEW c \in Chain, Ended(c)
                 PROVE  ctl'.state[c] = ctl.state[c] /\ ctl'.told[c] = ctl.told[c]
      OBVIOUS
    <2>1. Final(ctl, ctl')
      BY StepIsSafe
    <2> QED
      BY <2>1 DEF Final, Ended
  <1> QED
    BY <1>1, AlwaysInv, PTL DEF Spec, VerdictIsFinal

LEMMA AlwaysRoomy == CommitsOrIsolates => (Spec => []Roomy(ctl))
  <1> SUFFICES ASSUME CommitsOrIsolates PROVE Spec => []Roomy(ctl)
    OBVIOUS
  <1>1. Inv /\ Roomy(ctl) /\ [Next]_vars => Roomy(ctl)'
    BY NextRoomy
  <1> QED
    BY <1>1, AlwaysInv, InitInv, PTL DEF Spec

(* Unless commits are left to the user without worktrees, activeChainCount   *)
(* is the number of active chains, and without worktrees never more than     *)
(* MAX_ACTIVE_CHAINS (startEngineeringChain and every end of a chain).       *)
THEOREM CountIsRight == CommitsOrIsolates => (Spec => []CapacityIsKept)
  <1> SUFFICES ASSUME CommitsOrIsolates PROVE Spec => []CapacityIsKept
    OBVIOUS
  <1>1. Roomy(ctl) => CapacityIsKept
    BY DEF Roomy, Counted, Act, CapacityIsKept, ActiveChains
  <1> QED
    BY <1>1, AlwaysRoomy, PTL

(* In the same deployments a chain is queued only while some chain is there  *)
(* whose end takes it from the queue (dequeueNext).                          *)
THEOREM QueueMovesOn == CommitsOrIsolates => (Spec => []QueueIsServed)
  <1> SUFFICES ASSUME CommitsOrIsolates PROVE Spec => []QueueIsServed
    OBVIOUS
  <1>1. Roomy(ctl) => QueueIsServed
    BY DEF Roomy, Act, Awaited, QueueIsServed, ActiveChains
  <1> QED
    BY <1>1, AlwaysRoomy, PTL

=============================================================================
