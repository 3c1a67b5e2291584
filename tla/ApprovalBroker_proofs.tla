------------------------ MODULE ApprovalBroker_proofs ------------------------
(***************************************************************************)
(* One prompt for identical asks, nobody who waits is forgotten, and what  *)
(* was decided or told stands, for any number of asks, callers, failing    *)
(* writes and restarts.                                                    *)
(*                                                                         *)
(* Two facts do not carry themselves over a step.  Identical asks must not *)
(* both be restored with a timer, so no map that may come to be the file   *)
(* has two of them open with a deadline; those are snapshots of memory,    *)
(* where an open ask with a deadline has an entry (DeadlinesHeard) and     *)
(* entries are unique.  And the write that ends the wait of a caller must  *)
(* still settle its ask when it lands, so the asks of a settling write are *)
(* not open, which no new ask can break because its id is new (Known).     *)
(*                                                                         *)
(* That a verdict stands needs the order of the writes: the file, the      *)
(* writes in their order and memory are snapshots of one history, and a    *)
(* verdict in one of them is in all younger ones (History).                *)
(***************************************************************************)
EXTENDS ApprovalBroker, FiniteSetTheorems, SequenceTheorems, TLAPS

\* The writes in a queue.
Elems(q) == {q[i] : i \in DOMAIN q}

\* At most one open ask with a deadline for each key.
UniqueDeadlines(m) ==
    \A a, b \in Ask :
        Open(m[a]) /\ m[a].timed /\ Open(m[b]) /\ m[b].timed /\ KeyOf[a] = KeyOf[b]
            => a = b

\* The asks of a map were raised by somebody.
Known(m) == \A a \in Ask : m[a].status # "none" => \E c \in Caller : asks[c] = a

\* The asks of a settling write are settled, there and in memory.
Settles(w) ==
    w.for = "settle" => /\ w.about # {}
                        /\ \A a \in w.about : Settled(w.map[a]) /\ ~ Open(rec[a])

MapOK(m) == UniqueDeadlines(m) /\ Known(m)
DeadlinesHeard == \A a \in Ask : Open(rec[a]) /\ rec[a].timed => a \in entries
QueueOK == \A w \in Elems(queue) : MapOK(w.map) /\ Settles(w)

\* NobodyForgotten, in terms of the writes.
Remembered ==
    \A c \in Caller : outcome[c] = "waiting" /\ asks[c] \notin spoilt =>
        /\ asks[c] \in entries /\ c \in waiting[asks[c]]
        /\ \/ Open(rec[asks[c]])
           \/ \E w \in Elems(queue) : w.for = "settle" /\ asks[c] \in w.about

\* What holds in every state, and is preserved by every step.
IInv ==
    /\ TypeOK
    /\ DeadlinesHeard
    /\ MapOK(disk) /\ Known(rec)
    /\ QueueOK
    /\ OnePrompt
    /\ Remembered

-----------------------------------------------------------------------------
(* Queues. *)

\* A write joins the queue at its end.
LEMMA Joins ==
    ASSUME NEW S, NEW q \in Seq(S), NEW w \in S
    PROVE  Append(q, w) \in Seq(S) /\ Elems(Append(q, w)) = Elems(q) \cup {w}
<1>1. Append(q, w) \in Seq(S) /\ Len(Append(q, w)) = Len(q) + 1
    OBVIOUS
<1>2. \A i \in 1 .. Len(q) : Append(q, w)[i] = q[i]
    OBVIOUS
<1>3. Append(q, w)[Len(q) + 1] = w
    OBVIOUS
<1>4. DOMAIN q = 1 .. Len(q) /\ DOMAIN Append(q, w) = 1 .. (Len(q) + 1) /\ Len(q) \in Nat
    OBVIOUS
<1>5. DOMAIN Append(q, w) = DOMAIN q \cup {Len(q) + 1}
    BY <1>4
<1> QED
    BY <1>1, <1>2, <1>3, <1>4, <1>5 DEF Elems

\* The first write leaves the queue: where the others are then.
LEMMA LeavesAt ==
    ASSUME NEW S, NEW q \in Seq(S), q # << >>
    PROVE  /\ Len(q) \in Nat \ {0} /\ DOMAIN q = 1 .. Len(q)
           /\ RemoveAt(q, 1) \in Seq(S)
           /\ DOMAIN RemoveAt(q, 1) = 1 .. (Len(q) - 1)
           /\ \A i \in 1 .. (Len(q) - 1) : RemoveAt(q, 1)[i] = q[i + 1] /\ i + 1 \in DOMAIN q
<1> DEFINE r == RemoveAt(q, 1)
<1>1. Len(q) \in Nat \ {0} /\ DOMAIN q = 1 .. Len(q)
    OBVIOUS
<1>2. r = SubSeq(q, 2, Len(q))
  <2>1. SubSeq(q, 1, 1 - 1) = << >> /\ SubSeq(q, 2, Len(q)) \in Seq(S)
      BY <1>1
  <2>2. \A t \in Seq(S) : << >> \o t = t
      OBVIOUS
  <2> QED
      BY <2>1, <2>2 DEF RemoveAt
<1>3. /\ r \in Seq(S) /\ Len(r) = Len(q) - 1
      /\ \A i \in 1 .. (Len(q) - 1) : r[i] = q[2 + i - 1]
  <2>1. \A i \in 2 .. Len(q) : q[i] \in S
      BY <1>1
  <2>2. /\ SubSeq(q, 2, Len(q)) \in Seq(S)
        /\ Len(SubSeq(q, 2, Len(q))) = IF 2 <= Len(q) THEN Len(q) - 2 + 1 ELSE 0
        /\ \A i \in 1 .. Len(q) - 2 + 1 : SubSeq(q, 2, Len(q))[i] = q[2 + i - 1]
    <3>1. 2 \in Int /\ Len(q) \in Int
        BY <1>1
    <3> QED
        BY <2>1, <3>1, SubSeqProperties
  <2>3. (IF 2 <= Len(q) THEN Len(q) - 2 + 1 ELSE 0) = Len(q) - 1 /\ Len(q) - 2 + 1 = Len(q) - 1
      BY <1>1
  <2> HIDE DEF r
  <2> QED
      BY <2>2, <2>3, <1>2
<1> HIDE DEF r
<1>4. /\ DOMAIN r = 1 .. (Len(q) - 1)
      /\ \A i \in 1 .. (Len(q) - 1) : r[i] = q[i + 1] /\ i + 1 \in DOMAIN q
    BY <1>1, <1>3
<1> QED
    BY <1>1, <1>3, <1>4 DEF r

\* The first write leaves the queue: which writes are left.
LEMMA Leaves ==
    ASSUME NEW S, NEW q \in Seq(S), q # << >>
    PROVE  /\ RemoveAt(q, 1) \in Seq(S)
           /\ q[1] \in S /\ q[1] \in Elems(q)
           /\ Elems(RemoveAt(q, 1)) \subseteq Elems(q)
           /\ Elems(q) \subseteq Elems(RemoveAt(q, 1)) \cup {q[1]}
<1> DEFINE r == RemoveAt(q, 1)
<1>1. /\ Len(q) \in Nat \ {0} /\ DOMAIN q = 1 .. Len(q)
      /\ r \in Seq(S) /\ DOMAIN r = 1 .. (Len(q) - 1)
      /\ \A i \in 1 .. (Len(q) - 1) : r[i] = q[i + 1] /\ i + 1 \in DOMAIN q
    BY LeavesAt
<1> HIDE DEF r
<1>2. q[1] \in S /\ q[1] \in Elems(q)
    BY <1>1 DEF Elems
<1>3. Elems(r) \subseteq Elems(q)
    BY <1>1 DEF Elems
<1>4. ASSUME NEW i \in DOMAIN q PROVE q[i] \in Elems(r) \cup {q[1]}
  <2>1. CASE i = 1
      BY <2>1
  <2>2. CASE i # 1
    <3>1. i - 1 \in 1 .. (Len(q) - 1) /\ r[i - 1] = q[i]
        BY <1>1, <2>2
    <3> QED
        BY <3>1, <1>1 DEF Elems
  <2> QED
      BY <2>1, <2>2
<1>5. \A w \in Elems(q) : w \in Elems(r) \cup {q[1]}
    BY <1>4 DEF Elems
<1> QED
    BY <1>1, <1>2, <1>3, <1>5 DEF r

\* The two ways to state that the write of a verdict is on its way.
LEMMA OnItsWay ==
    ASSUME NEW a
    PROVE  (\E i \in DOMAIN queue : queue[i].for = "settle" /\ a \in queue[i].about)
           <=> (\E w \in Elems(queue) : w.for = "settle" /\ a \in w.about)
BY DEF Elems

-----------------------------------------------------------------------------
(* Records, maps and writes. *)

\* A record takes a new status and stays a record.
LEMMA Restated ==
    ASSUME NEW r \in Record, NEW s \in {"none"} \cup OpenStatus \cup Verdict
    PROVE  /\ [r EXCEPT !.status = s] \in Record
           /\ [r EXCEPT !.status = s].status = s
           /\ [r EXCEPT !.status = s].timed = r.timed
BY DEF Record

\* What a status says.
LEMMA Statuses ==
    /\ \A r : Settled(r) => ~ Open(r) /\ r.status # "none"
    /\ \A r : Open(r) => r.status # "none"
    /\ ~ Open(Absent) /\ Absent \in Record
BY DEF Settled, Open, Verdict, OpenStatus, Absent, Record

\* A snapshot of memory may become the file.
LEMMA Snapshot ==
    ASSUME NEW m, m = rec', DeadlinesHeard', OnePrompt', Known(rec)'
    PROVE  MapOK(m)'
BY DEF DeadlinesHeard, OnePrompt, MapOK, UniqueDeadlines, Known

\* The writes queued before a step are as good after it, if no ask loses who
\* raised it and no settled ask is opened.
LEMMA QueueCarries ==
    ASSUME QueueOK, NEW w \in Elems(queue),
           \A a \in Ask : (\E c \in Caller : asks[c] = a) => \E c \in Caller : asks'[c] = a,
           w.for = "settle" => \A a \in w.about : ~ Open(rec'[a])
    PROVE  MapOK(w.map)' /\ Settles(w)'
BY DEF QueueOK, MapOK, UniqueDeadlines, Known, Settles

\* So is the file.
LEMMA FileCarries ==
    ASSUME NEW m, MapOK(m),
           \A a \in Ask : (\E c \in Caller : asks[c] = a) => \E c \in Caller : asks'[c] = a
    PROVE  MapOK(m)'
BY DEF MapOK, UniqueDeadlines, Known

\* The parts of the invariant that a step must keep, for a step that only adds
\* one write of memory to the queue.
LEMMA Requested ==
    ASSUME IInv, rec' \in [Ask -> Record],
           NEW purpose \in Purpose, NEW about \in SUBSET Ask, NEW by \in SUBSET Caller,
           NEW wide \in BOOLEAN, Request(purpose, about, by, wide)
    PROVE  /\ queue' \in Seq(Write)
           /\ Elems(queue) \subseteq Elems(queue')
           /\ \A w \in Elems(queue') : (w \notin Elems(queue) => w.for = purpose /\ w.about = about /\ w.map = rec')
           /\ \E w \in Elems(queue') : w.for = purpose /\ w.about = about /\ w.map = rec'
<1> DEFINE new == NewWrite(purpose, about, by, wide)
<1>1. new \in Write
    BY DEF NewWrite, Write
<1>2. queue \in Seq(Write)
    BY DEF IInv, TypeOK
<1>3. queue' = Append(queue, new)
    BY DEF Request
<1>4. new.for = purpose /\ new.about = about /\ new.map = rec'
    BY DEF NewWrite
<1> HIDE DEF new
<1>5. queue' \in Seq(Write) /\ Elems(queue') = Elems(queue) \cup {new}
    BY <1>1, <1>2, <1>3, Joins
<1>6. new \in Elems(queue')
    BY <1>5
<1>7. \E w \in Elems(queue') : w.for = purpose /\ w.about = about /\ w.map = rec'
    BY <1>4, <1>6
<1>8. \A w \in Elems(queue') : (w \notin Elems(queue) => w.for = purpose /\ w.about = about /\ w.map = rec')
  <2> TAKE w \in Elems(queue')
  <2>1. w \in Elems(queue) \/ w = new
      BY <1>5
  <2> QED
      BY <2>1, <1>4
<1> QED
    BY <1>5, <1>7, <1>8

-----------------------------------------------------------------------------
(* The steps. *)

LEMMA InitHolds == Init => IInv
<1> SUFFICES ASSUME Init PROVE IInv
    OBVIOUS
<1>1. queue \in Seq(Write) /\ Elems(queue) = {}
    BY DEF Init, Elems
<1>2. rec \in [Ask -> Record] /\ \A a \in Ask : ~ Open(rec[a]) /\ rec[a].status = "none"
    BY Statuses DEF Init, Absent
<1>3. TypeOK
    BY <1>1, <1>2, BrokerAssumption DEF Init, TypeOK
<1>4. MapOK(disk) /\ Known(rec)
    BY <1>2 DEF Init, MapOK, UniqueDeadlines, Known
<1>5. DeadlinesHeard /\ OnePrompt /\ Remembered
    BY <1>2 DEF Init, DeadlinesHeard, OnePrompt, Remembered
<1> QED
    BY <1>1, <1>3, <1>4, <1>5 DEF IInv, QueueOK

LEMMA AttachHolds ==
    ASSUME IInv, NEW c \in Caller, NEW a \in Ask, NEW k, Attach(c, a, k)
    PROVE  IInv'
<1>1. /\ Open(rec[a]) /\ a \in entries /\ asks[c] = NoAsk
      /\ waiting' = [waiting EXCEPT ![a] = @ \cup {c}]
      /\ asks' = [asks EXCEPT ![c] = a]
      /\ outcome' = [outcome EXCEPT ![c] = "waiting"]
      /\ UNCHANGED <<rec, entries, armed, queue, disk, failures, crashes, spoilt>>
    BY DEF Attach, Coalesces, IsNext, Asked, faults
<1>2. TypeOK'
    BY <1>1 DEF IInv, TypeOK
<1>3. \A b \in Ask : (\E d \in Caller : asks[d] = b) => \E d \in Caller : asks'[d] = b
    BY <1>1, BrokerAssumption DEF IInv, TypeOK
<1>4. MapOK(disk)' /\ Known(rec)'
    BY <1>1, <1>3, FileCarries DEF IInv, MapOK, UniqueDeadlines, Known
<1>5. QueueOK'
  <2>1. ASSUME NEW w \in Elems(queue) PROVE MapOK(w.map)' /\ Settles(w)'
    <3>1. w.for = "settle" => \A b \in w.about : ~ Open(rec'[b])
        BY <1>1 DEF IInv, QueueOK, Settles
    <3> QED
        BY <3>1, <1>3, QueueCarries DEF IInv
  <2> QED
      BY <1>1, <2>1 DEF QueueOK
<1>6. DeadlinesHeard' /\ OnePrompt'
    BY <1>1 DEF IInv, DeadlinesHeard, OnePrompt
<1>8. Remembered'
    BY <1>1 DEF IInv, TypeOK, Remembered
<1> QED
    BY <1>2, <1>4, <1>5, <1>6, <1>8 DEF IInv

LEMMA RaiseHolds ==
    ASSUME IInv, NEW c \in Caller, NEW a \in Ask, NEW timed \in BOOLEAN, Raise(c, a, timed)
    PROVE  IInv'
<1>1. /\ asks[c] = NoAsk
      /\ \A b \in Ask : ~ (Open(rec[b]) /\ b \in entries /\ KeyOf[b] = KeyOf[a])
      /\ \A d \in Caller : asks[d] # a
      /\ rec' = [rec EXCEPT ![a] = [status |-> "pending", timed |-> timed]]
      /\ entries' = entries \cup {a}
      /\ waiting' = [waiting EXCEPT ![a] = {c}]
      /\ armed' \subseteq armed \cup {a}
      /\ Request("raise", {a}, {c}, FALSE)
      /\ asks' = [asks EXCEPT ![c] = a]
      /\ outcome' = [outcome EXCEPT ![c] = "waiting"]
      /\ UNCHANGED <<disk, failures, crashes, spoilt>>
    BY DEF Raise, Coalesces, IsNext, Asked, IsFresh, Used, faults
<1>2. rec' \in [Ask -> Record]
    BY <1>1 DEF IInv, TypeOK, Record, OpenStatus
<1>3. /\ queue' \in Seq(Write)
      /\ Elems(queue) \subseteq Elems(queue')
      /\ \A w \in Elems(queue') : (w \notin Elems(queue) => w.for = "raise" /\ w.about = {a} /\ w.map = rec')
  <2>1. "raise" \in Purpose /\ {a} \in SUBSET Ask /\ {c} \in SUBSET Caller /\ FALSE \in BOOLEAN
      BY DEF Purpose
  <2> QED
      BY <1>1, <1>2, <2>1, Requested
<1>4. TypeOK'
    BY <1>1, <1>2, <1>3 DEF IInv, TypeOK
<1>5. \A b \in Ask : (\E d \in Caller : asks[d] = b) => \E d \in Caller : asks'[d] = b
    BY <1>1, BrokerAssumption DEF IInv, TypeOK
<1>6. MapOK(disk)'
    BY <1>1, <1>5, FileCarries DEF IInv
<1>7. Known(rec)'
  <2>1. \A b \in Ask \ {a} : rec'[b] = rec[b]
      BY <1>1 DEF IInv, TypeOK
  <2>2. asks'[c] = a
      BY <1>1 DEF IInv, TypeOK
  <2> QED
      BY <2>1, <2>2, <1>5 DEF IInv, Known
<1>8. DeadlinesHeard'
    BY <1>1 DEF IInv, TypeOK, DeadlinesHeard
<1>9. OnePrompt'
    BY <1>1 DEF IInv, TypeOK, OnePrompt
<1>10. QueueOK'
  <2>1. ASSUME NEW w \in Elems(queue) PROVE MapOK(w.map)' /\ Settles(w)'
    <3>1. w.for = "settle" => \A b \in w.about : ~ Open(rec'[b])
      <4> SUFFICES ASSUME w.for = "settle", NEW b \in w.about PROVE ~ Open(rec'[b])
          OBVIOUS
      <4>1. w \in Write
          BY DEF IInv, TypeOK, Elems
      <4>2. b \in Ask /\ Settled(w.map[b]) /\ ~ Open(rec[b]) /\ Known(w.map)
          BY <4>1 DEF IInv, QueueOK, Settles, MapOK, Write
      <4>3. b # a
          BY <4>2, <1>1, Statuses DEF Known
      <4> QED
          BY <4>2, <4>3, <1>1 DEF IInv, TypeOK
    <3> QED
        BY <3>1, <1>5, QueueCarries DEF IInv
  <2>2. ASSUME NEW w \in Elems(queue'), w.for = "raise", w.map = rec'
        PROVE  MapOK(w.map)' /\ Settles(w)'
      BY <2>2, <1>7, <1>8, <1>9, Snapshot DEF Settles
  <2> QED
      BY <1>3, <2>1, <2>2 DEF QueueOK
<1>12. Remembered'
    BY <1>1, <1>3, Statuses DEF IInv, TypeOK, Remembered, Open, OpenStatus
<1> QED
    BY <1>4, <1>6, <1>7, <1>8, <1>9, <1>10, <1>12 DEF IInv

\* A change of one record that leaves who waits alone, opens nothing and adds a
\* write about it: a claim, an update, a verdict.
LEMMA ChangeHolds ==
    ASSUME IInv, NEW a \in Ask, NEW purpose \in {"note", "settle"}, NEW wide \in BOOLEAN,
           rec' \in [Ask -> Record], Request(purpose, {a}, {}, wide),
           rec[a].status # "none",
           \A b \in Ask \ {a} : rec'[b] = rec[b],
           Open(rec'[a]) => Open(rec[a]) /\ rec'[a].timed = rec[a].timed,
           purpose = "settle" => Settled(rec'[a]),
           purpose = "note" => (Open(rec[a]) => Open(rec'[a])),
           armed' \subseteq armed,
           UNCHANGED <<entries, waiting, disk, asks, outcome, failures, crashes, spoilt>>
    PROVE  IInv'
<1>1. /\ queue' \in Seq(Write)
      /\ Elems(queue) \subseteq Elems(queue')
      /\ \A w \in Elems(queue') : (w \notin Elems(queue) => w.for = purpose /\ w.about = {a} /\ w.map = rec')
      /\ \E w \in Elems(queue') : w.for = purpose /\ w.about = {a} /\ w.map = rec'
  <2> DEFINE about == {a}  by == {}
  <2>1. purpose \in Purpose /\ about \in SUBSET Ask /\ by \in SUBSET Caller
      BY DEF Purpose
  <2>2. Request(purpose, about, by, wide)
      OBVIOUS
  <2> HIDE DEF about, by
  <2>3. /\ queue' \in Seq(Write)
        /\ Elems(queue) \subseteq Elems(queue')
        /\ \A w \in Elems(queue') :
              (w \notin Elems(queue) => w.for = purpose /\ w.about = about /\ w.map = rec')
        /\ \E w \in Elems(queue') : w.for = purpose /\ w.about = about /\ w.map = rec'
      BY <2>1, <2>2, Requested
  <2> QED
      BY <2>3 DEF about
<1>2. TypeOK'
    BY <1>1 DEF IInv, TypeOK
<1>3. MapOK(disk)' /\ Known(rec)'
    BY FileCarries DEF IInv, MapOK, UniqueDeadlines, Known
<1>4. DeadlinesHeard' /\ OnePrompt'
    BY DEF IInv, TypeOK, DeadlinesHeard, OnePrompt
<1>5. QueueOK'
  <2>1. ASSUME NEW w \in Elems(queue) PROVE MapOK(w.map)' /\ Settles(w)'
    <3>1. w.for = "settle" => \A b \in w.about : ~ Open(rec'[b])
      <4> SUFFICES ASSUME w.for = "settle", NEW b \in w.about PROVE ~ Open(rec'[b])
          OBVIOUS
      <4>1. w \in Write
          BY DEF IInv, TypeOK, Elems
      <4>2. b \in Ask /\ ~ Open(rec[b])
          BY <4>1 DEF IInv, QueueOK, Settles, Write
      <4> QED
          BY <4>2
    <3> QED
        BY <3>1, QueueCarries DEF IInv
  <2>2. ASSUME NEW w \in Elems(queue'), w.for = purpose, w.about = {a}, w.map = rec'
        PROVE  MapOK(w.map)' /\ Settles(w)'
      BY <2>2, <1>3, <1>4, Snapshot, Statuses DEF Settles
  <2> QED
      BY <1>1, <2>1, <2>2 DEF QueueOK
<1>6. Remembered'
  <2> SUFFICES ASSUME NEW c \in Caller, outcome[c] = "waiting", asks[c] \notin spoilt
               PROVE  /\ asks[c] \in entries /\ c \in waiting[asks[c]]
                      /\ \/ Open(rec'[asks[c]])
                         \/ \E w \in Elems(queue') : w.for = "settle" /\ asks[c] \in w.about
      BY DEF Remembered
  <2>1. /\ asks[c] \in entries /\ c \in waiting[asks[c]]
        /\ \/ Open(rec[asks[c]])
           \/ \E w \in Elems(queue) : w.for = "settle" /\ asks[c] \in w.about
      BY DEF IInv, Remembered
  <2>2. asks[c] \in Ask
      BY <2>1 DEF IInv, TypeOK
  <2>3. CASE asks[c] = a /\ purpose = "settle"
      BY <2>1, <2>3, <1>1
  <2>4. CASE asks[c] # a \/ purpose = "note"
      BY <2>1, <2>2, <2>4, <1>1
  <2> QED
      BY <2>3, <2>4
<1> QED
    BY <1>2, <1>3, <1>4, <1>5, <1>6 DEF IInv

LEMMA ClaimHolds ==
    ASSUME IInv, NEW a \in Ask, Claim(a)
    PROVE  IInv'
<1>1. /\ Open(rec[a]) /\ rec' = [rec EXCEPT ![a].status = "claimed"]
      /\ Request("note", {a}, {}, FALSE)
      /\ UNCHANGED <<entries, waiting, armed, disk, asks, outcome, failures, crashes, spoilt>>
    BY DEF Claim, client, faults
<1>2. rec \in [Ask -> Record] /\ rec[a] \in Record
    BY DEF IInv, TypeOK
<1>3. [rec[a] EXCEPT !.status = "claimed"] \in Record
    BY <1>2, Restated DEF OpenStatus
<1>4. /\ rec' \in [Ask -> Record] /\ rec'[a].status = "claimed" /\ rec'[a].timed = rec[a].timed
      /\ \A b \in Ask \ {a} : rec'[b] = rec[b]
    BY <1>1, <1>2, <1>3 DEF Record
<1>5. Open(rec'[a])
    BY <1>4 DEF Open, OpenStatus
<1> QED
    BY <1>1, <1>4, <1>5, Statuses, ChangeHolds

LEMMA UpdateHolds ==
    ASSUME IInv, NEW a \in Ask, Update(a)
    PROVE  IInv'
<1>1. /\ rec[a].status # "none" /\ rec' = rec
      /\ Request("note", {a}, {}, FALSE)
      /\ UNCHANGED <<entries, waiting, armed, disk, asks, outcome, failures, crashes, spoilt>>
    BY DEF Update, client, faults
<1>2. rec \in [Ask -> Record]
    BY DEF IInv, TypeOK
<1> QED
    BY <1>1, <1>2, ChangeHolds

LEMMA SettleHolds ==
    ASSUME IInv, NEW a \in Ask, NEW verdict \in Verdict, NEW wide \in BOOLEAN,
           Settle(a, verdict, wide), armed' \subseteq armed
    PROVE  IInv'
<1>1. /\ Open(rec[a]) /\ rec' = [rec EXCEPT ![a].status = verdict]
      /\ Request("settle", {a}, {}, wide)
      /\ UNCHANGED <<entries, waiting, disk, asks, outcome, failures, crashes, spoilt>>
    BY DEF Settle, client, faults
<1>2. rec \in [Ask -> Record] /\ rec[a] \in Record
    BY DEF IInv, TypeOK
<1>3. [rec[a] EXCEPT !.status = verdict] \in Record
    BY <1>2, Restated
<1>4. /\ rec' \in [Ask -> Record] /\ rec'[a].status = verdict
      /\ \A b \in Ask \ {a} : rec'[b] = rec[b]
    BY <1>1, <1>2, <1>3 DEF Record
<1>5. Settled(rec'[a])
    BY <1>4 DEF Settled
<1> QED
    BY <1>1, <1>4, <1>5, Statuses, ChangeHolds

\* A timer that fires too late, and a step of nobody.
LEMMA IdleHolds ==
    ASSUME IInv, armed' \subseteq armed,
           UNCHANGED <<rec, entries, waiting, queue, disk, asks, outcome, failures, crashes, spoilt>>
    PROVE  IInv'
<1>1. TypeOK'
    BY DEF IInv, TypeOK
<1>2. DeadlinesHeard' /\ OnePrompt'
    BY DEF IInv, DeadlinesHeard, OnePrompt
<1>3. MapOK(disk)' /\ Known(rec)'
    BY DEF IInv, MapOK, UniqueDeadlines, Known
<1>4. QueueOK' /\ Remembered'
    BY DEF IInv, QueueOK, Remembered, MapOK, UniqueDeadlines, Known, Settles
<1> QED
    BY <1>1, <1>2, <1>3, <1>4 DEF IInv

\* What is known of the write whose turn it is.
LEMMA FirstWrite ==
    ASSUME IInv, queue # << >>
    PROVE  /\ RemoveAt(queue, 1) \in Seq(Write)
           /\ queue[1] \in Write /\ queue[1] \in Elems(queue)
           /\ MapOK(queue[1].map) /\ Settles(queue[1])
           /\ Elems(RemoveAt(queue, 1)) \subseteq Elems(queue)
           /\ Elems(queue) \subseteq Elems(RemoveAt(queue, 1)) \cup {queue[1]}
<1>1. queue \in Seq(Write)
    BY DEF IInv, TypeOK
<1>2. /\ RemoveAt(queue, 1) \in Seq(Write)
      /\ queue[1] \in Write /\ queue[1] \in Elems(queue)
      /\ Elems(RemoveAt(queue, 1)) \subseteq Elems(queue)
      /\ Elems(queue) \subseteq Elems(RemoveAt(queue, 1)) \cup {queue[1]}
    BY <1>1, Leaves
<1> QED
    BY <1>2 DEF IInv, QueueOK

\* A write after which nobody is told: one that is not about a verdict lands, or
\* one that is no raise fails.
LEMMA QuietHolds ==
    ASSUME IInv, queue # << >>, queue' = RemoveAt(queue, 1),
           disk' \in {disk, queue[1].map},
           failures' \in 0 .. MaxFailures,
           spoilt \subseteq spoilt', spoilt' \subseteq Ask,
           queue[1].for = "settle" => queue[1].about \subseteq spoilt',
           UNCHANGED <<rec, entries, waiting, armed, asks, outcome, crashes>>
    PROVE  IInv'
<1>1. /\ queue' \in Seq(Write)
      /\ queue[1] \in Write /\ MapOK(queue[1].map)
      /\ Elems(queue') \subseteq Elems(queue)
      /\ Elems(queue) \subseteq Elems(queue') \cup {queue[1]}
    BY FirstWrite
<1>2. queue[1].map \in [Ask -> Record]
    BY <1>1 DEF Write
<1>3. TypeOK'
    BY <1>1, <1>2 DEF IInv, TypeOK
<1>4. DeadlinesHeard' /\ OnePrompt'
    BY DEF IInv, DeadlinesHeard, OnePrompt
<1>5. MapOK(disk') /\ MapOK(disk)'
    BY <1>1 DEF IInv, MapOK, UniqueDeadlines, Known
<1>6. Known(rec)'
    BY DEF IInv, Known
<1>7. QueueOK'
  <2> SUFFICES ASSUME NEW w \in Elems(queue') PROVE MapOK(w.map)' /\ Settles(w)'
      BY DEF QueueOK
  <2>1. w \in Elems(queue)
      BY <1>1
  <2>2. w.for = "settle" => \A a \in w.about : ~ Open(rec'[a])
      BY <2>1 DEF IInv, QueueOK, Settles
  <2> QED
      BY <2>1, <2>2, QueueCarries DEF IInv
<1>8. Remembered'
    BY <1>1 DEF IInv, Remembered
<1> QED
    BY <1>3, <1>4, <1>5, <1>6, <1>7, <1>8 DEF IInv

\* A verdict has landed: its callers, and those of the asks it covers, are told.
LEMMA VerdictLands ==
    ASSUME IInv, queue # << >>, queue[1].for = "settle",
           NEW gone \in SUBSET Ask, queue[1].about \subseteq gone,
           ResolvePending(gone, VerdictOf(queue[1])),
           rec' \in [Ask -> Record],
           \A a \in Ask \ gone : rec'[a] = rec[a],
           \A a \in gone : ~ Open(rec'[a]) /\ (rec[a].status = "none" => rec'[a].status = "none"),
           disk' = queue[1].map,
           queue' \in Seq(Write),
           Elems(RemoveAt(queue, 1)) \subseteq Elems(queue'),
           \A w \in Elems(queue') : w \notin Elems(queue) => w.for = "sweep" /\ w.map = rec',
           UNCHANGED <<asks, failures, crashes, spoilt>>
    PROVE  IInv'
<1>1. /\ queue[1] \in Write /\ MapOK(queue[1].map) /\ Settles(queue[1])
      /\ Elems(queue) \subseteq Elems(queue') \cup {queue[1]}
    BY FirstWrite
<1>2. queue[1].map \in [Ask -> Record] /\ VerdictOf(queue[1]) \in Verdict
    BY <1>1 DEF Write, Settles, VerdictOf, Settled
<1>3. /\ entries' = entries \ gone /\ armed' = armed \ gone
      /\ waiting' = [a \in Ask |-> IF a \in gone THEN {} ELSE waiting[a]]
      /\ outcome' = [c \in Caller |-> IF \E a \in gone : c \in waiting[a]
                                     THEN VerdictOf(queue[1]) ELSE outcome[c]]
    BY DEF ResolvePending
<1>4. \A c \in Caller : outcome'[c] \in {"none", "waiting"} =>
                            outcome'[c] = outcome[c] /\ \A a \in gone : c \notin waiting[a]
    BY <1>2, <1>3 DEF Verdict
<1>5. TypeOK'
    BY <1>2, <1>3 DEF IInv, TypeOK
<1>6. DeadlinesHeard' /\ OnePrompt'
    BY <1>3 DEF IInv, DeadlinesHeard, OnePrompt, TypeOK
<1>8. MapOK(disk)' /\ Known(rec)'
    BY <1>1 DEF IInv, MapOK, UniqueDeadlines, Known
<1>9. QueueOK'
  <2>1. ASSUME NEW w \in Elems(queue) PROVE MapOK(w.map)' /\ Settles(w)'
    <3>1. w.for = "settle" => \A a \in w.about : ~ Open(rec'[a])
      <4> SUFFICES ASSUME w.for = "settle", NEW a \in w.about PROVE ~ Open(rec'[a])
          OBVIOUS
      <4>1. w \in Write
          BY DEF IInv, TypeOK, Elems
      <4>2. a \in Ask /\ ~ Open(rec[a])
          BY <4>1 DEF IInv, QueueOK, Settles, Write
      <4> QED
          BY <4>2
    <3> QED
        BY <3>1, QueueCarries DEF IInv
  <2>2. ASSUME NEW w \in Elems(queue'), w.for = "sweep", w.map = rec'
        PROVE  MapOK(w.map)' /\ Settles(w)'
      BY <2>2, <1>6, <1>8, Snapshot DEF Settles
  <2> QED
      BY <2>1, <2>2 DEF QueueOK
<1>10. Remembered'
  <2> SUFFICES ASSUME NEW c \in Caller, outcome'[c] = "waiting", asks[c] \notin spoilt
               PROVE  /\ asks[c] \in entries' /\ c \in waiting'[asks[c]]
                      /\ \/ Open(rec'[asks[c]])
                         \/ \E w \in Elems(queue') : w.for = "settle" /\ asks[c] \in w.about
      BY DEF Remembered
  <2>1. outcome[c] = "waiting" /\ \A a \in gone : c \notin waiting[a]
      BY <1>4
  <2>2. /\ asks[c] \in entries /\ c \in waiting[asks[c]]
        /\ \/ Open(rec[asks[c]])
           \/ \E w \in Elems(queue) : w.for = "settle" /\ asks[c] \in w.about
      BY <2>1 DEF IInv, Remembered
  <2>3. asks[c] \in Ask \ gone
      BY <2>1, <2>2 DEF IInv, TypeOK
  <2> QED
      BY <2>2, <2>3, <1>1, <1>3
<1> QED
    BY <1>5, <1>6, <1>8, <1>9, <1>10 DEF IInv

LEMMA LandsHolds ==
    ASSUME IInv, NEW i \in DOMAIN queue, Lands(i)
    PROVE  IInv'
<1> DEFINE w == queue[1]
           rest == RemoveAt(queue, 1)
<1>1. i = 1 /\ queue # << >>
    BY DEF Lands, InTurn
<1>2. /\ rest \in Seq(Write) /\ w \in Write /\ Settles(w) /\ MapOK(w.map)
      /\ Elems(rest) \subseteq Elems(queue)
    BY <1>1, FirstWrite
<1>3. disk' = w.map /\ UNCHANGED <<asks, failures, crashes, spoilt>>
    BY <1>1 DEF Lands, faults
<1>4. CASE w.for = "settle" /\ w.wide
  <2> DEFINE new == NewWrite("sweep", Swept(w), {}, FALSE)
             gone == w.about \cup Swept(w)
  <2>1. /\ rec' = [a \in Ask |-> IF a \in Swept(w)
                                THEN [rec[a] EXCEPT !.status = VerdictOf(w)] ELSE rec[a]]
        /\ queue' = Append(rest, new)
        /\ ResolvePending(gone, VerdictOf(w))
      BY <1>1, <1>4 DEF Lands
  <2>2. Swept(w) \in SUBSET Ask /\ w.about \in SUBSET Ask /\ \A a \in Swept(w) : Open(rec[a])
      BY <1>2 DEF Swept, Write
  <2>3. VerdictOf(w) \in Verdict
      BY <1>2, <1>4 DEF Settles, VerdictOf, Settled
  <2>4. \A a \in Ask : /\ rec[a] \in Record
                        /\ [rec[a] EXCEPT !.status = VerdictOf(w)] \in Record
                        /\ [rec[a] EXCEPT !.status = VerdictOf(w)].status = VerdictOf(w)
      BY <2>3, Restated DEF IInv, TypeOK
  <2>5. rec' \in [Ask -> Record]
      BY <2>1, <2>4
  <2>6. \A a \in Ask \ gone : rec'[a] = rec[a]
      BY <2>1
  <2>7. ASSUME NEW a \in gone
        PROVE  ~ Open(rec'[a]) /\ (rec[a].status = "none" => rec'[a].status = "none")
    <3>1. CASE a \in Swept(w)
      <4>1. rec'[a].status = VerdictOf(w)
          BY <2>1, <2>2, <2>4, <3>1
      <4> QED
          BY <4>1, <2>2, <2>3, <3>1, Statuses DEF Settled
    <3>2. CASE a \notin Swept(w)
        BY <2>1, <2>2, <3>2, <1>2, <1>4 DEF Settles
    <3> QED
        BY <3>1, <3>2
  <2>8. new \in Write /\ new.for = "sweep" /\ new.map = rec'
      BY <2>2, <2>5 DEF NewWrite, Write, Purpose
  <2> HIDE DEF new
  <2>9. queue' \in Seq(Write) /\ Elems(queue') = Elems(rest) \cup {new}
      BY <1>2, <2>1, <2>8, Joins
  <2>10. /\ Elems(rest) \subseteq Elems(queue')
         /\ \A v \in Elems(queue') : v \notin Elems(queue) => v.for = "sweep" /\ v.map = rec'
      BY <1>2, <2>8, <2>9
  <2>11. gone \in SUBSET Ask /\ w.about \subseteq gone
      BY <2>2
  <2> HIDE DEF gone
  <2> QED
      BY <1>1, <1>3, <1>4, <2>1, <2>5, <2>6, <2>7, <2>9, <2>10, <2>11, VerdictLands
<1>5. CASE w.for = "settle" /\ ~ w.wide
  <2>1. /\ rec' = rec /\ queue' = rest
        /\ ResolvePending(w.about, VerdictOf(w))
      BY <1>1, <1>5 DEF Lands
  <2>2. w.about \in SUBSET Ask /\ \A a \in w.about : ~ Open(rec[a])
      BY <1>2, <1>5 DEF Settles, Write
  <2>3. rec \in [Ask -> Record]
      BY DEF IInv, TypeOK
  <2> QED
      BY <1>1, <1>2, <1>3, <1>5, <2>1, <2>2, <2>3, VerdictLands
<1>6. CASE w.for # "settle"
  <2>1. queue' = rest /\ UNCHANGED <<rec, entries, waiting, armed, outcome>>
      BY <1>1, <1>6 DEF Lands
  <2>2. failures' \in 0 .. MaxFailures /\ spoilt \subseteq spoilt' /\ spoilt' \subseteq Ask
      BY <1>3 DEF IInv, TypeOK
  <2> QED
      BY <1>1, <1>3, <1>6, <2>1, <2>2, QuietHolds
<1> QED
    BY <1>4, <1>5, <1>6

\* A raise that could not be saved is taken back.
LEMMA RollbackHolds ==
    ASSUME IInv, queue # << >>, queue[1].for = "raise",
           failures' \in 0 .. MaxFailures, spoilt' = spoilt \cup queue[1].about,
           rec' = [a \in Ask |-> IF a \in queue[1].about THEN Absent ELSE rec[a]],
           queue' = Append(RemoveAt(queue, 1), NewWrite("rollback", queue[1].about, {}, FALSE)),
           entries' = entries \ queue[1].about, armed' = armed \ queue[1].about,
           outcome' = [c \in Caller |-> IF c \in queue[1].by THEN "refused" ELSE outcome[c]],
           waiting' = [a \in Ask |-> IF a \in queue[1].about THEN {} ELSE waiting[a]],
           UNCHANGED <<disk, asks, crashes>>
    PROVE  IInv'
<1> DEFINE gone == queue[1].about
           new == NewWrite("rollback", gone, {}, FALSE)
<1>1. /\ RemoveAt(queue, 1) \in Seq(Write)
      /\ queue[1] \in Write
      /\ Elems(RemoveAt(queue, 1)) \subseteq Elems(queue)
      /\ Elems(queue) \subseteq Elems(RemoveAt(queue, 1)) \cup {queue[1]}
    BY FirstWrite
<1>2. gone \in SUBSET Ask
    BY <1>1 DEF Write
<1>3. rec' \in [Ask -> Record] /\ \A a \in gone : ~ Open(rec'[a]) /\ rec'[a].status = "none"
    BY <1>2, Statuses DEF IInv, TypeOK, Absent
<1>4. /\ new \in Write /\ new.for = "rollback" /\ new.map = rec'
      /\ queue' = Append(RemoveAt(queue, 1), new)
    BY <1>2, <1>3 DEF NewWrite, Write, Purpose
<1> HIDE DEF new
<1>5. queue' \in Seq(Write) /\ Elems(queue') = Elems(RemoveAt(queue, 1)) \cup {new}
  <2> DEFINE rest == RemoveAt(queue, 1)
  <2>1. rest \in Seq(Write) /\ new \in Write /\ queue' = Append(rest, new)
      BY <1>1, <1>4
  <2> HIDE DEF rest
  <2>2. Append(rest, new) \in Seq(Write) /\ Elems(Append(rest, new)) = Elems(rest) \cup {new}
      BY <2>1, Joins
  <2> QED
      BY <2>1, <2>2 DEF rest
<1>6. \A c \in Caller : outcome'[c] \in {"none", "waiting"} => outcome'[c] = outcome[c]
    OBVIOUS
<1>7. TypeOK'
    BY <1>2, <1>3, <1>5 DEF IInv, TypeOK
<1>8. DeadlinesHeard' /\ OnePrompt'
    BY <1>2, <1>3 DEF IInv, DeadlinesHeard, OnePrompt, TypeOK
<1>10. MapOK(disk)' /\ Known(rec)'
    BY <1>3 DEF IInv, MapOK, UniqueDeadlines, Known
<1>11. QueueOK'
  <2>1. ASSUME NEW w \in Elems(queue) PROVE MapOK(w.map)' /\ Settles(w)'
    <3>1. w.for = "settle" => \A a \in w.about : ~ Open(rec'[a])
      <4> SUFFICES ASSUME w.for = "settle", NEW a \in w.about PROVE ~ Open(rec'[a])
          OBVIOUS
      <4>1. w \in Write
          BY DEF IInv, TypeOK, Elems
      <4>2. a \in Ask /\ ~ Open(rec[a])
          BY <4>1 DEF IInv, QueueOK, Settles, Write
      <4> QED
          BY <4>2, <1>3
    <3> QED
        BY <3>1, QueueCarries DEF IInv
  <2>2. ASSUME NEW w \in Elems(queue'), w.for = "rollback", w.map = rec'
        PROVE  MapOK(w.map)' /\ Settles(w)'
      BY <2>2, <1>8, <1>10, Snapshot DEF Settles
  <2>3. \A w \in Elems(queue') : w \notin Elems(queue) => w.for = "rollback" /\ w.map = rec'
      BY <1>1, <1>4, <1>5
  <2> QED
      BY <2>1, <2>2, <2>3 DEF QueueOK
<1>12. Remembered'
  <2> SUFFICES ASSUME NEW c \in Caller, outcome'[c] = "waiting", asks[c] \notin spoilt'
               PROVE  /\ asks[c] \in entries' /\ c \in waiting'[asks[c]]
                      /\ \/ Open(rec'[asks[c]])
                         \/ \E w \in Elems(queue') : w.for = "settle" /\ asks[c] \in w.about
      BY DEF Remembered
  <2>1. /\ asks[c] \in entries /\ c \in waiting[asks[c]]
        /\ \/ Open(rec[asks[c]])
           \/ \E w \in Elems(queue) : w.for = "settle" /\ asks[c] \in w.about
      BY <1>6 DEF IInv, Remembered
  <2>2. asks[c] \in Ask \ gone
      BY <2>1 DEF IInv, TypeOK
  <2> QED
      BY <2>1, <2>2, <1>1, <1>5
<1> QED
    BY <1>7, <1>8, <1>10, <1>11, <1>12 DEF IInv

LEMMA FailsHolds ==
    ASSUME IInv, NEW i \in DOMAIN queue, Fails(i)
    PROVE  IInv'
<1>1. /\ i = 1 /\ queue # << >>
      /\ failures < MaxFailures /\ failures' = failures + 1
      /\ spoilt' = spoilt \cup Spoils(queue[1])
      /\ UNCHANGED <<disk, asks, crashes>>
    BY DEF Fails, InTurn
<1>2. failures' \in 0 .. MaxFailures
    BY <1>1, BrokerAssumption DEF IInv, TypeOK
<1>3. queue[1].about \in SUBSET Ask
    BY <1>1, FirstWrite DEF Write
<1>4. CASE queue[1].for = "raise"
  <2>1. spoilt' = spoilt \cup queue[1].about
      BY <1>1, <1>4 DEF Spoils
  <2> QED
      BY <1>1, <1>2, <1>4, <2>1, RollbackHolds DEF Fails
<1>5. CASE queue[1].for # "raise"
  <2>1. queue' = RemoveAt(queue, 1) /\ UNCHANGED <<rec, entries, waiting, armed, outcome>>
      BY <1>1, <1>5 DEF Fails
  <2>2. /\ spoilt \subseteq spoilt' /\ spoilt' \subseteq Ask
        /\ queue[1].for = "settle" => queue[1].about \subseteq spoilt'
      BY <1>1, <1>3 DEF Spoils, IInv, TypeOK
  <2> QED
      BY <1>1, <1>2, <2>1, <2>2, QuietHolds
<1> QED
    BY <1>4, <1>5

\* The file's map, with asks of a deadline expired in it.
LEMMA ExpiredMap ==
    ASSUME IInv, NEW late \in SUBSET Ask
    PROVE  /\ Expired(late) \in [Ask -> Record]
           /\ \A a \in Ask \ late : Expired(late)[a] = disk[a]
           /\ \A a \in late : Settled(Expired(late)[a])
<1>1. disk \in [Ask -> Record]
    BY DEF IInv, TypeOK
<1>2. \A a \in Ask : /\ [disk[a] EXCEPT !.status = "expired"] \in Record
                      /\ [disk[a] EXCEPT !.status = "expired"].status = "expired"
    BY <1>1, Restated DEF Verdict
<1>3. Expired(late) \in [Ask -> Record]
    BY <1>1, <1>2 DEF Expired
<1>4. \A a \in Ask \ late : Expired(late)[a] = disk[a]
    BY DEF Expired
<1>5. \A a \in late : Settled(Expired(late)[a])
    BY <1>2 DEF Expired, Settled, Verdict
<1> QED
    BY <1>3, <1>4, <1>5

LEMMA RestartHolds ==
    ASSUME IInv, Restart
    PROVE  IInv'
<1>a. PICK late \in SUBSET Deadlines : \E order \in SetToSeqs(late) :
          /\ rec' = Expired(late)
          /\ queue' = [i \in 1 .. Cardinality(late) |->
                         [for |-> "settle", about |-> {order[i]}, by |-> {}, wide |-> FALSE,
                          map |-> Expired({order[j] : j \in 1 .. i})]]
          /\ Rearm(late)
    BY DEF Restart
<1>1. PICK order \in SetToSeqs(late) :
          /\ rec' = Expired(late)
          /\ queue' = [i \in 1 .. Cardinality(late) |->
                         [for |-> "settle", about |-> {order[i]}, by |-> {}, wide |-> FALSE,
                          map |-> Expired({order[j] : j \in 1 .. i})]]
          /\ Rearm(late)
    BY <1>a
<1>2. /\ crashes < MaxCrashes /\ crashes' = crashes + 1
      /\ waiting' = [a \in Ask |-> {}]
      /\ outcome' = [c \in Caller |-> IF outcome[c] = "waiting" THEN "lost" ELSE outcome[c]]
      /\ spoilt' = spoilt \cup UNION {queue[i].about : i \in {j \in DOMAIN queue : queue[j].for = "sweep"}}
      /\ UNCHANGED <<disk, asks, failures>>
    BY DEF Restart
<1>3. late \in SUBSET Ask /\ \A a \in late : Open(disk[a]) /\ disk[a].timed
    BY DEF Deadlines
<1>4. Cardinality(late) \in Nat /\ order \in [1 .. Cardinality(late) -> late]
  <2>1. IsFiniteSet(late)
      BY <1>3, BrokerAssumption, FS_Subset
  <2> QED
      BY <2>1, FS_CardinalityType DEF SetToSeqs
<1> DEFINE n == Cardinality(late)
           soFar(i) == {order[j] : j \in 1 .. i}
           w(i) == [for |-> "settle", about |-> {order[i]}, by |-> {}, wide |-> FALSE,
                    map |-> Expired(soFar(i))]
<1>5. ASSUME NEW i \in 1 .. n
      PROVE  /\ order[i] \in late /\ soFar(i) \in SUBSET late /\ order[i] \in soFar(i)
             /\ w(i) \in Write
  <2>1. order[i] \in late /\ soFar(i) \in SUBSET late /\ order[i] \in soFar(i)
      BY <1>4
  <2>2. Expired(soFar(i)) \in [Ask -> Record]
      BY <2>1, <1>3, ExpiredMap
  <2> HIDE DEF soFar
  <2>3. w(i) \in Write
      BY <2>1, <2>2, <1>3 DEF Write, Purpose
  <2> QED
      BY <2>1, <2>3
<1>6. queue' \in Seq(Write)
  <2>1. queue' = [i \in 1 .. n |-> w(i)]
      BY <1>1
  <2> HIDE DEF w, n
  <2>2. queue' \in [1 .. n -> Write]
      BY <1>5, <2>1
  <2> QED
      BY <2>2, <1>4, SeqDef DEF n
<1>7. /\ rec' \in [Ask -> Record]
      /\ \A a \in Ask \ late : rec'[a] = disk[a]
      /\ \A a \in late : Settled(rec'[a])
    BY <1>1, <1>3, ExpiredMap
<1>8. ASSUME NEW v \in Elems(queue')
      PROVE  /\ v.for = "settle"
             /\ \E S \in SUBSET late : v.about # {} /\ v.about \subseteq S /\ v.map = Expired(S)
  <2>1. DOMAIN queue' = 1 .. n
      BY <1>1
  <2>2. PICK i \in 1 .. n : v = w(i)
      BY <1>1, <2>1 DEF Elems
  <2>3. v.for = "settle" /\ v.about = {order[i]} /\ v.map = Expired(soFar(i))
      BY <2>2
  <2> HIDE DEF soFar
  <2> QED
      BY <2>3, <1>5
<1> HIDE DEF n, soFar, w
<1>9. TypeOK'
  <2>1. crashes' \in 0 .. MaxCrashes
      BY <1>2, BrokerAssumption DEF IInv, TypeOK
  <2>2. spoilt' \subseteq Ask
    <3>1. \A i \in DOMAIN queue : queue[i].about \subseteq Ask
      <4>1. \A i \in DOMAIN queue : queue[i] \in Write
          BY DEF IInv, TypeOK
      <4> QED
          BY <4>1 DEF Write
    <3> QED
        BY <1>2, <3>1 DEF IInv, TypeOK
  <2>3. entries' \subseteq Ask /\ armed' \subseteq entries'
      BY <1>1 DEF Rearm, Deadlines
  <2>4. outcome' \in [Caller -> {"none", "waiting", "refused", "lost"} \cup Verdict]
      BY <1>2 DEF IInv, TypeOK
  <2>5. waiting' \in [Ask -> SUBSET Caller] /\ \A a \in Ask : waiting'[a] = {}
      BY <1>2
  <2> QED
      BY <1>2, <1>6, <1>7, <2>1, <2>2, <2>3, <2>4, <2>5 DEF IInv, TypeOK
<1>10. ASSUME NEW S \in SUBSET late
       PROVE  MapOK(Expired(S)) /\ \A a \in S : Settled(Expired(S)[a])
  <2>1. /\ \A a \in Ask \ S : Expired(S)[a] = disk[a]
        /\ \A a \in S : Settled(Expired(S)[a])
      BY <1>3, ExpiredMap
  <2>2. \A a \in S : ~ Open(Expired(S)[a]) /\ disk[a].status # "none"
      BY <1>3, <2>1, Statuses
  <2> QED
      BY <2>1, <2>2 DEF IInv, MapOK, UniqueDeadlines, Known
<1>11. MapOK(disk)' /\ Known(rec)'
  <2>1. MapOK(Expired(late))
      BY <1>10
  <2> QED
      BY <2>1, <1>1, <1>2 DEF IInv, MapOK, UniqueDeadlines, Known
<1>12. DeadlinesHeard' /\ OnePrompt'
  <2>1. \A a \in Ask : Open(rec'[a]) => a \notin late /\ rec'[a] = disk[a]
      BY <1>7, Statuses
  <2>2. entries' = Deadlines \ late
      BY <1>1 DEF Rearm
  <2> QED
      BY <2>1, <2>2 DEF IInv, DeadlinesHeard, OnePrompt, MapOK, UniqueDeadlines, Deadlines
<1>13. QueueOK'
  <2> SUFFICES ASSUME NEW v \in Elems(queue') PROVE MapOK(v.map)' /\ Settles(v)'
      BY DEF QueueOK
  <2>1. PICK S \in SUBSET late : v.about # {} /\ v.about \subseteq S /\ v.map = Expired(S)
      BY <1>8
  <2>2. MapOK(v.map) /\ \A a \in S : Settled(v.map[a])
      BY <2>1, <1>10
  <2>3. \A a \in S : ~ Open(rec'[a])
      BY <1>7, Statuses
  <2> QED
      BY <2>1, <2>2, <2>3, <1>2 DEF MapOK, UniqueDeadlines, Known, Settles
<1>14. Remembered'
    BY <1>2 DEF IInv, Remembered
<1> QED
    BY <1>9, <1>11, <1>12, <1>13, <1>14 DEF IInv

-----------------------------------------------------------------------------
(* The specification. *)

LEMMA NextHolds == IInv /\ [Next]_vars => IInv'
<1> SUFFICES ASSUME IInv, [Next]_vars PROVE IInv'
    OBVIOUS
<1>1. ASSUME NEW c \in Caller, NEW a \in Ask, NEW k \in Keys, Attach(c, a, k) PROVE IInv'
    BY <1>1, AttachHolds
<1>2. ASSUME NEW c \in Caller, NEW a \in Ask, NEW timed \in BOOLEAN, Raise(c, a, timed) PROVE IInv'
    BY <1>2, RaiseHolds
<1>3. ASSUME NEW a \in Ask, Claim(a) PROVE IInv'
    BY <1>3, ClaimHolds
<1>4. ASSUME NEW a \in Ask, Update(a) PROVE IInv'
    BY <1>4, UpdateHolds
<1>5. ASSUME NEW a \in Ask, Answer(a) PROVE IInv'
  <2>1. PICK verdict \in Answers, wide \in BOOLEAN : Settle(a, verdict, wide)
      BY <1>5 DEF Answer
  <2>2. verdict \in Verdict /\ armed' \subseteq armed
      BY <1>5, BrokerAssumption DEF Verdict, Answer
  <2> QED
      BY <2>1, <2>2, SettleHolds
<1>6. ASSUME NEW a \in Ask, Cancel(a) PROVE IInv'
  <2>1. Settle(a, "cancelled", FALSE) /\ "cancelled" \in Verdict /\ armed' \subseteq armed
      BY <1>6 DEF Cancel, Verdict
  <2> QED
      BY <2>1, SettleHolds
<1>7. ASSUME NEW a \in Ask, TimerFires(a) PROVE IInv'
  <2>1. armed' \subseteq armed
      BY <1>7 DEF TimerFires
  <2>2. CASE Settle(a, "expired", FALSE)
    <3>1. "expired" \in Verdict
        BY DEF Verdict
    <3> QED
        BY <2>1, <2>2, <3>1, SettleHolds
  <2>3. CASE UNCHANGED <<rec, entries, waiting, queue, disk, client, faults>>
      BY <2>1, <2>3, IdleHolds DEF client, faults
  <2> QED
      BY <1>7, <2>2, <2>3 DEF TimerFires
<1>8. ASSUME NEW i \in DOMAIN queue, Lands(i) PROVE IInv'
    BY <1>8, LandsHolds
<1>9. ASSUME NEW i \in DOMAIN queue, Fails(i) PROVE IInv'
    BY <1>9, FailsHolds
<1>10. ASSUME Restart PROVE IInv'
    BY <1>10, RestartHolds
<1>11. CASE UNCHANGED vars
    BY <1>11, IdleHolds DEF vars
<1> QED
    BY <1>1, <1>2, <1>3, <1>4, <1>5, <1>6, <1>7, <1>8, <1>9, <1>10, <1>11 DEF Next

LEMMA Invariance == Spec => []IInv
BY InitHolds, NextHolds, PTL DEF Spec

LEMMA Told == IInv => NobodyForgotten
<1> SUFFICES ASSUME IInv, NEW c \in Caller, outcome[c] = "waiting", asks[c] \notin spoilt
             PROVE  /\ asks[c] \in entries /\ c \in waiting[asks[c]]
                    /\ \/ Open(rec[asks[c]])
                       \/ \E i \in DOMAIN queue : queue[i].for = "settle" /\ asks[c] \in queue[i].about
    BY DEF NobodyForgotten
<1> QED
    BY OnItsWay DEF IInv, Remembered

-----------------------------------------------------------------------------
(* What stands. *)

\* A verdict on an ask, once in the file d, in a write of the queue q or in
\* memory m, is in everything younger.
Stands(d, q, m, a) ==
    /\ Settled(d[a]) => m[a] = d[a] /\ \A i \in DOMAIN q : q[i].map[a] = d[a]
    /\ \A i \in DOMAIN q : Settled(q[i].map[a]) =>
          /\ m[a] = q[i].map[a]
          /\ \A j \in DOMAIN q : i < j => q[j].map[a] = q[i].map[a]

History == \A a \in Ask \ spoilt : Stands(disk, queue, rec, a)

\* A surface or a timer decides one ask at a time.
OneEach == \A w \in Elems(queue) : w.for = "settle" => \E a \in Ask : w.about = {a}

\* Who waits for an ask, or was told of a verdict, has asked for it.
Attached ==
    /\ \A a \in Ask : \A c \in waiting[a] : asks[c] = a
    /\ \A c \in Caller : outcome[c] \in Verdict => asks[c] \in Ask

\* HeardIsKept: the write on its way is the one of a sweep.
Promised ==
    \A c \in Caller : outcome[c] \in Verdict /\ asks[c] \notin spoilt =>
        \/ disk[asks[c]].status = outcome[c]
        \/ \E w \in Elems(queue) : /\ w.for = "sweep" /\ asks[c] \in w.about
                                   /\ w.map[asks[c]].status = outcome[c]

SInv == IInv /\ History /\ OneEach /\ Attached /\ Promised

\* What VerdictStands says of a step.
VerdictKept ==
    \A a \in Ask \ spoilt' :
        /\ Settled(rec[a]) => rec'[a] = rec[a] \/ crashes' # crashes
        /\ Settled(disk[a]) => disk'[a] = disk[a]

\* A write of memory joins the queue, and memory keeps what was settled.
LEMMA StandsJoins ==
    ASSUME NEW d, NEW S, NEW q \in Seq(S), NEW w \in S, NEW m, NEW a,
           Stands(d, q, m, a), Settled(m[a]) => w.map[a] = m[a]
    PROVE  Stands(d, Append(q, w), w.map, a)
<1> DEFINE r == Append(q, w)
           n == Len(q)
<1>1. /\ n \in Nat /\ DOMAIN q = 1 .. n /\ DOMAIN r = 1 .. (n + 1)
      /\ \A i \in 1 .. n : r[i] = q[i]
      /\ r[n + 1] = w
    OBVIOUS
<1> HIDE DEF r, n
<1>2. ASSUME Settled(d[a])
      PROVE  w.map[a] = d[a] /\ \A i \in DOMAIN r : r[i].map[a] = d[a]
  <2>1. m[a] = d[a] /\ \A i \in DOMAIN q : q[i].map[a] = d[a]
      BY <1>2 DEF Stands
  <2>2. w.map[a] = d[a]
      BY <1>2, <2>1
  <2> QED
      BY <1>1, <2>1, <2>2
<1>3. ASSUME NEW i \in DOMAIN r, Settled(r[i].map[a])
      PROVE  /\ w.map[a] = r[i].map[a]
             /\ \A j \in DOMAIN r : i < j => r[j].map[a] = r[i].map[a]
  <2>1. CASE i = n + 1
      BY <1>1, <2>1
  <2>2. CASE i # n + 1
    <3>1. i \in DOMAIN q /\ r[i] = q[i]
        BY <1>1, <2>2
    <3>2. m[a] = q[i].map[a] /\ \A j \in DOMAIN q : i < j => q[j].map[a] = q[i].map[a]
        BY <1>3, <3>1 DEF Stands
    <3>3. w.map[a] = r[i].map[a]
        BY <1>3, <3>1, <3>2
    <3>4. \A j \in DOMAIN r : j \in DOMAIN q \/ j = n + 1
        BY <1>1
    <3> QED
        BY <1>1, <3>1, <3>2, <3>3, <3>4
  <2> QED
      BY <2>1, <2>2
<1>4. Stands(d, r, w.map, a)
    BY <1>2, <1>3 DEF Stands
<1> QED
    BY <1>4 DEF r

\* The first write leaves the queue, whether it becomes the file or fails.
LEMMA StandsLeaves ==
    ASSUME NEW d, NEW S, NEW q \in Seq(S), q # << >>, NEW m, NEW a, Stands(d, q, m, a)
    PROVE  /\ Stands(d, RemoveAt(q, 1), m, a)
           /\ Stands(q[1].map, RemoveAt(q, 1), m, a)
           /\ Settled(d[a]) => q[1].map[a] = d[a]
<1> DEFINE r == RemoveAt(q, 1)
           n == Len(q)
<1>1. /\ n \in Nat \ {0} /\ DOMAIN q = 1 .. n /\ DOMAIN r = 1 .. (n - 1)
      /\ \A i \in 1 .. (n - 1) : r[i] = q[i + 1] /\ i + 1 \in DOMAIN q
    BY LeavesAt
<1> HIDE DEF r, n
<1>2. 1 \in DOMAIN q /\ \A i \in DOMAIN r : i \in Int /\ 1 < i + 1 /\ i + 1 \in DOMAIN q /\ r[i] = q[i + 1]
    BY <1>1
<1>3. \A i \in DOMAIN r : Settled(r[i].map[a]) =>
          /\ m[a] = r[i].map[a]
          /\ \A j \in DOMAIN r : i < j => r[j].map[a] = r[i].map[a]
  <2> SUFFICES ASSUME NEW i \in DOMAIN r, Settled(r[i].map[a])
               PROVE  /\ m[a] = r[i].map[a]
                      /\ \A j \in DOMAIN r : i < j => r[j].map[a] = r[i].map[a]
      OBVIOUS
  <2>1. m[a] = q[i + 1].map[a] /\ \A j \in DOMAIN q : i + 1 < j => q[j].map[a] = q[i + 1].map[a]
      BY <1>2 DEF Stands
  <2>2. \A j \in DOMAIN r : i < j => i + 1 < j + 1
      BY <1>2
  <2> QED
      BY <1>2, <2>1, <2>2
<1>4. Settled(d[a]) => /\ q[1].map[a] = d[a] /\ m[a] = d[a]
                       /\ \A i \in DOMAIN r : r[i].map[a] = d[a]
    BY <1>2 DEF Stands
<1>5. Settled(q[1].map[a]) => /\ m[a] = q[1].map[a]
                              /\ \A i \in DOMAIN r : r[i].map[a] = q[1].map[a]
    BY <1>2 DEF Stands
<1> QED
    BY <1>3, <1>4, <1>5 DEF Stands, r

\* A step that changes neither memory nor the file keeps everything.
LEMMA IdleStands ==
    ASSUME SInv, Attached', UNCHANGED <<rec, queue, disk, spoilt>>,
           \A c \in Caller : outcome'[c] \in Verdict => outcome'[c] = outcome[c] /\ asks'[c] = asks[c]
    PROVE  VerdictKept /\ History' /\ OneEach' /\ Promised'
<1>1. VerdictKept /\ History' /\ OneEach'
    BY DEF SInv, History, OneEach, VerdictKept
<1>2. Promised'
    BY DEF SInv, Promised
<1> QED
    BY <1>1, <1>2

\* A step that changes memory where nothing is settled and asks for a write.
LEMMA RequestStands ==
    ASSUME SInv, Attached', rec' \in [Ask -> Record],
           NEW purpose \in Purpose, NEW about \in SUBSET Ask, NEW by \in SUBSET Caller,
           NEW wide \in BOOLEAN, Request(purpose, about, by, wide),
           \A a \in Ask : Settled(rec[a]) => rec'[a] = rec[a],
           purpose = "settle" => \E a \in Ask : about = {a},
           UNCHANGED <<disk, spoilt>>,
           \A c \in Caller : outcome'[c] \in Verdict => outcome'[c] = outcome[c] /\ asks'[c] = asks[c]
    PROVE  VerdictKept /\ History' /\ OneEach' /\ Promised'
<1> DEFINE new == NewWrite(purpose, about, by, wide)
<1>1. new \in Write /\ new.map = rec' /\ new.for = purpose /\ new.about = about
    BY DEF NewWrite, Write
<1>2. queue \in Seq(Write)
    BY DEF SInv, IInv, TypeOK
<1>3. queue' = Append(queue, new)
    BY DEF Request
<1> HIDE DEF new
<1>4. Elems(queue') = Elems(queue) \cup {new}
    BY <1>1, <1>2, <1>3, Joins
<1>5. History'
  <2> SUFFICES ASSUME NEW a \in Ask \ spoilt PROVE Stands(disk, queue', rec', a)
      BY DEF History
  <2>1. Stands(disk, queue, rec, a) /\ (Settled(rec[a]) => new.map[a] = rec[a])
      BY <1>1 DEF SInv, History
  <2>2. Stands(disk, Append(queue, new), new.map, a)
      BY <1>1, <1>2, <2>1, StandsJoins
  <2> QED
      BY <1>1, <1>3, <2>2
<1>6. OneEach'
    BY <1>1, <1>4 DEF SInv, OneEach
<1>7. Promised'
    BY <1>4 DEF SInv, Promised
<1>8. VerdictKept
    BY DEF VerdictKept
<1> QED
    BY <1>5, <1>6, <1>7, <1>8

Kept == VerdictKept /\ History' /\ OneEach' /\ Attached' /\ Promised'

LEMMA AttachKeeps ==
    ASSUME SInv, NEW c \in Caller, NEW a \in Ask, NEW k, Attach(c, a, k)
    PROVE  Kept
<1>1. /\ asks[c] \notin Ask
      /\ waiting' = [waiting EXCEPT ![a] = @ \cup {c}]
      /\ asks' = [asks EXCEPT ![c] = a]
      /\ outcome' = [outcome EXCEPT ![c] = "waiting"]
      /\ UNCHANGED <<rec, queue, disk, spoilt>>
    BY BrokerAssumption DEF Attach, IsNext, Asked, faults
<1>2. /\ waiting \in [Ask -> SUBSET Caller]
      /\ DOMAIN asks = Caller /\ DOMAIN outcome = Caller
    BY DEF SInv, IInv, TypeOK
<1>3. \A d \in Caller : outcome'[d] \in Verdict => outcome'[d] = outcome[d] /\ asks'[d] = asks[d]
    BY <1>1, <1>2 DEF Verdict
<1>4. Attached'
  <2>1. ASSUME NEW b \in Ask, NEW d \in waiting'[b] PROVE asks'[d] = b
    <3>1. d \in waiting[b] \/ (b = a /\ d = c)
        BY <1>1, <1>2
    <3>2. d \in Caller
        BY <1>2, <3>1
    <3>3. CASE d \in waiting[b]
      <4>1. asks[d] = b
          BY <3>3 DEF SInv, Attached
      <4> QED
          BY <4>1, <3>2, <1>1, <1>2
    <3> QED
        BY <3>1, <3>2, <3>3, <1>1, <1>2
  <2>2. \A d \in Caller : outcome'[d] \in Verdict => asks'[d] \in Ask
      BY <1>3 DEF SInv, Attached
  <2> QED
      BY <2>1, <2>2 DEF Attached
<1> QED
    BY <1>1, <1>3, <1>4, IdleStands DEF Kept

\* The record of a new ask was never settled: its id is new.
LEMMA RaiseKeeps ==
    ASSUME SInv, NEW c \in Caller, NEW a \in Ask, NEW timed \in BOOLEAN, Raise(c, a, timed)
    PROVE  Kept
<1>1. /\ asks[c] \notin Ask /\ \A d \in Caller : asks[d] # a
      /\ rec' = [rec EXCEPT ![a] = [status |-> "pending", timed |-> timed]]
      /\ waiting' = [waiting EXCEPT ![a] = {c}]
      /\ Request("raise", {a}, {c}, FALSE)
      /\ asks' = [asks EXCEPT ![c] = a]
      /\ outcome' = [outcome EXCEPT ![c] = "waiting"]
      /\ UNCHANGED <<disk, spoilt>>
    BY BrokerAssumption DEF Raise, IsNext, Asked, IsFresh, Used, faults
<1>2. /\ waiting \in [Ask -> SUBSET Caller] /\ rec \in [Ask -> Record]
      /\ DOMAIN asks = Caller /\ DOMAIN outcome = Caller
    BY DEF SInv, IInv, TypeOK
<1>3. \A d \in Caller : outcome'[d] \in Verdict => outcome'[d] = outcome[d] /\ asks'[d] = asks[d]
    BY <1>1, <1>2 DEF Verdict
<1>4. rec' \in [Ask -> Record]
    BY <1>1, <1>2 DEF Record, OpenStatus
<1>5. \A b \in Ask : Settled(rec[b]) => rec'[b] = rec[b]
  <2>1. ~ Settled(rec[a])
      BY <1>1, Statuses DEF SInv, IInv, Known
  <2> QED
      BY <2>1, <1>1, <1>2
<1>6. Attached'
  <2>1. ASSUME NEW b \in Ask, NEW d \in waiting'[b] PROVE asks'[d] = b
    <3>1. CASE b = a
        BY <3>1, <1>1, <1>2
    <3>2. CASE b # a
      <4>1. d \in waiting[b] /\ d \in Caller
          BY <3>2, <1>1, <1>2
      <4>2. asks[d] = b
          BY <4>1 DEF SInv, Attached
      <4> QED
          BY <4>1, <4>2, <1>1, <1>2
    <3> QED
        BY <3>1, <3>2
  <2>2. \A d \in Caller : outcome'[d] \in Verdict => asks'[d] \in Ask
      BY <1>3 DEF SInv, Attached
  <2> QED
      BY <2>1, <2>2 DEF Attached
<1>7. "raise" \in Purpose /\ {a} \in SUBSET Ask /\ {c} \in SUBSET Caller /\ FALSE \in BOOLEAN
    BY DEF Purpose
<1>8. VerdictKept /\ History' /\ OneEach' /\ Promised'
  <2> DEFINE about == {a}  by == {c}  purpose == "raise"
  <2>1. /\ Request(purpose, about, by, FALSE) /\ purpose \in Purpose
        /\ about \in SUBSET Ask /\ by \in SUBSET Caller /\ purpose # "settle"
      BY <1>1, <1>7
  <2> HIDE DEF about, by, purpose
  <2> QED
      BY <2>1, <1>1, <1>3, <1>4, <1>5, <1>6, RequestStands
<1> QED
    BY <1>6, <1>8 DEF Kept

\* A change of one record that is open, or of none: a claim, an update, a verdict.
LEMMA ChangeKeeps ==
    ASSUME SInv, NEW a \in Ask, NEW purpose \in {"note", "settle"}, NEW wide \in BOOLEAN,
           rec' \in [Ask -> Record], Request(purpose, {a}, {}, wide),
           \A b \in Ask : Settled(rec[b]) => rec'[b] = rec[b],
           UNCHANGED <<waiting, disk, asks, outcome, spoilt>>
    PROVE  Kept
<1>1. Attached'
    BY DEF SInv, Attached
<1> DEFINE about == {a}  by == {}
<1>2. purpose \in Purpose /\ about \in SUBSET Ask /\ by \in SUBSET Caller /\ about = {a}
    BY DEF Purpose
<1>3. Request(purpose, about, by, wide)
    OBVIOUS
<1> HIDE DEF about, by
<1>4. VerdictKept /\ History' /\ OneEach' /\ Promised'
    BY <1>1, <1>2, <1>3, RequestStands
<1> QED
    BY <1>1, <1>4 DEF Kept

LEMMA ClaimKeeps ==
    ASSUME SInv, NEW a \in Ask, Claim(a)
    PROVE  Kept
<1>1. /\ Open(rec[a]) /\ rec' = [rec EXCEPT ![a].status = "claimed"]
      /\ Request("note", {a}, {}, FALSE)
      /\ UNCHANGED <<waiting, disk, asks, outcome, spoilt>>
    BY DEF Claim, client, faults
<1>2. rec \in [Ask -> Record]
    BY DEF SInv, IInv, TypeOK
<1>3. [rec[a] EXCEPT !.status = "claimed"] \in Record
    BY <1>2, Restated DEF OpenStatus
<1>4. rec' \in [Ask -> Record] /\ \A b \in Ask : Settled(rec[b]) => rec'[b] = rec[b]
    BY <1>1, <1>2, <1>3, Statuses
<1> QED
    BY <1>1, <1>4, ChangeKeeps

LEMMA UpdateKeeps ==
    ASSUME SInv, NEW a \in Ask, Update(a)
    PROVE  Kept
<1>1. /\ rec' = rec /\ Request("note", {a}, {}, FALSE)
      /\ UNCHANGED <<waiting, disk, asks, outcome, spoilt>>
    BY DEF Update, client, faults
<1>2. rec' \in [Ask -> Record] /\ \A b \in Ask : Settled(rec[b]) => rec'[b] = rec[b]
    BY <1>1 DEF SInv, IInv, TypeOK
<1> QED
    BY <1>1, <1>2, ChangeKeeps

LEMMA SettleKeeps ==
    ASSUME SInv, NEW a \in Ask, NEW verdict \in Verdict, NEW wide \in BOOLEAN,
           Settle(a, verdict, wide)
    PROVE  Kept
<1>1. /\ Open(rec[a]) /\ rec' = [rec EXCEPT ![a].status = verdict]
      /\ Request("settle", {a}, {}, wide)
      /\ UNCHANGED <<waiting, disk, asks, outcome, spoilt>>
    BY DEF Settle, client, faults
<1>2. rec \in [Ask -> Record]
    BY DEF SInv, IInv, TypeOK
<1>3. [rec[a] EXCEPT !.status = verdict] \in Record
    BY <1>2, Restated
<1>4. rec' \in [Ask -> Record] /\ \A b \in Ask : Settled(rec[b]) => rec'[b] = rec[b]
    BY <1>1, <1>2, <1>3, Statuses
<1> QED
    BY <1>1, <1>4, ChangeKeeps

LEMMA IdleKeeps ==
    ASSUME SInv, UNCHANGED <<rec, waiting, queue, disk, asks, outcome, spoilt>>
    PROVE  Kept
<1>1. Attached'
    BY DEF SInv, Attached
<1> QED
    BY <1>1, IdleStands DEF Kept

\* The first write lands: the file takes the place of what it was.
LEMMA FirstLands ==
    ASSUME SInv, queue # << >>
    PROVE  /\ \A a \in Ask \ spoilt : Settled(disk[a]) => queue[1].map[a] = disk[a]
           /\ \A a \in Ask \ spoilt : Stands(queue[1].map, RemoveAt(queue, 1), rec, a)
           /\ \A a \in Ask \ spoilt : Stands(disk, RemoveAt(queue, 1), rec, a)
<1>1. queue \in Seq(Write)
    BY DEF SInv, IInv, TypeOK
<1>2. ASSUME NEW a \in Ask \ spoilt
      PROVE  /\ Stands(disk, RemoveAt(queue, 1), rec, a)
             /\ Stands(queue[1].map, RemoveAt(queue, 1), rec, a)
             /\ Settled(disk[a]) => queue[1].map[a] = disk[a]
  <2>1. Stands(disk, queue, rec, a)
      BY DEF SInv, History
  <2> QED
      BY <1>1, <2>1, StandsLeaves
<1> QED
    BY <1>2

\* What was said of a verdict before a write landed is true after it: it is in
\* the file, or was that write, or is in one behind it.
LEMMA StillPromised ==
    ASSUME SInv, queue # << >>, NEW c \in Caller,
           outcome[c] \in Verdict, asks[c] \notin spoilt,
           Elems(RemoveAt(queue, 1)) \subseteq Elems(queue')
    PROVE  \/ queue[1].map[asks[c]].status = outcome[c]
           \/ \E w \in Elems(queue') : /\ w.for = "sweep" /\ asks[c] \in w.about
                                       /\ w.map[asks[c]].status = outcome[c]
<1>1. asks[c] \in Ask \ spoilt
    BY DEF SInv, Attached
<1>2. Elems(queue) \subseteq Elems(queue') \cup {queue[1]}
    BY FirstWrite DEF SInv
<1>3. CASE disk[asks[c]].status = outcome[c]
  <2>1. Settled(disk[asks[c]])
      BY <1>3 DEF Settled
  <2> QED
      BY <1>1, <1>3, <2>1, FirstLands
<1>4. CASE \E w \in Elems(queue) : /\ w.for = "sweep" /\ asks[c] \in w.about
                                   /\ w.map[asks[c]].status = outcome[c]
    BY <1>2, <1>4
<1> QED
    BY <1>3, <1>4 DEF SInv, Promised

\* A write lands and those who wait for some asks are told a verdict.
LEMMA TellsKeeps ==
    ASSUME SInv, queue # << >>, NEW gone \in SUBSET Ask, NEW verdict \in Verdict,
           ResolvePending(gone, verdict), UNCHANGED asks
    PROVE  /\ Attached'
           /\ \A c \in Caller : outcome'[c] \in Verdict =>
                 \/ outcome'[c] = outcome[c]
                 \/ outcome'[c] = verdict /\ asks[c] \in gone
<1>1. /\ waiting' = [a \in Ask |-> IF a \in gone THEN {} ELSE waiting[a]]
      /\ outcome' = [c \in Caller |-> IF \E a \in gone : c \in waiting[a]
                                     THEN verdict ELSE outcome[c]]
    BY DEF ResolvePending
<1>2. \A c \in Caller : (\E a \in gone : c \in waiting[a]) => asks[c] \in gone
    BY DEF SInv, Attached
<1>3. Attached'
    BY <1>1, <1>2 DEF SInv, Attached
<1> QED
    BY <1>1, <1>2, <1>3

LEMMA LandsKeeps ==
    ASSUME SInv, NEW i \in DOMAIN queue, Lands(i)
    PROVE  Kept
<1> DEFINE w == queue[1]
           rest == RemoveAt(queue, 1)
<1>1. i = 1 /\ queue # << >>
    BY DEF Lands, InTurn
<1>2. /\ rest \in Seq(Write) /\ w \in Write /\ w \in Elems(queue) /\ Settles(w)
      /\ Elems(rest) \subseteq Elems(queue)
    BY <1>1, FirstWrite DEF SInv
<1>3. disk' = w.map /\ UNCHANGED <<asks, failures, crashes, spoilt>>
    BY <1>1 DEF Lands, faults
<1>4. /\ \A a \in Ask \ spoilt : Settled(disk[a]) => disk'[a] = disk[a]
      /\ \A a \in Ask \ spoilt : Stands(disk', rest, rec, a)
    BY <1>1, <1>3, FirstLands
<1>5. w.for = "settle" => /\ VerdictOf(w) \in Verdict
                          /\ \A a \in w.about : disk'[a].status = VerdictOf(w)
  <2> SUFFICES ASSUME w.for = "settle"
               PROVE  VerdictOf(w) \in Verdict /\ \A a \in w.about : disk'[a].status = VerdictOf(w)
      OBVIOUS
  <2>1. PICK a \in Ask : w.about = {a}
      BY <1>2 DEF SInv, OneEach
  <2>2. VerdictOf(w) = w.map[a].status /\ Settled(w.map[a])
      BY <1>2, <2>1 DEF VerdictOf, Settles
  <2> QED
      BY <2>1, <2>2, <1>3 DEF Settled
<1> HIDE DEF rest, w
<1>6. CASE w.for = "settle" /\ w.wide
  <2> DEFINE new == NewWrite("sweep", Swept(w), {}, FALSE)
             gone == w.about \cup Swept(w)
  <2>1. /\ rec' = [a \in Ask |-> IF a \in Swept(w)
                                THEN [rec[a] EXCEPT !.status = VerdictOf(w)] ELSE rec[a]]
        /\ queue' = Append(rest, new)
        /\ ResolvePending(gone, VerdictOf(w))
      BY <1>1, <1>6 DEF Lands, rest, w
  <2>2. Swept(w) \in SUBSET Ask /\ w.about \in SUBSET Ask /\ \A a \in Swept(w) : Open(rec[a])
      BY <1>2 DEF Swept, Write
  <2>3. \A a \in Ask : /\ rec[a] \in Record
                        /\ [rec[a] EXCEPT !.status = VerdictOf(w)] \in Record
                        /\ [rec[a] EXCEPT !.status = VerdictOf(w)].status = VerdictOf(w)
    <3>1. VerdictOf(w) \in Verdict /\ \A a \in Ask : rec[a] \in Record
        BY <1>5, <1>6 DEF SInv, IInv, TypeOK
    <3> QED
        BY <3>1, Restated
  <2>4. /\ rec' \in [Ask -> Record]
        /\ \A a \in Ask : Settled(rec[a]) => rec'[a] = rec[a]
        /\ \A a \in Swept(w) : rec'[a].status = VerdictOf(w)
      BY <2>1, <2>2, <2>3, Statuses
  <2>5. new \in Write /\ new.for = "sweep" /\ new.about = Swept(w) /\ new.map = rec'
      BY <2>2, <2>4 DEF NewWrite, Write, Purpose
  <2>6. gone \in SUBSET Ask
      BY <2>2
  <2>7. \A a \in gone : a \in w.about \/ a \in Swept(w)
      OBVIOUS
  <2> HIDE DEF new, gone
  <2>8. queue' \in Seq(Write) /\ Elems(queue') = Elems(rest) \cup {new}
      BY <1>2, <2>1, <2>5, Joins
  <2>9. History'
    <3> SUFFICES ASSUME NEW a \in Ask \ spoilt PROVE Stands(disk', queue', rec', a)
        BY <1>3 DEF History
    <3>1. Stands(disk', rest, rec, a) /\ (Settled(rec[a]) => new.map[a] = rec[a])
        BY <1>4, <2>4, <2>5
    <3>2. Stands(disk', Append(rest, new), new.map, a)
        BY <1>2, <2>5, <3>1, StandsJoins
    <3> QED
        BY <3>2, <2>1, <2>5
  <2>10. OneEach'
      BY <1>2, <2>5, <2>8 DEF SInv, OneEach
  <2>11. /\ Attached'
         /\ \A c \in Caller : outcome'[c] \in Verdict =>
               outcome'[c] = outcome[c] \/ (outcome'[c] = VerdictOf(w) /\ asks[c] \in gone)
      BY <1>1, <1>3, <1>5, <1>6, <2>1, <2>6, TellsKeeps
  <2>12. Promised'
    <3> SUFFICES ASSUME NEW c \in Caller, outcome'[c] \in Verdict, asks[c] \notin spoilt
                 PROVE  \/ disk'[asks[c]].status = outcome'[c]
                        \/ \E v \in Elems(queue') : /\ v.for = "sweep" /\ asks[c] \in v.about
                                                    /\ v.map[asks[c]].status = outcome'[c]
        BY <1>3 DEF Promised
    <3>1. CASE outcome'[c] = outcome[c]
        BY <3>1, <1>1, <1>3, <2>8, StillPromised DEF rest, w
    <3>2. CASE outcome'[c] = VerdictOf(w) /\ asks[c] \in w.about
        BY <3>2, <1>5, <1>6
    <3>3. CASE outcome'[c] = VerdictOf(w) /\ asks[c] \in Swept(w)
        BY <3>3, <2>4, <2>5, <2>8
    <3> QED
        BY <3>1, <3>2, <3>3, <2>7, <2>11
  <2> QED
      BY <1>3, <1>4, <2>4, <2>9, <2>10, <2>11, <2>12 DEF Kept, VerdictKept
<1>7. CASE ~ (w.for = "settle" /\ w.wide)
  <2>1. queue' = rest /\ rec' = rec
      BY <1>1, <1>7 DEF Lands, rest, w
  <2>2. /\ Attached'
        /\ \A c \in Caller : outcome'[c] \in Verdict =>
              \/ outcome'[c] = outcome[c]
              \/ outcome'[c] = VerdictOf(w) /\ asks[c] \in w.about /\ w.for = "settle"
    <3>1. CASE w.for = "settle"
      <4>1. ResolvePending(w.about, VerdictOf(w)) /\ w.about \in SUBSET Ask
          BY <1>1, <1>2, <1>7, <3>1 DEF Lands, w, Write
      <4> QED
          BY <1>1, <1>3, <1>5, <3>1, <4>1, TellsKeeps
    <3>2. CASE w.for # "settle"
      <4>1. UNCHANGED <<waiting, outcome>>
          BY <1>1, <3>2 DEF Lands, w
      <4> QED
          BY <4>1, <1>3 DEF SInv, Attached
    <3> QED
        BY <3>1, <3>2
  <2>3. Promised'
    <3> SUFFICES ASSUME NEW c \in Caller, outcome'[c] \in Verdict, asks[c] \notin spoilt
                 PROVE  \/ disk'[asks[c]].status = outcome'[c]
                        \/ \E v \in Elems(queue') : /\ v.for = "sweep" /\ asks[c] \in v.about
                                                    /\ v.map[asks[c]].status = outcome'[c]
        BY <1>3 DEF Promised
    <3>1. CASE outcome'[c] = outcome[c]
      <4>1. Elems(RemoveAt(queue, 1)) \subseteq Elems(queue')
          BY <2>1 DEF rest
      <4> QED
          BY <3>1, <4>1, <1>1, <1>3, StillPromised DEF w
    <3>2. CASE outcome'[c] = VerdictOf(w) /\ asks[c] \in w.about /\ w.for = "settle"
        BY <3>2, <1>5
    <3> QED
        BY <3>1, <3>2, <2>2
  <2>4. History' /\ OneEach'
      BY <1>2, <1>3, <1>4, <2>1 DEF SInv, History, OneEach
  <2> QED
      BY <1>3, <1>4, <2>1, <2>2, <2>3, <2>4 DEF Kept, VerdictKept
<1> QED
    BY <1>6, <1>7

LEMMA FailsKeeps ==
    ASSUME SInv, NEW i \in DOMAIN queue, Fails(i)
    PROVE  Kept
<1> DEFINE w == queue[1]
           rest == RemoveAt(queue, 1)
<1>1. /\ i = 1 /\ queue # << >>
      /\ spoilt' = spoilt \cup Spoils(w)
      /\ UNCHANGED <<disk, asks, crashes>>
    BY DEF Fails, InTurn
<1>2. /\ rest \in Seq(Write) /\ w \in Write
      /\ Elems(rest) \subseteq Elems(queue) /\ Elems(queue) \subseteq Elems(rest) \cup {w}
    BY <1>1, FirstWrite DEF SInv
<1>3. \A a \in Ask \ spoilt : Stands(disk, rest, rec, a)
    BY <1>1, FirstLands
<1> HIDE DEF rest, w
<1>4. \A c \in Caller : outcome'[c] \in Verdict => outcome'[c] = outcome[c]
  <2>1. CASE w.for = "raise"
    <3>1. outcome' = [c \in Caller |-> IF c \in w.by THEN "refused" ELSE outcome[c]]
        BY <1>1, <2>1 DEF Fails, w
    <3> QED
        BY <3>1 DEF Verdict
  <2>2. CASE w.for # "raise"
      BY <1>1, <2>2 DEF Fails, w
  <2> QED
      BY <2>1, <2>2
<1>5. \A a \in Ask : waiting'[a] \subseteq waiting[a]
  <2>1. CASE w.for = "raise"
      BY <1>1, <2>1 DEF Fails, w
  <2>2. CASE w.for # "raise"
      BY <1>1, <2>2 DEF Fails, w
  <2> QED
      BY <2>1, <2>2
<1>6. Attached'
    BY <1>1, <1>4, <1>5 DEF SInv, Attached
<1>7. ASSUME Elems(rest) \subseteq Elems(queue') PROVE Promised'
  <2> SUFFICES ASSUME NEW c \in Caller, outcome'[c] \in Verdict, asks[c] \notin spoilt'
               PROVE  \/ disk[asks[c]].status = outcome[c]
                      \/ \E v \in Elems(queue') : /\ v.for = "sweep" /\ asks[c] \in v.about
                                                  /\ v.map[asks[c]].status = outcome[c]
      BY <1>1, <1>4 DEF Promised
  <2>1. \/ disk[asks[c]].status = outcome[c]
        \/ \E v \in Elems(queue) : /\ v.for = "sweep" /\ asks[c] \in v.about
                                   /\ v.map[asks[c]].status = outcome[c]
      BY <1>1, <1>4 DEF SInv, Promised
  <2>2. ASSUME w.for = "sweep", asks[c] \in w.about PROVE FALSE
      BY <2>2, <1>1 DEF Spoils
  <2> QED
      BY <2>1, <2>2, <1>2, <1>7
<1>8. CASE w.for = "raise"
  <2> DEFINE new == NewWrite("rollback", w.about, {}, FALSE)
  <2>1. /\ rec' = [a \in Ask |-> IF a \in w.about THEN Absent ELSE rec[a]]
        /\ queue' = Append(rest, new)
      BY <1>1, <1>8 DEF Fails, w, rest
  <2>2. w.about \in SUBSET Ask /\ w.about \subseteq spoilt'
      BY <1>1, <1>2, <1>8 DEF Write, Spoils
  <2>3. rec' \in [Ask -> Record] /\ \A a \in Ask \ spoilt' : rec'[a] = rec[a]
      BY <2>1, <2>2, Statuses DEF SInv, IInv, TypeOK
  <2>4. new \in Write /\ new.for = "rollback" /\ new.map = rec'
      BY <2>2, <2>3 DEF NewWrite, Write, Purpose
  <2> HIDE DEF new
  <2>5. Elems(queue') = Elems(rest) \cup {new}
      BY <1>2, <2>1, <2>4, Joins
  <2>6. History'
    <3> SUFFICES ASSUME NEW a \in Ask \ spoilt' PROVE Stands(disk, queue', rec', a)
        BY <1>1 DEF History
    <3>1. Stands(disk, rest, rec, a) /\ (Settled(rec[a]) => new.map[a] = rec[a])
        BY <1>1, <1>3, <2>3, <2>4
    <3>2. Stands(disk, Append(rest, new), new.map, a)
        BY <1>2, <2>4, <3>1, StandsJoins
    <3> QED
        BY <3>2, <2>1, <2>4
  <2>7. OneEach'
      BY <1>2, <2>4, <2>5 DEF SInv, OneEach
  <2>8. Promised'
      BY <1>7, <2>5
  <2> QED
      BY <1>1, <1>6, <2>3, <2>6, <2>7, <2>8 DEF Kept, VerdictKept
<1>9. CASE w.for # "raise"
  <2>1. queue' = rest /\ rec' = rec
      BY <1>1, <1>9 DEF Fails, w, rest
  <2>2. History' /\ OneEach'
      BY <1>1, <1>2, <1>3, <2>1 DEF SInv, History, OneEach
  <2> QED
      BY <1>1, <1>6, <1>7, <2>1, <2>2 DEF Kept, VerdictKept
<1> QED
    BY <1>8, <1>9

\* A verdict in the file is none of the asks that expire, and a snapshot taken
\* along the way holds what was expired before it.
LEMMA RestartStands ==
    ASSUME NEW m \in [Ask -> Record], m = disk, NEW late \in SUBSET Ask,
           \A a \in late : Open(disk[a]),
           NEW n \in Nat, NEW order, NEW q, DOMAIN q = 1 .. n,
           \A i \in 1 .. n : q[i].map = Expired({order[j] : j \in 1 .. i}),
           \A i \in 1 .. n : order[i] \in late,
           NEW a \in Ask
    PROVE  Stands(disk, q, Expired(late), a)
<1>1. ASSUME NEW S
      PROVE  Expired(S)[a] = IF a \in S THEN [disk[a] EXCEPT !.status = "expired"] ELSE disk[a]
    BY DEF Expired
<1>2. CASE a \notin late
  <2>1. \A i \in 1 .. n : a \notin {order[j] : j \in 1 .. i}
      BY <1>2
  <2>2. Expired(late)[a] = disk[a] /\ \A i \in 1 .. n : q[i].map[a] = disk[a]
      BY <1>1, <1>2, <2>1
  <2> QED
      BY <2>2 DEF Stands
<1>3. CASE a \in late
  <2>1. ~ Settled(disk[a])
      BY <1>3, Statuses
  <2> DEFINE past(i) == a \in {order[j] : j \in 1 .. i}
  <2>2. ASSUME NEW i \in 1 .. n, Settled(q[i].map[a]) PROVE past(i)
    <3>1. ~ past(i) => q[i].map[a] = disk[a]
        BY <1>1
    <3> QED
        BY <2>1, <2>2, <3>1
  <2>3. \A i, j \in 1 .. n : past(i) /\ i < j => past(j)
      OBVIOUS
  <2>4. \A i \in 1 .. n : past(i) => q[i].map[a] = Expired(late)[a]
      BY <1>1, <1>3
  <2> HIDE DEF past
  <2> QED
      BY <2>1, <2>2, <2>3, <2>4 DEF Stands
<1> QED
    BY <1>2, <1>3

LEMMA RestartKeeps ==
    ASSUME SInv, Restart
    PROVE  Kept
<1>a. PICK late \in SUBSET Deadlines : \E order \in SetToSeqs(late) :
          /\ rec' = Expired(late)
          /\ queue' = [i \in 1 .. Cardinality(late) |->
                         [for |-> "settle", about |-> {order[i]}, by |-> {}, wide |-> FALSE,
                          map |-> Expired({order[j] : j \in 1 .. i})]]
    BY DEF Restart
<1>1. PICK order \in SetToSeqs(late) :
          /\ rec' = Expired(late)
          /\ queue' = [i \in 1 .. Cardinality(late) |->
                         [for |-> "settle", about |-> {order[i]}, by |-> {}, wide |-> FALSE,
                          map |-> Expired({order[j] : j \in 1 .. i})]]
    BY <1>a
<1>2. /\ crashes' = crashes + 1
      /\ waiting' = [a \in Ask |-> {}]
      /\ outcome' = [c \in Caller |-> IF outcome[c] = "waiting" THEN "lost" ELSE outcome[c]]
      /\ spoilt' = spoilt \cup UNION {queue[i].about : i \in {j \in DOMAIN queue : queue[j].for = "sweep"}}
      /\ UNCHANGED <<disk, asks>>
    BY DEF Restart
<1>3. late \in SUBSET Ask /\ \A a \in late : Open(disk[a])
    BY DEF Deadlines
<1> DEFINE n == Cardinality(late)
<1>4. n \in Nat /\ order \in [1 .. n -> late]
  <2>1. IsFiniteSet(late)
      BY <1>3, BrokerAssumption, FS_Subset
  <2> QED
      BY <2>1, FS_CardinalityType DEF SetToSeqs
<1>5. /\ DOMAIN queue' = 1 .. n
      /\ \A i \in 1 .. n : /\ queue'[i].for = "settle" /\ queue'[i].about = {order[i]}
                           /\ queue'[i].map = Expired({order[j] : j \in 1 .. i})
                           /\ order[i] \in late
    BY <1>1, <1>4
<1> HIDE DEF n
<1>6. History'
  <2> SUFFICES ASSUME NEW a \in Ask PROVE Stands(disk, queue', rec', a)
      BY <1>2 DEF History
  <2>1. disk \in [Ask -> Record]
      BY DEF SInv, IInv, TypeOK
  <2>2. Stands(disk, queue', Expired(late), a)
      BY <2>1, <1>3, <1>4, <1>5, RestartStands
  <2> QED
      BY <2>2, <1>1
<1>7. OneEach'
    BY <1>3, <1>5 DEF OneEach, Elems
<1>8. \A c \in Caller : outcome'[c] \in Verdict => outcome'[c] = outcome[c]
    BY <1>2 DEF Verdict
<1>9. Attached'
    BY <1>2, <1>8 DEF SInv, Attached
<1>10. Promised'
  <2> SUFFICES ASSUME NEW c \in Caller, outcome[c] \in Verdict, asks[c] \notin spoilt'
               PROVE  disk[asks[c]].status = outcome[c]
      BY <1>2, <1>8 DEF Promised
  <2>1. ~ \E w \in Elems(queue) : w.for = "sweep" /\ asks[c] \in w.about
      BY <1>2 DEF Elems
  <2> QED
      BY <2>1, <1>2 DEF SInv, Promised
<1>11. VerdictKept
  <2>1. crashes \in Nat /\ crashes' # crashes
      BY <1>2, BrokerAssumption DEF SInv, IInv, TypeOK
  <2> QED
      BY <2>1, <1>2 DEF VerdictKept
<1> QED
    BY <1>6, <1>7, <1>9, <1>10, <1>11 DEF Kept

LEMMA NextKeeps ==
    ASSUME SInv, [Next]_vars
    PROVE  Kept
<1>1. ASSUME NEW c \in Caller, NEW a \in Ask, NEW k \in Keys, Attach(c, a, k) PROVE Kept
    BY <1>1, AttachKeeps
<1>2. ASSUME NEW c \in Caller, NEW a \in Ask, NEW timed \in BOOLEAN, Raise(c, a, timed) PROVE Kept
    BY <1>2, RaiseKeeps
<1>3. ASSUME NEW a \in Ask, Claim(a) PROVE Kept
    BY <1>3, ClaimKeeps
<1>4. ASSUME NEW a \in Ask, Update(a) PROVE Kept
    BY <1>4, UpdateKeeps
<1>5. ASSUME NEW a \in Ask, Answer(a) PROVE Kept
  <2>1. PICK verdict \in Answers, wide \in BOOLEAN : Settle(a, verdict, wide)
      BY <1>5 DEF Answer
  <2>2. verdict \in Verdict
      BY BrokerAssumption DEF Verdict
  <2> QED
      BY <2>1, <2>2, SettleKeeps
<1>6. ASSUME NEW a \in Ask, Cancel(a) PROVE Kept
  <2>1. Settle(a, "cancelled", FALSE) /\ "cancelled" \in Verdict
      BY <1>6 DEF Cancel, Verdict
  <2> QED
      BY <2>1, SettleKeeps
<1>7. ASSUME NEW a \in Ask, TimerFires(a) PROVE Kept
  <2>1. CASE Settle(a, "expired", FALSE)
    <3>1. "expired" \in Verdict
        BY DEF Verdict
    <3> QED
        BY <2>1, <3>1, SettleKeeps
  <2>2. CASE UNCHANGED <<rec, entries, waiting, queue, disk, client, faults>>
      BY <2>2, IdleKeeps DEF client, faults
  <2> QED
      BY <1>7, <2>1, <2>2 DEF TimerFires
<1>8. ASSUME NEW i \in DOMAIN queue, Lands(i) PROVE Kept
    BY <1>8, LandsKeeps
<1>9. ASSUME NEW i \in DOMAIN queue, Fails(i) PROVE Kept
    BY <1>9, FailsKeeps
<1>10. ASSUME Restart PROVE Kept
    BY <1>10, RestartKeeps
<1>11. CASE UNCHANGED vars
    BY <1>11, IdleKeeps DEF vars
<1> QED
    BY <1>1, <1>2, <1>3, <1>4, <1>5, <1>6, <1>7, <1>8, <1>9, <1>10, <1>11 DEF Next

LEMMA SInvariance == Spec => []SInv
<1>1. Init => SInv
  <2> SUFFICES ASSUME Init PROVE SInv
      OBVIOUS
  <2>1. IInv
      BY InitHolds
  <2>2. queue = << >> /\ \A a \in Ask : ~ Settled(disk[a])
      BY DEF Init, Absent, Settled, Verdict
  <2>3. History /\ OneEach
      BY <2>2 DEF History, Stands, OneEach, Elems
  <2>4. Attached /\ Promised
      BY DEF Init, Attached, Promised, Verdict
  <2> QED
      BY <2>1, <2>3, <2>4 DEF SInv
<1>2. SInv /\ [Next]_vars => SInv'
  <2> SUFFICES ASSUME SInv, [Next]_vars PROVE SInv'
      OBVIOUS
  <2>1. Kept /\ IInv'
      BY NextKeeps, NextHolds DEF SInv
  <2> QED
      BY <2>1 DEF Kept, SInv
<1> QED
    BY <1>1, <1>2, PTL DEF Spec

\* Every step leaves well-formed records, timers and waiters that belong to an
\* entry, and well-formed writes, whatever fails and whenever the process dies.
THEOREM TypeCorrect == Spec => []TypeOK
<1>1. IInv => TypeOK
    BY DEF IInv
<1> QED
    BY <1>1, Invariance, PTL

\* Identical asks that are open share one entry and with it one prompt, whatever
\* was restored from the file and whatever write has failed.
THEOREM SharesOnePrompt == Spec => []OnePrompt
<1>1. IInv => OnePrompt
    BY DEF IInv
<1> QED
    BY <1>1, Invariance, PTL

\* A caller that waits has an entry and an ask that is open or whose verdict is
\* being written, unless the raise or the verdict could not be saved.
THEOREM ForgetsNobody == Spec => []NobodyForgotten
BY Told, Invariance, PTL

\* What a caller was told of its ask is in the file or in a write on its way
\* there, whoever answered and however often the process has died since, unless
\* the verdict could not be saved.
THEOREM KeepsItsWord == Spec => []HeardIsKept
<1>1. SInv => HeardIsKept
    BY DEF SInv, Promised, HeardIsKept, Elems
<1> QED
    BY <1>1, SInvariance, PTL

\* No timer, surface, sweep or late write changes a verdict or puts an older state
\* of its ask back, in memory or in the file, unless the raise or the verdict could
\* not be saved; a restart takes up the file.
THEOREM VerdictsStand == Spec => VerdictStands
<1>1. SInv /\ [Next]_vars =>
        [\A a \in Ask \ spoilt' :
            /\ Settled(rec[a]) => rec'[a] = rec[a] \/ crashes' # crashes
            /\ Settled(disk[a]) => disk'[a] = disk[a]]_vars
  <2> SUFFICES ASSUME SInv, [Next]_vars
               PROVE  \A a \in Ask \ spoilt' :
                         /\ Settled(rec[a]) => rec'[a] = rec[a] \/ crashes' # crashes
                         /\ Settled(disk[a]) => disk'[a] = disk[a]
      OBVIOUS
  <2> QED
      BY NextKeeps DEF Kept, VerdictKept
<1> QED
    BY <1>1, SInvariance, PTL DEF Spec, VerdictStands
=============================================================================
