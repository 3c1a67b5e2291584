--------------------------- MODULE ApprovalBroker ---------------------------
(***************************************************************************)
(* The approval broker (control-plane/approval-broker.ts, approval-broker- *)
(* raise.ts) and the order of its writes (state/store-write-queue.ts).     *)
(*                                                                         *)
(* A caller asks for permission and waits.  The broker keeps a record of   *)
(* the ask, an entry with everybody who waits for it, and a timer if the   *)
(* ask has a deadline; an identical ask attaches to the entry.  A surface  *)
(* claims, answers or cancels; a timer expires.  Every change is made in   *)
(* memory, then the whole map is written, one write at a time, and only    *)
(* after the write do the callers hear.  An answer that is remembered also *)
(* settles the other asks it covers.  A write may fail, and the process    *)
(* may die between any two steps: the next one loads what was written.     *)
(***************************************************************************)
EXTENDS Naturals, FiniteSets, Sequences, SequencesExt

CONSTANTS
    Ask,          \* ids of records; those of a key are given out in order
    Caller,       \* callers of raiseApproval, by the order they ask in, once each
    NoAsk,        \* of a caller that has not asked
    KeyOf,        \* approvalCoalesceKey of each record
    Covers,       \* the keys the rule built from an answer to a key matches
    Answers,      \* the verdicts a surface gives
    MaxBacklog,   \* bound: no claim or update with so many writes queued
    MaxFailures,  \* bound: writes that fail
    MaxCrashes    \* bound: deaths of the process

Keys == {KeyOf[a] : a \in Ask}

ASSUME BrokerAssumption ==
    /\ IsFiniteSet(Ask) /\ Ask \subseteq Nat /\ Caller \subseteq Nat /\ NoAsk \notin Ask
    /\ Answers \subseteq {"approved", "denied"}
    /\ Covers \in [Keys -> SUBSET Keys]
    /\ MaxBacklog \in Nat /\ MaxFailures \in Nat /\ MaxCrashes \in Nat

VARIABLES
    rec,        \* approvals: the map in memory
    entries,    \* the asks with an entry in pendingResolvers
    waiting,    \* the resolvers of each entry
    armed,      \* the asks whose timer runs
    queue,      \* the writes requested and not yet done, oldest first
    disk,       \* the store file
    asks,       \* the ask each caller is attached to
    outcome,    \* what became of each caller
    failures, crashes,
    spoilt      \* asks whose raise or verdict was not saved: see Spoils

vars == <<rec, entries, waiting, armed, queue, disk, asks, outcome, failures,
          crashes, spoilt>>
client == <<asks, outcome>>
faults == <<failures, crashes, spoilt>>

Verdict == {"approved", "denied", "cancelled", "expired"}
OpenStatus == {"pending", "claimed"}
Record == [status : {"none"} \cup OpenStatus \cup Verdict, timed : BOOLEAN]
Absent == [status |-> "none", timed |-> FALSE]
Open(r) == r.status \in OpenStatus
Settled(r) == r.status \in Verdict

\* A write: what it is for, the asks it is about, who raised them if it is that,
\* whether the answer in it is to be remembered, and the map as it was when the
\* write was requested.
Purpose == {"raise", "note", "settle", "sweep", "rollback"}
Write == [for : Purpose, about : SUBSET Ask, by : SUBSET Caller, wide : BOOLEAN,
          map : [Ask -> Record]]
NewWrite(purpose, about, by, wide) ==
    [for |-> purpose, about |-> about, by |-> by, wide |-> wide, map |-> rec']

Init ==
    /\ rec = [a \in Ask |-> Absent] /\ disk = rec
    /\ entries = {} /\ armed = {}
    /\ waiting = [a \in Ask |-> {}]
    /\ queue = << >>
    /\ asks = [c \in Caller |-> NoAsk]
    /\ outcome = [c \in Caller |-> "none"]
    /\ failures = 0 /\ crashes = 0 /\ spoilt = {}

Request(purpose, about, by, wide) == queue' = Append(queue, NewWrite(purpose, about, by, wide))

(***************************************************************************)
(* What callers, surfaces and timers do.                                   *)
(***************************************************************************)
\* A slip: a claimed ask is not joined.
CoalescesPending(a, k) == rec[a].status = "pending" /\ a \in entries /\ KeyOf[a] = k
Coalesces(a, k) == Open(rec[a]) /\ a \in entries /\ KeyOf[a] = k

Asked(c) == asks[c] # NoAsk
IsNext(c) == ~ Asked(c) /\ \A d \in Caller : d < c => Asked(d)
Used(a) == \E c \in Caller : asks[c] = a
IsFresh(a) == ~ Used(a) /\ \A b \in Ask : b < a /\ KeyOf[b] = KeyOf[a] => Used(b)

\* An identical ask attaches, and its own deadline is not looked at.
Attach(c, a, k) ==
    /\ IsNext(c) /\ Coalesces(a, k)
    /\ waiting' = [waiting EXCEPT ![a] = @ \cup {c}]
    /\ asks' = [asks EXCEPT ![c] = a]
    /\ outcome' = [outcome EXCEPT ![c] = "waiting"]
    /\ UNCHANGED <<rec, entries, armed, queue, disk, faults>>

Raise(c, a, timed) ==
    /\ IsNext(c) /\ IsFresh(a)
    /\ \A b \in Ask : ~ Coalesces(b, KeyOf[a])
    /\ rec' = [rec EXCEPT ![a] = [status |-> "pending", timed |-> timed]]
    /\ entries' = entries \cup {a}
    /\ waiting' = [waiting EXCEPT ![a] = {c}]
    /\ armed' = IF timed THEN armed \cup {a} ELSE armed
    /\ Request("raise", {a}, {c}, FALSE)
    /\ asks' = [asks EXCEPT ![c] = a]
    /\ outcome' = [outcome EXCEPT ![c] = "waiting"]
    /\ UNCHANGED <<disk, faults>>

\* A claim does not exclude another one, nor an answer by somebody else.
Claim(a) ==
    /\ Open(rec[a]) /\ Len(queue) < MaxBacklog
    /\ rec' = [rec EXCEPT ![a].status = "claimed"]
    /\ Request("note", {a}, {}, FALSE)
    /\ UNCHANGED <<entries, waiting, armed, disk, client, faults>>

\* recordRemoteUpdate; stampFixSession does the same to an approved ask.
Update(a) ==
    /\ rec[a].status # "none" /\ Len(queue) < MaxBacklog
    /\ UNCHANGED rec
    /\ Request("note", {a}, {}, FALSE)
    /\ UNCHANGED <<entries, waiting, armed, disk, client, faults>>

Settle(a, verdict, wide) ==
    /\ Open(rec[a])
    /\ rec' = [rec EXCEPT ![a].status = verdict]
    /\ Request("settle", {a}, {}, wide)
    /\ UNCHANGED <<entries, waiting, disk, client, faults>>

Answer(a) ==
    /\ \E verdict \in Answers, wide \in BOOLEAN : Settle(a, verdict, wide)
    /\ UNCHANGED armed

Cancel(a) == Settle(a, "cancelled", FALSE) /\ UNCHANGED armed

\* expireApproval returns when somebody was faster.
TimerFires(a) ==
    /\ a \in armed
    /\ armed' = armed \ {a}
    /\ \/ Settle(a, "expired", FALSE)
       \/ ~ Open(rec[a]) /\ UNCHANGED <<rec, entries, waiting, queue, disk, client, faults>>

(***************************************************************************)
(* The writes.                                                             *)
(***************************************************************************)
\* A slip: writes overtake each other.
AnyTurn(i) == TRUE
InTurn(i) == i = 1

\* A slip: only one of those who wait for an ask is told.
ResolveOne(settled, verdict) ==
    /\ LET told == {CHOOSE c \in waiting[a] : TRUE : a \in {b \in settled : waiting[b] # {}}}
       IN  outcome' = [c \in Caller |-> IF c \in told THEN verdict ELSE outcome[c]]
    /\ entries' = entries \ settled /\ armed' = armed \ settled
    /\ waiting' = [a \in Ask |-> IF a \in settled THEN {} ELSE waiting[a]]
ResolvePending(settled, verdict) ==
    /\ outcome' = [c \in Caller |-> IF \E a \in settled : c \in waiting[a]
                                    THEN verdict ELSE outcome[c]]
    /\ entries' = entries \ settled /\ armed' = armed \ settled
    /\ waiting' = [a \in Ask |-> IF a \in settled THEN {} ELSE waiting[a]]

\* The verdict a settling write carries.
VerdictOf(w) == w.map[CHOOSE a \in w.about : TRUE].status

\* The open asks that the remembered answer in a write covers.
Swept(w) == {b \in Ask \ w.about :
                Open(rec[b]) /\ \E a \in w.about : KeyOf[b] \in Covers[KeyOf[a]]}

\* A write has landed.  The callers of a settled ask hear; a remembered answer
\* then settles what it covers, tells those callers too, and writes again.
Lands(i) ==
    LET w == queue[i]
    IN  /\ InTurn(i)
        /\ disk' = w.map
        /\ \/ /\ w.for = "settle" /\ w.wide
              /\ rec' = [a \in Ask |-> IF a \in Swept(w)
                                      THEN [rec[a] EXCEPT !.status = VerdictOf(w)] ELSE rec[a]]
              /\ queue' = Append(RemoveAt(queue, i), NewWrite("sweep", Swept(w), {}, FALSE))
              /\ ResolvePending(w.about \cup Swept(w), VerdictOf(w))
           \/ /\ w.for = "settle" /\ ~ w.wide
              /\ queue' = RemoveAt(queue, i)
              /\ ResolvePending(w.about, VerdictOf(w))
              /\ UNCHANGED rec
           \/ /\ w.for # "settle"
              /\ queue' = RemoveAt(queue, i)
              /\ UNCHANGED <<rec, entries, waiting, armed, outcome>>
        /\ UNCHANGED <<asks, faults>>

\* The asks a write leaves unsaved when it fails: the record itself, or the
\* verdict of somebody who may never hear of it or has heard already.
Spoils(w) == IF w.for \in {"raise", "settle", "sweep"} THEN w.about ELSE {}

\* A slip: a settling write that fails is taken for one that was done.
FailsUnnoticed(i) ==
    LET w == queue[i]
    IN  /\ InTurn(i) /\ failures < MaxFailures /\ w.for = "settle"
        /\ queue' = RemoveAt(queue, i)
        /\ ResolvePending(w.about, VerdictOf(w))
        /\ failures' = failures + 1
        /\ UNCHANGED <<rec, disk, asks, crashes, spoilt>>
\* A write has failed.  A raise is taken back, record and entry, and its caller
\* is told so; the corrected map is written (in the code first, which nothing
\* here depends on).  Any other call throws, and what it changed stays changed.
Fails(i) ==
    LET w == queue[i]
    IN  /\ InTurn(i) /\ failures < MaxFailures
        /\ failures' = failures + 1
        /\ spoilt' = spoilt \cup Spoils(w)
        /\ \/ /\ w.for = "raise"
              /\ rec' = [a \in Ask |-> IF a \in w.about THEN Absent ELSE rec[a]]
              /\ queue' = Append(RemoveAt(queue, i), NewWrite("rollback", w.about, {}, FALSE))
              /\ entries' = entries \ w.about /\ armed' = armed \ w.about
              /\ outcome' = [c \in Caller |-> IF c \in w.by THEN "refused" ELSE outcome[c]]
              /\ waiting' = [a \in Ask |-> IF a \in w.about THEN {} ELSE waiting[a]]
           \/ /\ w.for # "raise"
              /\ queue' = RemoveAt(queue, i)
              /\ UNCHANGED <<rec, entries, waiting, armed, outcome>>
        /\ UNCHANGED <<disk, asks, crashes>>

(***************************************************************************)
(* The process dies and the next one starts.                               *)
(***************************************************************************)
\* The asks with a deadline that are open in the file.
Deadlines == {a \in Ask : Open(disk[a]) /\ disk[a].timed}

\* A slip: the restored asks get no timers.
RearmNothing(late) == entries' = {} /\ armed' = {}
Rearm(late) == entries' = Deadlines \ late /\ armed' = Deadlines \ late

\* The file's map with some asks expired.
Expired(late) ==
    [a \in Ask |-> IF a \in late THEN [disk[a] EXCEPT !.status = "expired"] ELSE disk[a]]

\* start, rearmRestoredTimers: the asks whose deadline is past (late) expire one
\* after the other.  Their callers are gone, and so is a sweep not written yet.
Restart ==
    /\ crashes < MaxCrashes
    /\ \E late \in SUBSET Deadlines : \E order \in SetToSeqs(late) :
          /\ rec' = Expired(late)
          /\ queue' = [i \in 1 .. Cardinality(late) |->
                         [for |-> "settle", about |-> {order[i]}, by |-> {}, wide |-> FALSE,
                          map |-> Expired({order[j] : j \in 1 .. i})]]
          /\ Rearm(late)
    /\ waiting' = [a \in Ask |-> {}]
    /\ outcome' = [c \in Caller |-> IF outcome[c] = "waiting" THEN "lost" ELSE outcome[c]]
    /\ spoilt' = spoilt \cup UNION {queue[i].about : i \in {j \in DOMAIN queue : queue[j].for = "sweep"}}
    /\ crashes' = crashes + 1
    /\ UNCHANGED <<disk, asks, failures>>

Next ==
    \/ \E c \in Caller, a \in Ask :
          \/ \E k \in Keys : Attach(c, a, k)
          \/ \E timed \in BOOLEAN : Raise(c, a, timed)
    \/ \E a \in Ask : Claim(a) \/ Update(a) \/ Answer(a) \/ Cancel(a) \/ TimerFires(a)
    \/ \E i \in DOMAIN queue : Lands(i) \/ Fails(i)
    \/ Restart

Spec == Init /\ [][Next]_vars

\* A write is done some time, and so is a timer.
Fairness ==
    /\ WF_vars(\E i \in DOMAIN queue : Lands(i))
    /\ \A a \in Ask : WF_vars(TimerFires(a))
FairSpec == Spec /\ Fairness

(***************************************************************************)
(* Properties.                                                             *)
(***************************************************************************)
\* The variables stay in their types, and timers and waiters belong to an entry.
TypeOK ==
    /\ rec \in [Ask -> Record] /\ disk \in [Ask -> Record]
    /\ entries \subseteq Ask /\ armed \subseteq entries /\ spoilt \subseteq Ask
    /\ waiting \in [Ask -> SUBSET Caller]
    /\ \A a \in Ask \ entries : waiting[a] = {}
    /\ queue \in Seq(Write)
    /\ asks \in [Caller -> Ask \cup {NoAsk}]
    /\ outcome \in [Caller -> {"none", "waiting", "refused", "lost"} \cup Verdict]
    /\ failures \in 0 .. MaxFailures /\ crashes \in 0 .. MaxCrashes

\* A verdict stands, in memory and in the file: no timer, surface, sweep or late
\* write changes it or puts an older state back.  Only a raise that could not be
\* saved takes its ask away again, and only a restart falls back to the file.
VerdictStands ==
    [][\A a \in Ask \ spoilt' :
          /\ Settled(rec[a]) => rec'[a] = rec[a] \/ crashes' # crashes
          /\ Settled(disk[a]) => disk'[a] = disk[a]]_vars

\* Nobody who waits is forgotten: a caller that has not been told is attached to
\* an entry, and its ask is open or the write of its verdict is on its way,
\* unless the raise or the verdict could not be saved.
NobodyForgotten ==
    \A c \in Caller : outcome[c] = "waiting" /\ asks[c] \notin spoilt =>
        /\ asks[c] \in entries /\ c \in waiting[asks[c]]
        /\ \/ Open(rec[asks[c]])
           \/ \E i \in DOMAIN queue : queue[i].for = "settle" /\ asks[c] \in queue[i].about

\* What a caller was told is in the file or in a write on its way there, also when
\* the process has died since: no restart decides otherwise.
HeardIsKept ==
    \A c \in Caller : outcome[c] \in Verdict /\ asks[c] \notin spoilt =>
        \/ disk[asks[c]].status = outcome[c]
        \/ \E i \in DOMAIN queue : queue[i].map[asks[c]].status = outcome[c]

\* Identical asks that are open share one entry: one prompt.
OnePrompt ==
    \A a, b \in entries : Open(rec[a]) /\ Open(rec[b]) /\ KeyOf[a] = KeyOf[b] => a = b

\* An ask with a deadline does not stay open for ever, across restarts too, and
\* whoever waits for it is told, unless what was decided could not be saved.
TimedAsksEnd ==
    \A a \in Ask : Open(rec[a]) /\ rec[a].timed
                     ~> ~ Open(rec[a]) /\ (waiting[a] = {} \/ a \in spoilt)
=============================================================================
