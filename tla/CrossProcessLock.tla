-------------------------- MODULE CrossProcessLock --------------------------
(***************************************************************************)
(* The lock file that serializes the processes which share one checkpoint  *)
(* store (acquireCrossProcessLock), and the queue of its callers within a  *)
(* process.                                                                *)
(*                                                                         *)
(* The calls on the file system are the steps: two processes interleave    *)
(* between any two of them, a process may die between any two of them.     *)
(* Callers of one process share its thread, and interleave only where the  *)
(* code awaits.                                                            *)
(***************************************************************************)
EXTENDS Naturals, FiniteSets

CONSTANTS
    Caller, Process,
    Pid,                \* Pid[c]: the process that runs caller c
    Inode,              \* the inode numbers
    None,               \* no file, no caller
    Reuse,              \* a number somebody still remembers is given to a new file
    MayFreeze,          \* a process may stand still for longer than staleMs
    TakerMayDie,        \* a process may die while it takes a lock over
    QueueTimesOut,      \* a queued caller may reach its deadline
    MaxCrashes          \* bound on the crashes

(* How long ago a file was touched: within a third of staleMs, within        *)
(* staleMs, or longer ago.                                                   *)
Age == {"fresh", "due", "stale"}

(* A lock file: its inode, the pid in its payload, its age.                  *)
LockFile == [ino : Inode, pid : Process, age : Age]

ASSUME LockAssumption ==
    /\ Pid \in [Caller -> Process]
    /\ Inode \subseteq Nat
    /\ None \notin Caller \cup Inode \cup LockFile
    /\ Reuse \in BOOLEAN /\ MayFreeze \in BOOLEAN
    /\ TakerMayDie \in BOOLEAN /\ QueueTimesOut \in BOOLEAN
    /\ MaxCrashes \in Nat

VARIABLES
    pc,         \* pc[c]: where caller c is
    fd,         \* fd[c]: the inode of the lock file c has open, or None
    judged,     \* judged[c]: the inode c has looked at and goes on about
    age,        \* age[c]: its mtime was older than staleMs ("stale"), or not
    lock,       \* the file at the path of the lock, or None
    ticket,     \* the caller whose ticket is at the path of the ticket, or None
    ticketAge,  \* the age of that ticket
    up,         \* the processes that run
    tail,       \* tail[p]: the caller whose tail p has in inProcessTails
    ahead,      \* ahead[c]: the callers whose slots c waits for
    crashes     \* crashes so far

queueVars == <<tail, ahead>>
ticketVars == <<ticket, ticketAge>>
vars == <<pc, fd, judged, age, lock, ticket, ticketAge, up, tail, ahead, crashes>>

(* Places between two awaits, where no other caller of the process can run.  *)
Takeover == {"restat", "reread", "restage", "recheck", "rename", "untick"}
Releasing == {"leaving", "unlink"}
Busy == {"again", "link", "refused", "read", "ticket", "reclaim"}
        \cup Takeover \cup Releasing
Waiting == {"queued", "asleep"}

Init ==
    /\ pc = [c \in Caller |-> "idle"]
    /\ fd = [c \in Caller |-> None]
    /\ judged = [c \in Caller |-> None]
    /\ age = [c \in Caller |-> "fresh"]
    /\ lock = None
    /\ ticket = None /\ ticketAge = "fresh"
    /\ up = Process
    /\ tail = [p \in Process |-> None]
    /\ ahead = [c \in Caller |-> {}]
    /\ crashes = 0

-----------------------------------------------------------------------------
(* c goes on: its process runs, and is not in the middle of another caller.  *)
Runs(c) ==
    /\ Pid[c] \in up
    /\ \A d \in Caller \ {c} : Pid[d] = Pid[c] => pc[d] \notin Busy

At(c, here) == pc[c] = here /\ Runs(c)

Goto(c, there) == pc' = [pc EXCEPT ![c] = there]

Forget(c) ==
    /\ judged' = [judged EXCEPT ![c] = None]
    /\ age' = [age EXCEPT ![c] = "fresh"]

(* Inode i is the file at the path of the lock.                              *)
Named(i) == lock # None /\ lock.ino = i

(* An inode number that is free: no name and no descriptor refers to it, and *)
(* unless numbers are reused at once, nobody remembers it.                   *)
Free(i) ==
    /\ ~Named(i)
    /\ \A c \in Caller : fd[c] # i /\ (judged[c] = i => Reuse)

(* The file system gives out the lowest one.                                 *)
Fresh(i) == Free(i) /\ \A j \in Inode : j < i => ~Free(j)

(* Slip: the mtime, which a recycled pid makes necessary, is not looked at.  *)
StaleByPid(c) == lock = None \/ lock.pid \notin up

(* readLockHolder and isPidAlive, with the age the stat saw: no payload, a   *)
(* dead pid or an old mtime.  The path is read again, so the file may by now *)
(* be gone (which counts as no payload) or another one.                      *)
Stale(c) ==
    \/ lock = None
    \/ lock.pid \notin up
    \/ age[c] = "stale"

-----------------------------------------------------------------------------
(* The queue in front of the file.                                           *)

Enter(c) ==
    /\ At(c, "idle")
    /\ LET last == tail[Pid[c]] IN
       ahead' = [ahead EXCEPT ![c] = IF last = None THEN {} ELSE ahead[last] \cup {last}]
    /\ tail' = [tail EXCEPT ![Pid[c]] = c]
    /\ Goto(c, "queued")
    /\ UNCHANGED <<fd, judged, age, lock, ticketVars, up, crashes>>

TurnCame(c) ==
    /\ At(c, "queued") /\ ahead[c] = {}
    /\ Goto(c, "asleep")
    /\ UNCHANGED <<fd, judged, age, lock, ticketVars, up, queueVars, crashes>>

(* Slip: the entry of the map is dropped and the slot is not resolved.       *)
LeaveQueueByMap(c) ==
    /\ tail' = [tail EXCEPT ![Pid[c]] = IF @ = c THEN None ELSE @]
    /\ UNCHANGED ahead

(* releaseSlot and dropTailIfOurs: c no longer counts for those behind it,   *)
(* and leaves the map if its tail is the last one.                           *)
LeaveQueue(c) ==
    /\ ahead' = [d \in Caller |-> IF d = c THEN {} ELSE ahead[d] \ {c}]
    /\ tail' = [tail EXCEPT ![Pid[c]] = IF @ = c THEN None ELSE @]

QueueTimeout(c) ==
    /\ QueueTimesOut
    /\ At(c, "queued")
    /\ LeaveQueue(c)
    /\ Goto(c, "idle")
    /\ UNCHANGED <<fd, judged, age, lock, ticketVars, up, crashes>>

-----------------------------------------------------------------------------
(* createLockAtomically: a staging file that holds the payload, linked to    *)
(* the path unless there is a file already.                                  *)

Open(c, i) == Fresh(i) /\ fd' = [fd EXCEPT ![c] = i]

(* Slip: the payload has the token of the caller where its pid belongs.      *)
OwnByToken(c) == [ino |-> fd[c], pid |-> c, age |-> "fresh"]

(* The file c has written, and publishes with its payload in it.             *)
Own(c) == [ino |-> fd[c], pid |-> Pid[c], age |-> "fresh"]

Stage(c) ==
    /\ At(c, "asleep") \/ At(c, "again")
    /\ \E i \in Inode : Open(c, i)
    /\ Goto(c, "link")
    /\ UNCHANGED <<judged, age, lock, ticketVars, up, queueVars, crashes>>

Link(c) ==
    /\ At(c, "link")
    /\ IF lock = None
       THEN /\ lock' = Own(c) /\ Goto(c, "held")
            /\ UNCHANGED fd
       ELSE /\ fd' = [fd EXCEPT ![c] = None] /\ Goto(c, "refused")
            /\ UNCHANGED lock
    /\ UNCHANGED <<judged, age, ticketVars, up, queueVars, crashes>>

(* The deadline has passed: the acquisition throws.                          *)
GiveUp(c) ==
    /\ At(c, "refused")
    /\ LeaveQueue(c)
    /\ Goto(c, "idle")
    /\ UNCHANGED <<fd, judged, age, lock, ticketVars, up, crashes>>

-----------------------------------------------------------------------------
(* inspectLock: a stat, which takes the inode and the mtime, then a read.    *)

StatThen(c, gone, next) ==
    IF lock = None
    THEN Goto(c, gone) /\ UNCHANGED <<judged, age>>
    ELSE /\ judged' = [judged EXCEPT ![c] = lock.ino]
         /\ age' = [age EXCEPT ![c] = IF lock.age = "stale" THEN "stale" ELSE "fresh"]
         /\ Goto(c, next)

Inspect(c) ==
    /\ At(c, "refused")
    /\ StatThen(c, "again", "read")
    /\ UNCHANGED <<fd, lock, ticketVars, up, queueVars, crashes>>

Judge(c) ==
    /\ At(c, "read")
    /\ Goto(c, IF Stale(c) THEN "ticket" ELSE "asleep")
    /\ Forget(c)
    /\ UNCHANGED <<fd, lock, ticketVars, up, queueVars, crashes>>

-----------------------------------------------------------------------------
(* tryTakeOverStaleLock.                                                     *)

OpenTicket(c) ==
    /\ At(c, "ticket") /\ ticket = None
    /\ ticket' = c /\ ticketAge' = "fresh"
    /\ Goto(c, "restat")
    /\ UNCHANGED <<fd, judged, age, lock, up, queueVars, crashes>>

(* reclaimAbandonedTicket: a stat, then an unlink if it was old.             *)
TicketTaken(c) ==
    /\ At(c, "ticket") /\ ticket # None
    /\ Goto(c, IF ticketAge = "stale" THEN "reclaim" ELSE "asleep")
    /\ UNCHANGED <<fd, judged, age, lock, ticketVars, up, queueVars, crashes>>

DropTicket == ticket' = None /\ ticketAge' = "fresh"

ReclaimTicket(c) ==
    /\ At(c, "reclaim")
    /\ DropTicket
    /\ Goto(c, "asleep")
    /\ UNCHANGED <<fd, judged, age, lock, up, queueVars, crashes>>

InspectAgain(c) ==
    /\ At(c, "restat")
    /\ StatThen(c, "untick", "reread")
    /\ UNCHANGED <<fd, lock, ticketVars, up, queueVars, crashes>>

(* Slip: the verdict from before the ticket is taken as good.                *)
JudgeOnce(c) ==
    /\ At(c, "reread")
    /\ Goto(c, "restage")
    /\ UNCHANGED <<fd, judged, age, lock, ticketVars, up, queueVars, crashes>>

JudgeAgain(c) ==
    /\ At(c, "reread")
    /\ Goto(c, IF Stale(c) THEN "restage" ELSE "untick")
    /\ UNCHANGED <<fd, judged, age, lock, ticketVars, up, queueVars, crashes>>

StageTakeover(c) ==
    /\ At(c, "restage")
    /\ \E i \in Inode : Open(c, i)
    /\ Goto(c, "recheck")
    /\ UNCHANGED <<judged, age, lock, ticketVars, up, queueVars, crashes>>

(* The inode at the path is compared with the one judged; whether it is      *)
(* still stale is read as well, and not looked at.                           *)
CheckInode(c) ==
    /\ At(c, "recheck")
    /\ IF Named(judged[c])
       THEN Goto(c, "rename") /\ UNCHANGED fd
       ELSE Goto(c, "untick") /\ fd' = [fd EXCEPT ![c] = None]
    /\ UNCHANGED <<judged, age, lock, ticketVars, up, queueVars, crashes>>

Rename(c) ==
    /\ At(c, "rename")
    /\ lock' = Own(c)
    /\ Goto(c, "untick")
    /\ UNCHANGED <<fd, judged, age, ticketVars, up, queueVars, crashes>>

(* The finally: whatever ticket is at the path goes.                         *)
EndTakeover(c) ==
    /\ At(c, "untick")
    /\ DropTicket
    /\ Forget(c)
    /\ Goto(c, IF fd[c] = None THEN "asleep" ELSE "held")
    /\ UNCHANGED <<fd, lock, up, queueVars, crashes>>

-----------------------------------------------------------------------------
(* The holder.                                                               *)

(* The interval touches the mtime through the descriptor.                    *)
Refresh(c) ==
    /\ At(c, "held") /\ Named(fd[c]) /\ lock.age # "fresh"
    /\ lock' = [lock EXCEPT !.age = "fresh"]
    /\ UNCHANGED <<pc, fd, judged, age, ticketVars, up, queueVars, crashes>>

(* The release function: the inode of the descriptor, and the descriptor is  *)
(* closed.                                                                   *)
Close(c) ==
    /\ At(c, "held")
    /\ judged' = [judged EXCEPT ![c] = fd[c]]
    /\ fd' = [fd EXCEPT ![c] = None]
    /\ Goto(c, "leaving")
    /\ UNCHANGED <<age, lock, ticketVars, up, queueVars, crashes>>

Done(c) ==
    /\ LeaveQueue(c)
    /\ Forget(c)
    /\ Goto(c, "idle")

(* If the file at the path is another one it is left alone.                  *)
CheckOwn(c) ==
    /\ At(c, "leaving")
    /\ IF Named(judged[c])
       THEN Goto(c, "unlink") /\ UNCHANGED <<judged, age, queueVars>>
       ELSE Done(c)
    /\ UNCHANGED <<fd, lock, ticketVars, up, crashes>>

Unlink(c) ==
    /\ At(c, "unlink")
    /\ Done(c)
    /\ lock' = None
    /\ UNCHANGED <<fd, ticketVars, up, crashes>>

-----------------------------------------------------------------------------
(* Time, and the death of a process.                                         *)

InUse(i) == \E c \in Caller : fd[c] = i \/ (pc[c] \in Releasing /\ judged[c] = i)

(* A third of staleMs after the last touch the holder's timer is due, and it *)
(* is not late by the other two thirds unless the process stands still.      *)
LockAges ==
    /\ lock # None
    /\ \/ lock.age = "fresh" /\ lock' = [lock EXCEPT !.age = "due"]
       \/ /\ lock.age = "due" /\ (MayFreeze \/ ~InUse(lock.ino))
          /\ lock' = [lock EXCEPT !.age = "stale"]
    /\ UNCHANGED <<pc, fd, judged, age, ticketVars, up, queueVars, crashes>>

TicketAges ==
    /\ ticket # None /\ ticketAge = "fresh"
    /\ MayFreeze \/ pc[ticket] \notin Takeover
    /\ ticketAge' = "stale"
    /\ UNCHANGED <<pc, fd, judged, age, lock, ticket, up, queueVars, crashes>>

(* The callers of p, its queue and its descriptors are gone; its files stay. *)
Crash(p) ==
    /\ p \in up /\ crashes < MaxCrashes
    /\ \A c \in Caller : Pid[c] = p /\ pc[c] \in Takeover => TakerMayDie
    /\ up' = up \ {p}
    /\ crashes' = crashes + 1
    /\ pc' = [c \in Caller |-> IF Pid[c] = p THEN "idle" ELSE pc[c]]
    /\ fd' = [c \in Caller |-> IF Pid[c] = p THEN None ELSE fd[c]]
    /\ judged' = [c \in Caller |-> IF Pid[c] = p THEN None ELSE judged[c]]
    /\ age' = [c \in Caller |-> IF Pid[c] = p THEN "fresh" ELSE age[c]]
    /\ tail' = [tail EXCEPT ![p] = None]
    /\ ahead' = [c \in Caller |-> IF Pid[c] = p THEN {} ELSE ahead[c]]
    /\ UNCHANGED <<lock, ticketVars>>

(* A process runs under the pid again, its own successor or a stranger.      *)
Restart(p) ==
    /\ p \notin up
    /\ up' = up \cup {p}
    /\ UNCHANGED <<pc, fd, judged, age, lock, ticketVars, queueVars, crashes>>

-----------------------------------------------------------------------------
Acquire(c) ==
    \/ TurnCame(c) \/ Stage(c) \/ Link(c)
    \/ Inspect(c) \/ Judge(c) \/ OpenTicket(c) \/ TicketTaken(c) \/ ReclaimTicket(c)
    \/ InspectAgain(c) \/ JudgeAgain(c) \/ StageTakeover(c) \/ CheckInode(c)
    \/ Rename(c) \/ EndTakeover(c)

Release(c) == Close(c) \/ CheckOwn(c) \/ Unlink(c)

Next ==
    \/ \E c \in Caller :
          \/ Enter(c) \/ Acquire(c) \/ Release(c) \/ Refresh(c)
          \/ QueueTimeout(c) \/ GiveUp(c)
    \/ \E p \in Process : Crash(p) \/ Restart(p)
    \/ LockAges
    \/ TicketAges

Spec == Init /\ [][Next]_vars

(* Callers go on, holders come to an end, and the clock runs.  A caller that  *)
(* waits for a promise gets its turn however often its process is busy with  *)
(* another: the event loop of a process passes nobody over for ever.         *)
Fairness ==
    /\ \A c \in Caller : /\ WF_vars(Acquire(c) \/ Release(c))
                         /\ SF_vars(TurnCame(c) \/ Stage(c))
    /\ WF_vars(LockAges \/ TicketAges)

FairSpec == Spec /\ Fairness

-----------------------------------------------------------------------------
(* Properties.                                                               *)

(* Every caller is somewhere in the code, every name refers to a file or to  *)
(* nothing.                                                                  *)
TypeOK ==
    /\ pc \in [Caller -> {"idle", "held"} \cup Waiting \cup Busy]
    /\ fd \in [Caller -> Inode \cup {None}]
    /\ judged \in [Caller -> Inode \cup {None}]
    /\ age \in [Caller -> Age]
    /\ lock \in {None} \cup LockFile
    /\ ticket \in Caller \cup {None} /\ ticketAge \in Age
    /\ up \subseteq Process
    /\ tail \in [Process -> Caller \cup {None}]
    /\ ahead \in [Caller -> SUBSET Caller]
    /\ crashes \in 0..MaxCrashes

(* Only one caller at a time works on the store, whichever holders died and  *)
(* whatever the others were in the middle of.                                *)
OneHolder == \A c, d \in Caller : pc[c] = "held" /\ pc[d] = "held" => c = d

(* The file-level half of acquisition is entered by one caller per process   *)
(* at a time, as long as no caller gives up in the queue (~QueueTimesOut):    *)
(* one that does takes the tail with it, and the next overtakes those before. *)
OneContender ==
    \A c, d \in Caller :
        Pid[c] = Pid[d] /\ pc[c] \notin {"idle", "queued"} /\ pc[d] \notin {"idle", "queued"}
        => c = d

(* A lock file that nobody holds any more is cleared away for a caller that  *)
(* goes on trying.                                                           *)
Orphaned == lock # None /\ ~InUse(lock.ino)

OrphanIsCleared ==
    \A c \in Caller : Orphaned /\ pc[c] = "asleep" ~> ~Orphaned \/ pc[c] = "idle"

(* A queued caller waits only for acquisitions that are still going on, and  *)
(* in every process one of those going on waits for none: each way out of an *)
(* acquisition, a time-out, a throw, a release, gives the slot back.         *)
QueueMoves ==
    /\ \A c \in Caller : \A d \in ahead[c] : pc[d] # "idle" /\ Pid[d] = Pid[c]
    /\ \A p \in Process : tail[p] # None =>
          /\ pc[tail[p]] # "idle"
          /\ \E c \in Caller : Pid[c] = p /\ pc[c] # "idle" /\ ahead[c] = {}

=============================================================================
