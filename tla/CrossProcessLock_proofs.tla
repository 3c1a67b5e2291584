----------------------- MODULE CrossProcessLock_proofs -----------------------
(***************************************************************************)
(* Proofs about CrossProcessLock: well-formed states and a queue that      *)
(* moves without any assumption; one holder at a time if no inode number   *)
(* is given again while somebody remembers it, no process stands still for *)
(* staleMs and none dies in the middle of a takeover.                      *)
(***************************************************************************)
EXTENDS CrossProcessLock, FiniteSetTheorems, TLAPS

(* c owns the file at the path: it holds the lock, is about to, or is about  *)
(* to give it up.                                                            *)
Holding(c) == \/ pc[c] = "held"
              \/ pc[c] = "untick" /\ fd[c] # None
              \/ pc[c] \in Releasing

Mine(c) == IF pc[c] \in Releasing THEN judged[c] ELSE fd[c]

NoHolder == \A c \in Caller : ~Holding(c)

(* c has written a file that it has not published.                           *)
Staging(c) == pc[c] \in {"link", "recheck", "rename"}

(* It has a descriptor of it: what it publishes then has an inode.           *)
WellFormed ==
    /\ TypeOK
    /\ \A c \in Caller : Staging(c) => fd[c] # None

(* Callers live in processes that run.                                       *)
AliveOK == \A c \in Caller : pc[c] # "idle" => Pid[c] \in up

(* Descriptors are open where the code has one, and each is a file of its    *)
(* own.                                                                      *)
DescriptorsOK ==
    /\ \A c \in Caller : fd[c] # None => Staging(c) \/ pc[c] \in {"held", "untick"}
    /\ \A c \in Caller : Holding(c) => Mine(c) # None
    /\ \A c, d \in Caller : fd[c] # None /\ fd[c] = fd[d] => c = d

(* The owner's file is the one at the path, with its pid in it.              *)
OwnerOK ==
    /\ \A c \in Caller : Holding(c) => Named(Mine(c)) /\ lock.pid = Pid[c]
    /\ \A c, d \in Caller : Holding(c) /\ Holding(d) => c = d

(* A file that is not published is neither at the path nor judged by anybody. *)
StagingOK ==
    \A c \in Caller : Staging(c) =>
        /\ ~Named(fd[c])
        /\ \A d \in Caller : fd[c] # judged[d]

(* There is one takeover at a time, and its ticket is never taken for        *)
(* abandoned.                                                                *)
TicketOK ==
    /\ \A c \in Caller : pc[c] \in Takeover => ticket = c
    /\ ticket # None => pc[ticket] \in Takeover /\ ticketAge = "fresh"
    /\ \A c \in Caller : pc[c] # "reclaim"

(* A file judged stale, if it is still at the path, is nobody's; so it stays *)
(* there until it is replaced.                                               *)
VerdictOK ==
    /\ lock # None /\ lock.age = "stale" => NoHolder
    /\ \A c \in Caller :
          /\ pc[c] = "reread" /\ age[c] = "stale" /\ Named(judged[c]) => NoHolder
          /\ pc[c] \in {"restage", "recheck"} /\ Named(judged[c]) => NoHolder
          /\ pc[c] = "rename" => Named(judged[c]) /\ NoHolder

(* What keeps the holder alone, step by step.                                *)
Serialized ==
    /\ WellFormed
    /\ AliveOK
    /\ DescriptorsOK
    /\ OwnerOK
    /\ StagingOK
    /\ TicketOK
    /\ VerdictOK

-----------------------------------------------------------------------------
(* Types.                                                                    *)

LEMMA InitType == Init => WellFormed
  BY LockAssumption DEF Init, WellFormed, Staging, TypeOK, Age, Busy, Waiting

(* A call of a caller leaves a well-formed state.                            *)
LEMMA CallerType ==
    ASSUME WellFormed, NEW c \in Caller,
           Enter(c) \/ Acquire(c) \/ Release(c) \/ Refresh(c) \/ QueueTimeout(c) \/ GiveUp(c)
    PROVE  WellFormed'
PROOF
  <1> USE LockAssumption DEF WellFormed, Staging, TypeOK, queueVars, ticketVars, At, Goto, Busy, Waiting, Takeover, Releasing
  <1>1. CASE Enter(c)
    BY <1>1 DEF Enter
  <1>2. CASE TurnCame(c) \/ QueueTimeout(c) \/ GiveUp(c)
    BY <1>2 DEF TurnCame, QueueTimeout, GiveUp, LeaveQueue
  <1>3. CASE Stage(c) \/ StageTakeover(c)
    BY <1>3 DEF Stage, StageTakeover, Open
  <1>4. CASE Link(c) \/ Rename(c)
    <2>1. fd[c] # None
      BY <1>4 DEF Link, Rename
    <2>2. Own(c) \in LockFile
      BY <2>1 DEF Own, LockFile, Age
    <2> QED BY <1>4, <2>2 DEF Link, Rename
  <1>5. CASE Inspect(c) \/ InspectAgain(c)
    BY <1>5 DEF Inspect, InspectAgain, StatThen, LockFile, Age
  <1>6. CASE Judge(c) \/ JudgeAgain(c)
    BY <1>6 DEF Age, Judge, JudgeAgain, Forget
  <1>7. CASE OpenTicket(c) \/ TicketTaken(c) \/ ReclaimTicket(c) \/ EndTakeover(c)
    BY <1>7 DEF Age, OpenTicket, TicketTaken, ReclaimTicket, EndTakeover, DropTicket, Forget
  <1>8. CASE CheckInode(c) \/ Close(c)
    BY <1>8 DEF CheckInode, Close
  <1>9. CASE Refresh(c)
    BY <1>9 DEF Refresh, LockFile, Age, Named
  <1>10. CASE CheckOwn(c) \/ Unlink(c)
    BY <1>10 DEF Age, CheckOwn, Unlink, Done, LeaveQueue, Forget
  <1> QED
    BY <1>1, <1>2, <1>3, <1>4, <1>5, <1>6, <1>7, <1>8, <1>9, <1>10 DEF Acquire, Release

(* So do the death of a process and the passing of time.                     *)
LEMMA OtherType ==
    ASSUME WellFormed,
           (\E p \in Process : Crash(p) \/ Restart(p)) \/ LockAges \/ TicketAges
    PROVE  WellFormed'
PROOF
  <1> USE LockAssumption DEF WellFormed, Staging, TypeOK, queueVars, ticketVars, Age
  <1>1. ASSUME NEW p \in Process, Crash(p) PROVE WellFormed'
    BY <1>1 DEF Crash, Busy, Waiting
  <1>2. ASSUME NEW p \in Process, Restart(p) PROVE WellFormed'
    BY <1>2 DEF Restart
  <1>3. CASE LockAges
    BY <1>3 DEF LockAges, LockFile, Age
  <1>4. CASE TicketAges
    BY <1>4 DEF TicketAges
  <1> QED BY <1>1, <1>2, <1>3, <1>4

(* The state of the lock stays well formed, whatever dies, freezes or is     *)
(* given again.                                                              *)
THEOREM TypeCorrect == Spec => []TypeOK
PROOF
  <1>1. WellFormed /\ [Next]_vars => WellFormed'
    <2> SUFFICES ASSUME WellFormed, [Next]_vars PROVE WellFormed'
      OBVIOUS
    <2>1. CASE UNCHANGED vars
      BY <2>1 DEF WellFormed, Staging, TypeOK, vars
    <2>2. CASE Next
      BY <2>2, CallerType, OtherType DEF Next
    <2> QED BY <2>1, <2>2
  <1>2. WellFormed => TypeOK
    BY DEF WellFormed
  <1> QED BY InitType, <1>1, <1>2, PTL DEF Spec

-----------------------------------------------------------------------------
(* One holder.                                                               *)

(* The assumptions of the second theorem.                                    *)
Orderly == ~Reuse /\ ~MayFreeze /\ ~TakerMayDie

LEMMA InitSerialized == Init => Serialized
  BY InitType DEF Init, Serialized, AliveOK, DescriptorsOK, OwnerOK, StagingOK, TicketOK,
     VerdictOK, NoHolder, Holding, Staging, Named, Takeover, Releasing

(* What happens in the queue concerns no file. *)
LEMMA QueueingKeeps ==
    ASSUME Serialized, Orderly, NEW c \in Caller, Enter(c) \/ TurnCame(c) \/ QueueTimeout(c) \/ GiveUp(c)
    PROVE  AliveOK' /\ DescriptorsOK' /\ OwnerOK' /\ StagingOK' /\ TicketOK' /\ VerdictOK'
PROOF
  <1> USE LockAssumption DEF Serialized, WellFormed, TypeOK, queueVars, ticketVars, At, Goto,
          Takeover, Releasing, Named, Enter, TurnCame, QueueTimeout, GiveUp, LeaveQueue
  <1>1. AliveOK'
    BY DEF AliveOK, Runs
  <1>2. DescriptorsOK'
    BY DEF DescriptorsOK, Staging, Holding, Mine
  <1>3. OwnerOK'
    BY DEF OwnerOK, DescriptorsOK, Holding, Mine, Staging
  <1>4. StagingOK'
    BY DEF StagingOK, DescriptorsOK, Staging
  <1>5. TicketOK'
    BY DEF TicketOK
  <1>6. VerdictOK'
    BY DEF VerdictOK, OwnerOK, TicketOK, StagingOK, NoHolder, Holding, Mine, Staging
  <1> QED BY <1>1, <1>2, <1>3, <1>4, <1>5, <1>6

(* A staged file is new: nobody has it open and nobody remembers its number. *)
LEMMA StagingKeeps ==
    ASSUME Serialized, Orderly, NEW c \in Caller, Stage(c)
    PROVE  AliveOK' /\ DescriptorsOK' /\ OwnerOK' /\ StagingOK' /\ TicketOK' /\ VerdictOK'
PROOF
  <1> USE LockAssumption DEF Serialized, WellFormed, TypeOK, queueVars, ticketVars, At, Goto,
          Takeover, Releasing, Named, Stage, Open, Fresh, Free
  <1>1. AliveOK'
    BY DEF AliveOK, Runs
  <1>2. DescriptorsOK'
    BY DEF DescriptorsOK, Staging, Holding, Mine
  <1>3. OwnerOK'
    BY DEF OwnerOK, DescriptorsOK, Holding, Mine, Staging
  <1>4. StagingOK'
    BY DEF StagingOK, DescriptorsOK, Staging, Orderly
  <1>5. TicketOK'
    BY DEF TicketOK
  <1>6. VerdictOK'
    BY DEF VerdictOK, OwnerOK, TicketOK, StagingOK, NoHolder, Holding, Mine, Staging
  <1> QED BY <1>1, <1>2, <1>3, <1>4, <1>5, <1>6

(* Who links the file finds none at the path, so nobody holds it. *)
LEMMA LinkKeeps ==
    ASSUME Serialized, Orderly, NEW c \in Caller, Link(c)
    PROVE  AliveOK' /\ DescriptorsOK' /\ OwnerOK' /\ StagingOK' /\ TicketOK' /\ VerdictOK'
PROOF
  <1> USE LockAssumption DEF Serialized, WellFormed, TypeOK, queueVars, ticketVars, At, Goto,
          Takeover, Releasing, Named, Link, Own
  <1>1. AliveOK'
    BY DEF AliveOK, Runs
  <1>2. DescriptorsOK'
    BY DEF DescriptorsOK, Staging, Holding, Mine
  <1>3. OwnerOK'
    <2>1. CASE lock = None
      <3>1. NoHolder /\ fd' = fd /\ judged' = judged /\ pc' = [pc EXCEPT ![c] = "held"]
        BY <2>1 DEF OwnerOK, DescriptorsOK, NoHolder, Holding, Mine, Staging
      <3>2. lock' = Own(c) /\ fd[c] \in Inode
        BY <2>1 DEF Staging
      <3>3. Own(c) \in LockFile /\ Own(c).ino = fd[c] /\ Own(c).pid = Pid[c]
        BY <3>2 DEF LockFile, Age
      <3>4. \A d \in Caller : Holding(d)' => d = c
        BY <3>1 DEF NoHolder, Holding
      <3> QED BY <3>1, <3>2, <3>3, <3>4 DEF OwnerOK, Holding, Mine
    <2>2. CASE lock # None
      <3>1. \A d \in Caller : Holding(d)' => Holding(d) /\ Mine(d)' = Mine(d)
        BY <2>2 DEF DescriptorsOK, Holding, Mine, Staging
      <3> QED BY <2>2, <3>1 DEF OwnerOK, Holding, Mine
    <2> QED BY <2>1, <2>2
  <1>4. StagingOK'
    BY DEF StagingOK, DescriptorsOK, Staging
  <1>5. TicketOK'
    BY DEF TicketOK
  <1>6. VerdictOK'
    BY DEF VerdictOK, OwnerOK, TicketOK, StagingOK, NoHolder, Holding, Mine, Staging
  <1> QED BY <1>1, <1>2, <1>3, <1>4, <1>5, <1>6

(* A look at the file leaves a file that may be anybody's, except under the ticket. *)
LEMMA LookingKeeps ==
    ASSUME Serialized, Orderly, NEW c \in Caller, Inspect(c) \/ Judge(c)
    PROVE  AliveOK' /\ DescriptorsOK' /\ OwnerOK' /\ StagingOK' /\ TicketOK' /\ VerdictOK'
PROOF
  <1> USE LockAssumption DEF Serialized, WellFormed, TypeOK, queueVars, ticketVars, At, Goto,
          Takeover, Releasing, Named, Inspect, Judge, StatThen, Forget
  <1>1. AliveOK'
    BY DEF AliveOK, Runs
  <1>2. DescriptorsOK'
    BY DEF DescriptorsOK, Staging, Holding, Mine
  <1>3. OwnerOK'
    BY DEF OwnerOK, DescriptorsOK, Holding, Mine, Staging
  <1>4. StagingOK'
    BY DEF StagingOK, DescriptorsOK, Staging
  <1>5. TicketOK'
    BY DEF TicketOK
  <1>6. VerdictOK'
    BY DEF VerdictOK, OwnerOK, TicketOK, StagingOK, NoHolder, Holding, Mine, Staging
  <1> QED BY <1>1, <1>2, <1>3, <1>4, <1>5, <1>6

(* A ticket that is there belongs to a takeover that goes on. *)
LEMMA TicketTakenKeeps ==
    ASSUME Serialized, Orderly, NEW c \in Caller, OpenTicket(c) \/ TicketTaken(c) \/ ReclaimTicket(c)
    PROVE  AliveOK' /\ DescriptorsOK' /\ OwnerOK' /\ StagingOK' /\ TicketOK' /\ VerdictOK'
PROOF
  <1> USE LockAssumption DEF Serialized, WellFormed, TypeOK, queueVars, ticketVars, At, Goto,
          Takeover, Releasing, Named, OpenTicket, TicketTaken, ReclaimTicket, DropTicket
  <1>1. AliveOK'
    BY DEF AliveOK, Runs
  <1>2. DescriptorsOK'
    BY DEF DescriptorsOK, Staging, Holding, Mine
  <1>3. OwnerOK'
    BY DEF OwnerOK, DescriptorsOK, Holding, Mine, Staging
  <1>4. StagingOK'
    BY DEF StagingOK, DescriptorsOK, Staging
  <1>5. TicketOK'
    BY DEF TicketOK
  <1>6. VerdictOK'
    BY DEF VerdictOK, OwnerOK, TicketOK, StagingOK, NoHolder, Holding, Mine, Staging
  <1> QED BY <1>1, <1>2, <1>3, <1>4, <1>5, <1>6

(* An old file is nobody's. *)
LEMMA InspectAgainKeeps ==
    ASSUME Serialized, Orderly, NEW c \in Caller, InspectAgain(c)
    PROVE  AliveOK' /\ DescriptorsOK' /\ OwnerOK' /\ StagingOK' /\ TicketOK' /\ VerdictOK'
PROOF
  <1> USE LockAssumption DEF Serialized, WellFormed, TypeOK, queueVars, ticketVars, At, Goto,
          Takeover, Releasing, Named, InspectAgain, StatThen
  <1>1. AliveOK'
    BY DEF AliveOK, Runs
  <1>2. DescriptorsOK'
    BY DEF DescriptorsOK, Staging, Holding, Mine
  <1>3. OwnerOK'
    <2>1. \A d \in Caller : Holding(d)' => Holding(d) /\ Mine(d)' = Mine(d)
      BY DEF VerdictOK, OwnerOK, DescriptorsOK, NoHolder, Holding, Mine, Staging
    <2> QED BY <2>1 DEF OwnerOK, Holding, Mine
  <1>4. StagingOK'
    BY DEF StagingOK, DescriptorsOK, Staging
  <1>5. TicketOK'
    BY DEF TicketOK
  <1>6. VerdictOK'
    BY DEF VerdictOK, OwnerOK, TicketOK, StagingOK, NoHolder, Holding, Mine, Staging
  <1> QED BY <1>1, <1>2, <1>3, <1>4, <1>5, <1>6

(* A stale file is nobody's: its owner's pid would be alive. *)
LEMMA JudgeAgainKeeps ==
    ASSUME Serialized, Orderly, NEW c \in Caller, JudgeAgain(c)
    PROVE  AliveOK' /\ DescriptorsOK' /\ OwnerOK' /\ StagingOK' /\ TicketOK' /\ VerdictOK'
PROOF
  <1> USE LockAssumption DEF Serialized, WellFormed, TypeOK, queueVars, ticketVars, At, Goto,
          Takeover, Releasing, Named, JudgeAgain, Stale
  <1>1. AliveOK'
    BY DEF AliveOK, Runs
  <1>2. DescriptorsOK'
    BY DEF DescriptorsOK, Staging, Holding, Mine
  <1>3. OwnerOK'
    <2>1. \A d \in Caller : Holding(d)' => Holding(d) /\ Mine(d)' = Mine(d)
      BY DEF VerdictOK, OwnerOK, DescriptorsOK, NoHolder, Holding, Mine, Staging
    <2> QED BY <2>1 DEF OwnerOK, Holding, Mine
  <1>4. StagingOK'
    BY DEF StagingOK, DescriptorsOK, Staging
  <1>5. TicketOK'
    BY DEF TicketOK
  <1>6. VerdictOK'
    <2>1. Stale(c) /\ Named(judged[c]) => NoHolder
      BY DEF VerdictOK, OwnerOK, AliveOK, NoHolder, Holding
    <2>2. \A d \in Caller : Holding(d)' => Holding(d)
      BY DEF VerdictOK, OwnerOK, DescriptorsOK, NoHolder, Holding, Mine, Staging
    <2> QED BY <2>1, <2>2 DEF VerdictOK, TicketOK, NoHolder
  <1> QED BY <1>1, <1>2, <1>3, <1>4, <1>5, <1>6

(* A takeover goes on only over the file it has judged. *)
LEMMA PrepareKeeps ==
    ASSUME Serialized, Orderly, NEW c \in Caller, StageTakeover(c) \/ CheckInode(c)
    PROVE  AliveOK' /\ DescriptorsOK' /\ OwnerOK' /\ StagingOK' /\ TicketOK' /\ VerdictOK'
PROOF
  <1> USE LockAssumption DEF Serialized, WellFormed, TypeOK, queueVars, ticketVars, At, Goto,
          Takeover, Releasing, Named, StageTakeover, CheckInode, Open, Fresh, Free
  <1>1. AliveOK'
    BY DEF AliveOK, Runs
  <1>2. DescriptorsOK'
    BY DEF DescriptorsOK, Staging, Holding, Mine
  <1>3. OwnerOK'
    BY DEF OwnerOK, DescriptorsOK, Holding, Mine, Staging
  <1>4. StagingOK'
    BY DEF StagingOK, DescriptorsOK, Staging, Orderly
  <1>5. TicketOK'
    BY DEF TicketOK
  <1>6. VerdictOK'
    BY DEF VerdictOK, OwnerOK, TicketOK, StagingOK, NoHolder, Holding, Mine, Staging
  <1> QED BY <1>1, <1>2, <1>3, <1>4, <1>5, <1>6

(* The file replaced is nobody's. *)
LEMMA ReplaceKeeps ==
    ASSUME Serialized, Orderly, NEW c \in Caller, Rename(c)
    PROVE  AliveOK' /\ DescriptorsOK' /\ OwnerOK' /\ StagingOK' /\ TicketOK' /\ VerdictOK'
PROOF
  <1> USE LockAssumption DEF Serialized, WellFormed, TypeOK, queueVars, ticketVars, At, Goto,
          Takeover, Releasing, Named, Rename, Own
  <1>1. AliveOK'
    BY DEF AliveOK, Runs
  <1>2. DescriptorsOK'
    BY DEF DescriptorsOK, Staging, Holding, Mine
  <1>3. OwnerOK'
    <2>1. NoHolder /\ fd' = fd /\ judged' = judged /\ pc' = [pc EXCEPT ![c] = "untick"]
      BY DEF VerdictOK, OwnerOK, DescriptorsOK, NoHolder, Holding, Mine, Staging
    <2>2. lock' = Own(c) /\ lock' \in LockFile /\ lock'.ino = fd[c] /\ lock'.pid = Pid[c]
      BY DEF Staging, LockFile, Age
    <2>3. \A d \in Caller : Holding(d)' => d = c
      BY <2>1 DEF OwnerOK, DescriptorsOK, NoHolder, Holding, Mine, Staging
    <2> QED BY <2>1, <2>2, <2>3 DEF OwnerOK, Holding, Mine
  <1>4. StagingOK'
    BY DEF StagingOK, DescriptorsOK, Staging
  <1>5. TicketOK'
    BY DEF TicketOK
  <1>6. VerdictOK'
    BY DEF VerdictOK, OwnerOK, TicketOK, StagingOK, NoHolder, Holding, Mine, Staging
  <1> QED BY <1>1, <1>2, <1>3, <1>4, <1>5, <1>6

(* The ticket goes with its takeover. *)
LEMMA EndTakeoverKeeps ==
    ASSUME Serialized, Orderly, NEW c \in Caller, EndTakeover(c)
    PROVE  AliveOK' /\ DescriptorsOK' /\ OwnerOK' /\ StagingOK' /\ TicketOK' /\ VerdictOK'
PROOF
  <1> USE LockAssumption DEF Serialized, WellFormed, TypeOK, queueVars, ticketVars, At, Goto,
          Takeover, Releasing, Named, EndTakeover, DropTicket, Forget
  <1>1. AliveOK'
    BY DEF AliveOK, Runs
  <1>2. DescriptorsOK'
    BY DEF DescriptorsOK, Staging, Holding, Mine
  <1>3. OwnerOK'
    BY DEF OwnerOK, DescriptorsOK, Holding, Mine, Staging
  <1>4. StagingOK'
    BY DEF StagingOK, DescriptorsOK, Staging
  <1>5. TicketOK'
    BY DEF TicketOK
  <1>6. VerdictOK'
    BY DEF VerdictOK, OwnerOK, TicketOK, StagingOK, NoHolder, Holding, Mine, Staging
  <1> QED BY <1>1, <1>2, <1>3, <1>4, <1>5, <1>6

(* A holder touches and deletes its own file. *)
LEMMA HolderKeeps ==
    ASSUME Serialized, Orderly, NEW c \in Caller, Refresh(c) \/ Close(c) \/ CheckOwn(c) \/ Unlink(c)
    PROVE  AliveOK' /\ DescriptorsOK' /\ OwnerOK' /\ StagingOK' /\ TicketOK' /\ VerdictOK'
PROOF
  <1> USE LockAssumption DEF Serialized, WellFormed, TypeOK, queueVars, ticketVars, At, Goto,
          Takeover, Releasing, Named, Refresh, Close, CheckOwn, Unlink, Done, LeaveQueue, Forget
  <1>0. /\ Refresh(c) => /\ lock' \in LockFile /\ lock'.age = "fresh"
                         /\ lock'.ino = lock.ino /\ lock'.pid = lock.pid
        /\ ~Refresh(c) => lock' \in {lock, None}
    <2>1. ASSUME Refresh(c)
          PROVE  /\ lock' \in LockFile /\ lock'.age = "fresh"
                 /\ lock'.ino = lock.ino /\ lock'.pid = lock.pid
      <3>1. lock \in LockFile /\ lock' = [lock EXCEPT !.age = "fresh"]
        BY <2>1
      <3> QED BY <3>1 DEF LockFile, Age
    <2>2. Close(c) => lock' = lock
      BY DEF Close
    <2>3. CheckOwn(c) => lock' = lock
      BY DEF CheckOwn
    <2>4. Unlink(c) => lock' = None
      BY DEF Unlink
    <2> QED BY <2>1, <2>2, <2>3, <2>4
  <1>1. AliveOK'
    BY DEF AliveOK, Runs
  <1>2. DescriptorsOK'
    BY DEF DescriptorsOK, Staging, Holding, Mine
  <1>3. OwnerOK'
    <2>1. CASE Refresh(c)
      <3>1. lock' # None /\ lock'.ino = lock.ino /\ lock'.pid = lock.pid
        BY <1>0, <2>1
      <3>2. \A d \in Caller : (Holding(d)' <=> Holding(d)) /\ Mine(d)' = Mine(d)
        BY <2>1 DEF Holding, Mine
      <3> QED BY <3>1, <3>2 DEF OwnerOK
    <2>2. CASE Close(c)
      BY <2>2 DEF OwnerOK, DescriptorsOK, NoHolder, Holding, Mine, Staging
    <2>3. CASE CheckOwn(c)
      BY <2>3 DEF OwnerOK, DescriptorsOK, NoHolder, Holding, Mine, Staging
    <2>4. CASE Unlink(c)
      BY <2>4 DEF OwnerOK, DescriptorsOK, NoHolder, Holding, Mine, Staging
    <2> QED BY <2>1, <2>2, <2>3, <2>4
  <1>4. StagingOK'
    BY <1>0 DEF StagingOK, DescriptorsOK, Staging
  <1>5. TicketOK'
    BY DEF TicketOK
  <1>6. VerdictOK'
    <2>1. \A d \in Caller : Holding(d)' => Holding(d)
      BY DEF DescriptorsOK, Holding, Staging
    <2>2. CASE Refresh(c) \/ Close(c) \/ CheckOwn(c)
      <3>1. ~NoHolder
        BY <2>2 DEF NoHolder, Holding
      <3> QED BY <1>0, <2>1, <2>2, <3>1 DEF VerdictOK, NoHolder
    <2>3. CASE Unlink(c)
      BY <2>1, <2>3 DEF VerdictOK, NoHolder, Holding
    <2> QED BY <2>2, <2>3
  <1> QED BY <1>1, <1>2, <1>3, <1>4, <1>5, <1>6

(* The files of the dead stay where they are, and no takeover dies.          *)
LEMMA CrashKeeps ==
    ASSUME Serialized, Orderly, NEW p \in Process, Crash(p) \/ Restart(p)
    PROVE  AliveOK' /\ DescriptorsOK' /\ OwnerOK' /\ StagingOK' /\ TicketOK' /\ VerdictOK'
PROOF
  <1> USE LockAssumption DEF Serialized, WellFormed, TypeOK, queueVars, ticketVars,
          Takeover, Releasing, Named, Crash, Restart
  <1>1. AliveOK'
    BY DEF AliveOK
  <1>2. DescriptorsOK'
    BY DEF DescriptorsOK, Staging, Holding, Mine
  <1>3. OwnerOK'
    BY DEF OwnerOK, Holding, Mine
  <1>4. StagingOK'
    BY DEF StagingOK, DescriptorsOK, Staging
  <1>5. TicketOK'
    BY DEF TicketOK, Orderly
  <1>6. VerdictOK'
    BY DEF VerdictOK, NoHolder, Holding
  <1> QED BY <1>1, <1>2, <1>3, <1>4, <1>5, <1>6

(* A file that is held, and the ticket of a takeover, do not grow old.       *)
LEMMA AgingKeeps ==
    ASSUME Serialized, Orderly, LockAges \/ TicketAges
    PROVE  AliveOK' /\ DescriptorsOK' /\ OwnerOK' /\ StagingOK' /\ TicketOK' /\ VerdictOK'
PROOF
  <1> USE LockAssumption DEF Serialized, WellFormed, TypeOK, queueVars, ticketVars,
          Takeover, Releasing, Named, LockAges, TicketAges
  <1>1. AliveOK'
    BY DEF AliveOK
  <1>2. DescriptorsOK'
    BY DEF DescriptorsOK, Staging, Holding, Mine
  <1>3. lock # None => lock' \in LockFile /\ lock'.ino = lock.ino /\ lock'.pid = lock.pid
    BY DEF LockFile, Age
  <1>4. OwnerOK'
    BY <1>3 DEF OwnerOK, Holding, Mine
  <1>5. StagingOK'
    BY <1>3 DEF StagingOK, Staging
  <1>6. TicketOK'
    BY DEF TicketOK, Orderly
  <1>7. VerdictOK'
    <2>1. NoHolder' <=> NoHolder
      BY DEF NoHolder, Holding
    <2>2. lock' # None /\ lock'.age = "stale" => NoHolder
      BY <1>3 DEF VerdictOK, Orderly, InUse, OwnerOK, NoHolder, Holding, Mine, LockFile
    <2> QED BY <1>3, <2>1, <2>2 DEF VerdictOK
  <1> QED BY <1>1, <1>2, <1>4, <1>5, <1>6, <1>7

(* At most one caller holds the lock.                                        *)
THEOREM MutualExclusion == Orderly => (Spec => []OneHolder)
PROOF
  <1> SUFFICES ASSUME Orderly PROVE Spec => []OneHolder
    OBVIOUS
  <1>1. Serialized /\ [Next]_vars => Serialized'
    <2> SUFFICES ASSUME Serialized, [Next]_vars PROVE Serialized'
      OBVIOUS
    <2>1. CASE UNCHANGED vars
      BY <2>1 DEF Serialized, WellFormed, TypeOK, AliveOK, DescriptorsOK, OwnerOK, StagingOK,
         TicketOK, VerdictOK, NoHolder, Holding, Mine, Staging, Named, vars
    <2>2. ASSUME NEW c \in Caller,
                 Enter(c) \/ Acquire(c) \/ Release(c) \/ Refresh(c) \/ QueueTimeout(c) \/ GiveUp(c)
          PROVE  Serialized'
      <3>1. WellFormed'
        BY <2>2, CallerType DEF Serialized
      <3> QED BY <2>2, <3>1, QueueingKeeps, StagingKeeps, LinkKeeps, LookingKeeps, TicketTakenKeeps,
              InspectAgainKeeps, JudgeAgainKeeps, PrepareKeeps, ReplaceKeeps, EndTakeoverKeeps,
              HolderKeeps DEF Serialized, Acquire, Release
    <2>3. CASE (\E p \in Process : Crash(p) \/ Restart(p)) \/ LockAges \/ TicketAges
      BY <2>3, OtherType, CrashKeeps, AgingKeeps DEF Serialized
    <2> QED BY <2>1, <2>2, <2>3 DEF Next
  <1>2. Serialized => OneHolder
    BY DEF Serialized, OwnerOK, OneHolder, Holding
  <1> QED BY InitSerialized, <1>1, <1>2, PTL DEF Spec

-----------------------------------------------------------------------------
(* The queue within a process.                                               *)

(* Whoever c waits for is at work in the same process and waits for nobody   *)
(* that c does not wait for, the last in the queue is at work there too, and *)
(* queues are finite.                                                        *)
InLine ==
    /\ \A c \in Caller :
          /\ IsFiniteSet(ahead[c]) /\ c \notin ahead[c]
          /\ \A d \in ahead[c] : /\ pc[d] # "idle" /\ Pid[d] = Pid[c]
                                 /\ ahead[d] \subseteq ahead[c]
    /\ \A p \in Process : tail[p] # None => pc[tail[p]] # "idle" /\ Pid[tail[p]] = p

LEMMA NobodyInLine == Init => InLine
PROOF
  BY FS_EmptySet, LockAssumption DEF Init, InLine

(* A caller that is at work and stays so.                                    *)
LEMMA GoesOn ==
    ASSUME InLine, NEW c \in Caller, pc[c] # "idle", TypeOK,
           pc'[c] # "idle", \A d \in Caller \ {c} : pc'[d] = pc[d],
           UNCHANGED queueVars
    PROVE  InLine'
PROOF
  <1>1. \A d \in Caller : pc'[d] # "idle" <=> pc[d] # "idle"
    OBVIOUS
  <1>2. ahead' = ahead /\ tail' = tail
    BY DEF queueVars
  <1>3. \A d \in Caller : ahead[d] \subseteq Caller
    BY DEF TypeOK
  <1>4. \A p \in Process : tail[p] # None => tail[p] \in Caller
    BY DEF TypeOK
  <1> QED BY <1>1, <1>2, <1>3, <1>4 DEF InLine

(* A caller that leaves: whoever waited for it waits for the others.         *)
LEMMA GivesItsSlotBack ==
    ASSUME InLine, NEW c \in Caller, TypeOK, LeaveQueue(c), Goto(c, "idle")
    PROVE  InLine'
PROOF
  <1>1. \A d \in Caller : pc'[d] = IF d = c THEN "idle" ELSE pc[d]
    BY DEF Goto, TypeOK
  <1>2. \A d \in Caller : ahead'[d] = IF d = c THEN {} ELSE ahead[d] \ {c}
    BY DEF LeaveQueue
  <1>3. \A p \in Process : (tail'[p] = tail[p] /\ tail[p] # c) \/ tail'[p] = None
    <2>1. \A p \in Process : tail[p] = c => p = Pid[c] \/ c = None
      BY DEF InLine
    <2>2. c # None /\ Pid[c] \in Process
      BY LockAssumption
    <2>3. tail' = [tail EXCEPT ![Pid[c]] = IF @ = c THEN None ELSE @] /\ tail \in [Process -> Caller \cup {None}]
      BY DEF LeaveQueue, TypeOK
    <2> QED BY <2>1, <2>2, <2>3
  <1>4. \A d \in Caller : ahead[d] \subseteq Caller
    BY DEF TypeOK
  <1>5. \A p \in Process : tail[p] # None => tail[p] \in Caller
    BY DEF TypeOK
  <1>6. \A d \in Caller : IsFiniteSet(ahead'[d]) /\ d \notin ahead'[d]
    <2>1. \A d \in Caller : IsFiniteSet(ahead[d] \ {c})
      BY FS_RemoveElement DEF InLine
    <2>2. IsFiniteSet({})
      BY FS_EmptySet
    <2>3. \A d \in Caller : d \notin ahead[d]
      BY DEF InLine
    <2> QED BY <1>2, <2>1, <2>2, <2>3
  <1>7. \A d \in Caller : \A e \in ahead'[d] :
            pc'[e] # "idle" /\ Pid[e] = Pid[d] /\ ahead'[e] \subseteq ahead'[d]
    <2> TAKE d \in Caller
    <2> TAKE e \in ahead'[d]
    <2>1. d # c /\ e # c /\ e \in ahead[d] /\ e \in Caller
      BY <1>2, <1>4
    <2>2. pc[e] # "idle" /\ Pid[e] = Pid[d] /\ ahead[e] \subseteq ahead[d]
      BY <2>1 DEF InLine
    <2> QED BY <1>1, <1>2, <2>1, <2>2
  <1>8. \A p \in Process : tail'[p] # None => pc'[tail'[p]] # "idle" /\ Pid[tail'[p]] = p
    BY <1>1, <1>3, <1>5 DEF InLine
  <1> QED BY <1>6, <1>7, <1>8 DEF InLine

(* A caller that comes stands behind the last and those before it.           *)
LEMMA StandsBehind ==
    ASSUME InLine, NEW c \in Caller, TypeOK, Enter(c)
    PROVE  InLine'
PROOF
  <1> DEFINE p == Pid[c]
             mine == IF tail[p] = None THEN {} ELSE ahead[tail[p]] \cup {tail[p]}
  <1>1. p \in Process /\ pc[c] = "idle" /\ Pid[c] = p
    BY LockAssumption DEF Enter, At
  <1>2. /\ ahead' = [ahead EXCEPT ![c] = mine] /\ tail' = [tail EXCEPT ![p] = c]
        /\ pc' = [pc EXCEPT ![c] = "queued"]
    BY DEF Enter, Goto
  <1>3. /\ ahead \in [Caller -> SUBSET Caller] /\ tail \in [Process -> Caller \cup {None}]
        /\ DOMAIN pc = Caller
    BY DEF TypeOK
  <1>4. IsFiniteSet(mine) /\ c \notin mine /\ mine \subseteq Caller
    BY <1>1, <1>3, FS_EmptySet, FS_AddElement DEF InLine
  <1>5. \A d \in mine : pc[d] # "idle" /\ Pid[d] = p /\ ahead[d] \subseteq mine
    BY <1>1, <1>3 DEF InLine
  <1> HIDE DEF mine, p
  <1>6. \A d \in Caller : c \notin ahead[d]
    BY <1>1 DEF InLine
  <1>7. \A d \in Caller : /\ ahead'[d] = IF d = c THEN mine ELSE ahead[d]
                          /\ pc'[d] = IF d = c THEN "queued" ELSE pc[d]
    BY <1>2, <1>3
  <1>8. \A d \in Caller : IsFiniteSet(ahead'[d]) /\ d \notin ahead'[d]
    BY <1>4, <1>7 DEF InLine
  <1>9. \A d \in Caller : \A e \in ahead'[d] :
            pc'[e] # "idle" /\ Pid[e] = Pid[d] /\ ahead'[e] \subseteq ahead'[d]
    <2> TAKE d \in Caller
    <2> TAKE e \in ahead'[d]
    <2>1. CASE d = c
      BY <2>1, <1>1, <1>4, <1>5, <1>7
    <2>2. CASE d # c
      BY <2>2, <1>3, <1>6, <1>7 DEF InLine
    <2> QED BY <2>1, <2>2
  <1>10. \A q \in Process : tail'[q] # None => pc'[tail'[q]] # "idle" /\ Pid[tail'[q]] = q
    BY <1>1, <1>2, <1>3, <1>7 DEF InLine
  <1> QED BY <1>8, <1>9, <1>10 DEF InLine

(* A queue dies with its process.                                            *)
LEMMA QueueDies ==
    ASSUME InLine, TypeOK, NEW p \in Process, Crash(p)
    PROVE  InLine'
PROOF
  <1>1. \A d \in Caller : /\ ahead'[d] = IF Pid[d] = p THEN {} ELSE ahead[d]
                          /\ pc'[d] = IF Pid[d] = p THEN "idle" ELSE pc[d]
    BY DEF Crash
  <1>2. /\ ahead \in [Caller -> SUBSET Caller] /\ tail \in [Process -> Caller \cup {None}]
        /\ tail' = [tail EXCEPT ![p] = None]
    BY DEF TypeOK, Crash
  <1>3. \A d \in Caller : IsFiniteSet(ahead'[d]) /\ d \notin ahead'[d]
    BY <1>1, FS_EmptySet DEF InLine
  <1>4. \A d \in Caller : \A e \in ahead'[d] :
            pc'[e] # "idle" /\ Pid[e] = Pid[d] /\ ahead'[e] \subseteq ahead'[d]
    BY <1>1, <1>2 DEF InLine
  <1>5. \A q \in Process : tail'[q] # None => pc'[tail'[q]] # "idle" /\ Pid[tail'[q]] = q
    BY <1>1, <1>2 DEF InLine
  <1> QED BY <1>3, <1>4, <1>5 DEF InLine

LEMMA AcquireStaysInLine ==
    ASSUME InLine, NEW c \in Caller, TypeOK, Acquire(c)
    PROVE  InLine'
PROOF
  <1>1. /\ pc[c] # "idle" /\ UNCHANGED queueVars
        /\ pc'[c] # "idle" /\ \A d \in Caller \ {c} : pc'[d] = pc[d]
    BY DEF TypeOK, Goto, Acquire, TurnCame, Stage, Link, Inspect, Judge, OpenTicket, TicketTaken, ReclaimTicket,
       InspectAgain, JudgeAgain, StageTakeover, CheckInode, Rename, EndTakeover, StatThen, At
  <1> QED BY <1>1, GoesOn

LEMMA CallerStaysInLine ==
    ASSUME InLine, NEW c \in Caller, TypeOK,
           Enter(c) \/ Acquire(c) \/ Release(c) \/ Refresh(c) \/ QueueTimeout(c) \/ GiveUp(c)
    PROVE  InLine'
PROOF
  <1>1. CASE Close(c)
    <2>1. /\ pc[c] # "idle" /\ UNCHANGED queueVars
          /\ pc'[c] # "idle" /\ \A d \in Caller \ {c} : pc'[d] = pc[d]
      BY <1>1 DEF Close, At, Goto, TypeOK
    <2> QED BY <2>1, GoesOn
  <1>2. CASE CheckOwn(c) /\ Named(judged[c])
    <2>1. /\ pc[c] # "idle" /\ UNCHANGED queueVars
          /\ pc'[c] # "idle" /\ \A d \in Caller \ {c} : pc'[d] = pc[d]
      BY <1>2 DEF CheckOwn, At, Goto, TypeOK, queueVars
    <2> QED BY <2>1, GoesOn
  <1>3. CASE (CheckOwn(c) /\ ~Named(judged[c])) \/ Unlink(c) \/ QueueTimeout(c) \/ GiveUp(c)
    BY <1>3, GivesItsSlotBack DEF CheckOwn, Unlink, Done, QueueTimeout, GiveUp
  <1>4. CASE Refresh(c)
    BY <1>4 DEF Refresh, queueVars, InLine
  <1> QED BY <1>1, <1>2, <1>3, <1>4, AcquireStaysInLine, StandsBehind DEF Release

(* In a queue that is in line somebody waits for nobody: among the last and  *)
(* those before it, whoever waits for the fewest.                            *)
LEMMA SomebodyIsFirst ==
    ASSUME InLine, TypeOK, NEW c \in Caller
    PROVE  \E d \in ahead[c] \cup {c} : ahead[d] = {}
PROOF
  <1> DEFINE T == {ahead[d] : d \in ahead[c] \cup {c}}
  <1>1. ahead \in [Caller -> SUBSET Caller]
    BY DEF TypeOK
  <1>2. \A d \in Caller : ahead[d] \in FiniteSubsetsOf(Caller)
    BY <1>1 DEF FiniteSubsetsOf, InLine
  <1>3. T \subseteq FiniteSubsetsOf(Caller) /\ T # {}
    BY <1>1, <1>2
  <1>4. PICK s \in T : \A t \in T : ~ (<<t, s>> \in StrictSubsetOrdering(Caller))
    <2>1. IsWellFoundedOn(StrictSubsetOrdering(Caller), FiniteSubsetsOf(Caller))
      BY FS_StrictSubsetOrderingWellFounded
    <2> HIDE DEF T
    <2> QED BY <1>3, <2>1, WFMin
  <1>5. PICK d \in ahead[c] \cup {c} : s = ahead[d]
    BY <1>4
  <1>6. d \in Caller /\ ahead[d] \subseteq ahead[c] /\ ahead[d] \subseteq Caller
    BY <1>1 DEF InLine
  <1>7. ASSUME NEW e \in ahead[d] PROVE FALSE
    <2>1. e \in ahead[c] /\ e \in Caller
      BY <1>6
    <2>2. ahead[e] \subseteq ahead[d] /\ e \notin ahead[e] /\ ahead[e] \subseteq Caller
      BY <1>1, <1>6, <2>1 DEF InLine
    <2>3. <<ahead[e], ahead[d]>> \in StrictSubsetOrdering(Caller)
      BY <1>6, <2>2 DEF StrictSubsetOrdering
    <2>4. ahead[e] \in T
      BY <2>1
    <2> QED BY <1>4, <1>5, <2>3, <2>4
  <1>8. ahead[d] = {}
    BY <1>7
  <1> QED BY <1>8

(* Whatever dies, gives up or throws, a queued caller waits only for callers *)
(* that are at work, and one of those at work in its process waits for none. *)
THEOREM QueueAlwaysMoves == Spec => []QueueMoves
PROOF
  <1>1. TypeOK /\ InLine /\ [Next]_vars => InLine'
    <2> SUFFICES ASSUME TypeOK, InLine, [Next]_vars PROVE InLine'
      OBVIOUS
    <2>1. CASE UNCHANGED vars \/ LockAges \/ TicketAges \/ \E p \in Process : Restart(p)
      <3>1. UNCHANGED <<pc, tail, ahead>>
        BY <2>1 DEF vars, LockAges, TicketAges, Restart, queueVars
      <3> QED BY <3>1 DEF InLine
    <2>2. CASE \E c \in Caller : Enter(c) \/ Acquire(c) \/ Release(c) \/ Refresh(c)
                                 \/ QueueTimeout(c) \/ GiveUp(c)
      BY <2>2, CallerStaysInLine
    <2>3. CASE \E p \in Process : Crash(p)
      BY <2>3, QueueDies
    <2> QED BY <2>1, <2>2, <2>3 DEF Next
  <1>2. TypeOK /\ InLine => QueueMoves
    <2> SUFFICES ASSUME TypeOK, InLine PROVE QueueMoves
      OBVIOUS
    <2>1. ASSUME NEW p \in Process, tail[p] # None
          PROVE  /\ pc[tail[p]] # "idle"
                 /\ \E c \in Caller : Pid[c] = p /\ pc[c] # "idle" /\ ahead[c] = {}
      <3>1. tail[p] \in Caller /\ pc[tail[p]] # "idle" /\ Pid[tail[p]] = p
        BY <2>1 DEF TypeOK, InLine
      <3>2. PICK d \in ahead[tail[p]] \cup {tail[p]} : ahead[d] = {}
        BY <3>1, SomebodyIsFirst
      <3>3. d \in Caller /\ Pid[d] = p /\ pc[d] # "idle"
        BY <3>1, <3>2 DEF TypeOK, InLine
      <3> QED BY <3>1, <3>2, <3>3
    <2> QED BY <2>1 DEF QueueMoves, InLine
  <1> QED BY TypeCorrect, NobodyInLine, <1>1, <1>2, PTL DEF Spec

=============================================================================
