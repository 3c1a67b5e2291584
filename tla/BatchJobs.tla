------------------------------ MODULE BatchJobs ------------------------------
(***************************************************************************)
(* The daemon's queue of batch jobs (batch/manager.ts) and the order of    *)
(* its writes (state/store-write-queue.ts, state/persistent-store.ts).     *)
(*                                                                         *)
(* Clients create and cancel jobs at any time.  A tick sends the queued    *)
(* ones to the provider, some of them in one paid batch, asks after the    *)
(* batches sent before, and writes the jobs to the file; there is one tick *)
(* at a time.  Between two calls to the provider clients get their turn,   *)
(* and a tick goes on with the copies of the jobs it has made at its       *)
(* beginning.  A call or a write may fail, an answer may get lost, and the *)
(* process may die between any two steps.                                  *)
(*                                                                         *)
(* A definition that a comment calls a slip is what a small mistake would  *)
(* make of the definition after it; nothing uses it.                       *)
(***************************************************************************)
EXTENDS Naturals, FiniteSets, Sequences

CONSTANTS
    Job,          \* ids of jobs
    ModelOf,      \* the provider and model of each job
    MaxJobs,      \* the values of batch.maxJobsPerProviderBatch, read by each tick
    None,         \* no content
    Ends,         \* the ends a provider reports of a job
    MaxBacklog,   \* bound: no request of a client with so many such writes queued
    MaxFailures,  \* bound: calls to the provider and writes that fail
    MaxCrashes    \* bound: deaths of the process

VARIABLES
    job,       \* this.data.jobs
    disk,      \* the file
    writes,    \* the writes requested and not yet done, oldest first
    content,   \* what the first of them has serialised
    tick,      \* the tick under way
    sends,     \* how often the provider has accepted each job
    kept,      \* the jobs whose creation was acknowledged
    calledOff, \* those whose cancellation was acknowledged, if it came in time
    unwritten, \* those of them that were in no file then, nor have been since
    tooLate,   \* those cancelled when a tick had copied them: see Copied
    failures, crashes

clients == <<kept, calledOff, unwritten>>
faults == <<failures, crashes>>
vars == <<job, disk, writes, content, tick, sends, clients, tooLate, faults>>

Outcome == {"completed", "failed", "cancelled", "expired", "dead_lettered"}
\* A job with the provider is submitted or running; nothing depends on which.
Status == {"none", "queued", "submitted"} \cup Outcome

\* A job, with its provider batch: the jobs it was sent with, or {}.
Record == [status : Status, batch : SUBSET Job]
Absent == [status |-> "none", batch |-> {}]
Ended(r) == r.status \in Outcome
ASSUME BatchAssumption ==
    /\ MaxJobs \subseteq Nat \ {0}
    /\ Ends \subseteq {"completed", "failed", "cancelled", "expired"}
    /\ None \notin [Job -> Record]
    /\ MaxBacklog \in Nat /\ MaxFailures \in Nat /\ MaxCrashes \in Nat

\* A slip: all jobs that have not got a batch yet.
Batchless == {j \in Job : job[j].status # "none" /\ job[j].batch = {}}
Queued == {j \in Job : job[j].status = "queued"}

\* What a write was requested for.
Write == [for : {"create", "cancel"}, about : SUBSET Job]
         \cup [for : {"tick"}, about : {{}}]
Request(purpose, about) == writes' = Append(writes, [for |-> purpose, about |-> about])

\* A tick submits slices of the queued jobs, the one in sent being with the
\* provider, then polls batches, then waits for its write.
NoTick == [phase |-> "idle", slices |-> {}, sent |-> {}, polls |-> {}]
Tick == [phase : {"idle", "submit", "poll", "write"},
         slices : SUBSET SUBSET Job, sent : SUBSET Job, polls : SUBSET SUBSET Job]

Init ==
    /\ job = [j \in Job |-> Absent] /\ disk = job
    /\ writes = << >> /\ content = None
    /\ tick = NoTick
    /\ sends = [j \in Job |-> 0]
    /\ kept = {} /\ calledOff = {} /\ unwritten = {} /\ tooLate = {}
    /\ failures = 0 /\ crashes = 0

(***************************************************************************)
(* Clients.                                                                *)
(***************************************************************************)
RoomForAWrite == Len(SelectSeq(writes, LAMBDA w : w.for # "tick")) < MaxBacklog

\* The id is one that nobody has had.
CreateJob(j) ==
    /\ job[j] = Absent /\ sends[j] = 0 /\ j \notin kept \cup calledOff \cup tooLate
    /\ RoomForAWrite
    /\ job' = [job EXCEPT ![j].status = "queued"]
    /\ Request("create", {j})
    /\ UNCHANGED <<disk, content, tick, sends, clients, tooLate, faults>>

\* The jobs a tick goes on about with a copy of its own.
Copied == {j \in Job : \E S \in tick.slices \cup {tick.sent} : j \in S}

CancelJob(j) ==
    /\ job[j].status = "queued" /\ RoomForAWrite
    /\ job' = [job EXCEPT ![j].status = "cancelled"]
    /\ tooLate' = IF j \in Copied THEN tooLate \cup {j} ELSE tooLate
    /\ Request("cancel", {j})
    /\ UNCHANGED <<disk, content, tick, sends, clients, faults>>

\* The jobs called off before a tick had copied them.
InTime(S) == S \ tooLate

\* A job that is cancelled in memory is acknowledged as cancelled at once, whether
\* the first call waits for its write still or has heard that it failed.
CancelAgain(j) ==
    /\ job[j].status = "cancelled"
    /\ calledOff' = calledOff \cup InTime({j})
    /\ unwritten' = IF disk[j].status = "cancelled" THEN unwritten
                                                    ELSE unwritten \cup InTime({j})
    /\ UNCHANGED <<job, disk, writes, content, tick, sends, kept, tooLate, faults>>

(***************************************************************************)
(* The tick: submission.                                                   *)
(***************************************************************************)
\* A slip: a batch of a single job is not asked after.
Shared(jobs) ==
    {jobs[j].batch : j \in {k \in Job : Cardinality(jobs[k].batch) > 1 /\ ~ Ended(jobs[k])}}
\* The batches whose jobs have not all ended.
Unfinished(jobs) == {jobs[j].batch : j \in {k \in Job : jobs[k].batch # {} /\ ~ Ended(jobs[k])}}

\* A tick runs to its next call without a pause: when nothing is left to send it
\* polls, and when nothing is left to poll it asks for its write.
RunTo(t) ==
    LET p == IF t.phase = "submit" /\ t.slices = {} /\ t.sent = {}
             THEN [t EXCEPT !.phase = "poll", !.polls = Unfinished(job')] ELSE t
    IN  \/ /\ p.phase = "poll" /\ p.polls = {}
           /\ tick' = [p EXCEPT !.phase = "write"]
           /\ Request("tick", {})
        \/ /\ ~ (p.phase = "poll" /\ p.polls = {})
           /\ tick' = p
           /\ UNCHANGED writes

\* The jobs due, by model, in slices of at most max.
Slicings(due, max) ==
    {P \in SUBSET (SUBSET due \ {{}}) :
        /\ UNION P = due
        /\ \A S \in P : Cardinality(S) <= max /\ \A j, k \in S : ModelOf[j] = ModelOf[k]
        /\ \A S, T \in P : S # T =>
              /\ S \cap T = {}
              /\ \A j \in S, k \in T : ModelOf[j] = ModelOf[k] =>
                    Cardinality(S) = max \/ Cardinality(T) = max}

\* Jobs that are not yet batch.maxDelayMs old may be left for later.
StartTick(due) ==
    /\ tick.phase = "idle"
    /\ UNCHANGED job
    /\ \E max \in MaxJobs : \E P \in Slicings(due, max) :
          RunTo([NoTick EXCEPT !.phase = "submit", !.slices = P])
    /\ UNCHANGED <<disk, content, sends, clients, tooLate, faults>>

\* createChatBatch: the provider has accepted a slice.
Accepted(S) ==
    /\ tick.sent = {} /\ S \in tick.slices
    /\ tick' = [tick EXCEPT !.slices = @ \ {S}, !.sent = S]
    /\ sends' = [j \in Job |-> IF j \in S THEN sends[j] + 1 ELSE sends[j]]
    /\ UNCHANGED <<job, disk, writes, content, clients, tooLate, faults>>

\* The copies go back into the map, whatever has become of the jobs.
PutBack(S, status, batch) ==
    job' = [j \in Job |-> IF j \in S THEN [status |-> status, batch |-> batch] ELSE job[j]]

Answered ==
    /\ tick.sent # {}
    /\ \E status \in {"submitted", "failed"} : PutBack(tick.sent, status, tick.sent)
    /\ RunTo([tick EXCEPT !.sent = {}])
    /\ UNCHANGED <<disk, content, sends, clients, tooLate, faults>>

\* A slip: jobs whose call has failed are left for the next tick.
Requeues(S) == PutBack(S, "queued", {})
\* A call that fails ends its jobs, whether the provider has got it or not.
DeadLetters(S) == PutBack(S, "dead_lettered", {})

SubmitFails(S) ==
    /\ failures < MaxFailures
    /\ \/ tick.sent # {} /\ S = tick.sent
       \/ tick.sent = {} /\ S \in tick.slices
    /\ DeadLetters(S)
    /\ failures' = failures + 1
    /\ RunTo([tick EXCEPT !.slices = @ \ {S}, !.sent = {}])
    /\ UNCHANGED <<disk, content, sends, clients, tooLate, crashes>>

(***************************************************************************)
(* The tick: polling.  The two calls about a batch, for its status and for *)
(* its results, are one step: nobody else touches a job that was sent.     *)
(***************************************************************************)
\* A slip: those that have ended as well.
Members(b) == {j \in Job : job[j].batch = b}
Bucket(b) == {j \in Job : job[j].batch = b /\ ~ Ended(job[j])}

Settle(b, outcomes) ==
    job' = [j \in Job |-> IF j \in Bucket(b) THEN [job[j] EXCEPT !.status = outcomes[j]]
                                             ELSE job[j]]

\* The provider reports the ends of all of the jobs, of some or, while they run,
\* of none; one that it leaves out stays as it is.
Results(b) ==
    /\ \E reported \in SUBSET Bucket(b) : \E end \in [reported -> Ends] :
          Settle(b, [j \in Bucket(b) |-> IF j \in reported THEN end[j] ELSE job[j].status])
    /\ UNCHANGED failures

PollFails(b) ==
    /\ failures < MaxFailures
    /\ Settle(b, [j \in Bucket(b) |-> "dead_lettered"])
    /\ failures' = failures + 1

Polled(b) == RunTo([tick EXCEPT !.polls = @ \ {b}])

Poll(b) ==
    /\ b \in tick.polls
    /\ Results(b) \/ PollFails(b)
    /\ Polled(b)
    /\ UNCHANGED <<disk, content, sends, clients, tooLate, crashes>>

(***************************************************************************)
(* The writes, one at a time, each of the jobs as they are when it comes   *)
(* to serialising them.                                                    *)
(***************************************************************************)
WriteStarts ==
    /\ writes # << >> /\ content = None
    /\ content' = job
    /\ UNCHANGED <<job, disk, writes, tick, sends, clients, tooLate, faults>>

\* What a new file has of the jobs that were called off without a write.
Written == unwritten' = {j \in unwritten : disk'[j].status # "cancelled"}

\* The write is over, and with it the tick that waited for it.
WriteEnds ==
    /\ content' = None
    /\ writes' = Tail(writes)
    /\ tick' = IF Head(writes).for = "tick" THEN NoTick ELSE tick

Acknowledge(w) ==
    /\ kept' = IF w.for = "create" THEN kept \cup w.about ELSE kept
    /\ calledOff' = IF w.for = "cancel" THEN calledOff \cup InTime(w.about) ELSE calledOff

WriteLands ==
    /\ content # None
    /\ disk' = content /\ Written
    /\ Acknowledge(Head(writes))
    /\ WriteEnds
    /\ UNCHANGED <<job, sends, tooLate, faults>>

\* A slip: the queue is awaited instead of the write.
FailsUnnoticed ==
    /\ content # None /\ failures < MaxFailures
    /\ disk' \in {disk, content} /\ Written
    /\ failures' = failures + 1
    /\ Acknowledge(Head(writes))
    /\ WriteEnds
    /\ UNCHANGED <<job, sends, tooLate, crashes>>

\* The rename may have been done all the same.  Memory is not corrected.
WriteFails ==
    /\ content # None /\ failures < MaxFailures
    /\ disk' \in {disk, content} /\ Written
    /\ failures' = failures + 1
    /\ WriteEnds
    /\ UNCHANGED <<job, sends, kept, calledOff, tooLate, crashes>>

(***************************************************************************)
(* The process.                                                            *)
(***************************************************************************)
\* The process dies, perhaps right after the rename of a write, and the next one
\* loads the file.
Restart ==
    /\ crashes < MaxCrashes
    /\ disk' \in {disk} \cup {c \in {content} : c # None} /\ Written
    /\ job' = disk'
    /\ writes' = << >> /\ content' = None
    /\ tick' = NoTick
    /\ crashes' = crashes + 1
    /\ UNCHANGED <<sends, kept, calledOff, tooLate, failures>>

TickGoesOn ==
    \/ \E S \in tick.slices : Accepted(S)
    \/ Answered
    \/ \E S \in tick.slices \cup {tick.sent} : SubmitFails(S)
    \/ \E b \in tick.polls : Poll(b)

Next ==
    \/ \E j \in Job : CreateJob(j) \/ CancelJob(j) \/ CancelAgain(j)
    \/ \E due \in SUBSET Queued : StartTick(due)
    \/ TickGoesOn
    \/ WriteStarts \/ WriteLands \/ WriteFails
    \/ Restart

Spec == Init /\ [][Next]_vars

\* The interval fires for ever, and a job that is old enough is in every tick
\* that starts; calls and writes come to an end, and so does a batch at the
\* provider, so that one which is polled for ever is found to have ended.
Fairness ==
    /\ \A j \in Job :
          /\ SF_vars(\E due \in SUBSET Queued : j \in due /\ StartTick(due))
          /\ SF_vars(~ Ended(job[j]) /\ Poll(job[j].batch) /\ Ended(job'[j]))
    /\ WF_vars(StartTick({}))
    /\ WF_vars(TickGoesOn)
    /\ WF_vars(WriteStarts) /\ WF_vars(WriteLands)
FairSpec == Spec /\ Fairness

(***************************************************************************)
(* Properties.                                                             *)
(***************************************************************************)
\* Types; a write that has been serialised is the first of those requested.
TypeOK ==
    /\ job \in [Job -> Record] /\ disk \in [Job -> Record]
    /\ writes \in Seq(Write)
    /\ content \in [Job -> Record] \cup {None}
    /\ content # None => writes # << >>
    /\ tick \in Tick
    /\ sends \in [Job -> Nat]
    /\ kept \subseteq Job /\ calledOff \subseteq Job
    /\ unwritten \subseteq calledOff /\ tooLate \subseteq Job
    /\ failures \in 0 .. MaxFailures /\ crashes \in 0 .. MaxCrashes

\* A job is paid for once in the life of a process: only one that has died
\* before it could write down what it had sent sends it again.
PaidOnce == \A j \in Job : sends[j] <= 1 + crashes

\* The outcome of a job stands, in memory and in the file: no write puts an older
\* state back and no late answer overwrites it, a cancellation included, unless it
\* came when a tick had copied the job.  A restart falls back to the file.
OutcomeStands ==
    [][\A j \in Job \ tooLate' :
          /\ Ended(job[j]) => job'[j] = job[j] \/ crashes' # crashes
          /\ Ended(disk[j]) => disk'[j] = disk[j]]_vars

\* What a client was told outlives the process: a job whose creation was
\* acknowledged is in the file, and one it called off in time stays off, in memory
\* and file.  One it called off again before the file had it stays off in memory as
\* long as the process lives.
HeardIsKept ==
    /\ \A j \in kept : disk[j].status # "none"
    /\ \A j \in calledOff \ tooLate :
          /\ j \notin unwritten => disk[j].status = "cancelled"
          /\ j \notin unwritten \/ crashes = 0 => job[j].status = "cancelled"

\* A job that was called off is not paid for afterwards, unless a tick had copied
\* it when it was called off, or the process died with no file that had it off.
CalledOffInTime ==
    [][\A j \in calledOff \ tooLate :
          j \notin unwritten \/ crashes = 0 => sends'[j] = sends[j]]_vars

\* What the comments of the source say of it: no job that was called off is sent.
CalledOffIsNotSent == [][\A j \in calledOff \cup tooLate : sends'[j] = sends[j]]_vars

\* Every job that is queued comes to an end, over failures, time-outs of writes
\* and restarts, unless the process died before it was in the file.
JobsEnd == \A j \in Job : job[j].status = "queued" ~> Ended(job[j]) \/ job[j].status = "none"
=============================================================================
