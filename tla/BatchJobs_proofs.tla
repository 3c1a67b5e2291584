--------------------------- MODULE BatchJobs_proofs ---------------------------
(***************************************************************************)
(* The batch jobs, proved for any number of jobs, batches, writes, failures*)
(* and deaths.  BatchInv is the inductive invariant: a tick holds each job *)
(* once and has no work left when it writes (TickOK), what may be sent has *)
(* not been sent in this life of the process (SendsOK), a copy that a tick *)
(* holds is true unless the job was cancelled too late (CopiesOK), memory, *)
(* the write under way and the file agree on every outcome (FileOK), and   *)
(* what a write will acknowledge is in it (HeardOK).                       *)
(***************************************************************************)
EXTENDS BatchJobs, TLAPS

\* One write of a tick, and the tick waits for it.
WriterOK ==
    \A i \in 1 .. Len(writes) : writes[i].for = "tick" =>
        /\ tick.phase = "write"
        /\ \A k \in 1 .. Len(writes) : writes[k].for = "tick" => k = i

TickOK ==
    /\ \A S, T \in tick.slices : S # T => S \cap T = {}
    /\ \A S \in tick.slices : S \cap tick.sent = {}
    /\ tick.phase # "submit" => tick.slices = {} /\ tick.sent = {}
    /\ tick.polls # {} => tick.phase = "poll"
    /\ WriterOK

SendsOK ==
    /\ \A j \in Job : sends[j] <= 1 + crashes
    /\ \A j \in Job : job[j].status = "queued" /\ j \notin tick.sent => sends[j] <= crashes
    /\ \A S \in tick.slices : \A j \in S : sends[j] <= crashes

CopiesOK == \A j \in Copied \ tooLate : job[j].status = "queued"

FileOK ==
    \A j \in Job \ tooLate :
        /\ Ended(disk[j]) => job[j] = disk[j] /\ (content # None => content[j] = disk[j])
        /\ content # None /\ Ended(content[j]) => job[j] = content[j]

Known(r) == r.status # "none"

\* What the write w will acknowledge is so among the jobs js.
Covered(w, js, late) ==
    /\ w.for = "create" => \A j \in w.about : Known(js[j])
    /\ w.for = "cancel" => \A j \in w.about \ late : js[j].status = "cancelled"

HeardOK ==
    /\ \A j \in Job : Known(disk[j]) => Known(job[j]) /\ (content # None => Known(content[j]))
    /\ content # None => \A j \in Job : Known(content[j]) => Known(job[j])
    /\ \A i \in 1 .. Len(writes) : Covered(writes[i], job, tooLate)
    /\ content # None => Covered(writes[1], content, tooLate)
    /\ HeardIsKept

BatchInv == TypeOK /\ TickOK /\ SendsOK /\ CopiesOK /\ FileOK /\ HeardOK

(***************************************************************************)
(* The parts of a tick.                                                    *)
(***************************************************************************)
\* A tick runs to its next call: what it holds stays, and it leaves the
\* submission with nothing left to send.
LEMMA RunsOn ==
    ASSUME BatchAssumption, writes \in Seq(Write), job' \in [Job -> Record],
           NEW t \in Tick, t.phase \in {"submit", "poll"}, RunTo(t)
    PROVE  /\ tick' \in Tick /\ tick'.phase # "idle"
           /\ tick'.slices = t.slices /\ tick'.sent = t.sent
           /\ tick'.phase # "submit" => t.phase = "poll" \/ (t.slices = {} /\ t.sent = {})
           /\ (t.polls # {} => t.phase = "poll") => (tick'.polls # {} => tick'.phase = "poll")
           /\ writes' \in Seq(Write) /\ (writes # << >> => writes' # << >>)
           /\ \/ writes' = writes
              \/ /\ writes' = Append(writes, [for |-> "tick", about |-> {}])
                 /\ tick'.phase = "write"
<1> DEFINE p == IF t.phase = "submit" /\ t.slices = {} /\ t.sent = {}
                THEN [t EXCEPT !.phase = "poll", !.polls = Unfinished(job')] ELSE t
<1>1. Unfinished(job') \subseteq SUBSET Job
  BY DEF Unfinished, Record
<1>2. /\ p \in Tick /\ p.phase \in {"submit", "poll"}
      /\ p.slices = t.slices /\ p.sent = t.sent
      /\ p.phase # "submit" => t.phase = "poll" \/ (t.slices = {} /\ t.sent = {})
      /\ (t.polls # {} => t.phase = "poll") => (p.polls # {} => p.phase = "poll")
  BY <1>1 DEF Tick
<1>3. \/ p.phase = "poll" /\ p.polls = {} /\ tick' = [p EXCEPT !.phase = "write"] /\ Request("tick", {})
      \/ tick' = p /\ writes' = writes
  BY DEF RunTo
<1>4. [for |-> "tick", about |-> {}] \in Write
  BY DEF Write
<1> HIDE DEF p
<1>5. CASE p.phase = "poll" /\ p.polls = {} /\ tick' = [p EXCEPT !.phase = "write"] /\ Request("tick", {})
  <2>1. /\ writes' = Append(writes, [for |-> "tick", about |-> {}])
        /\ writes' \in Seq(Write) /\ writes' # << >>
    BY <1>4, <1>5 DEF Request
  <2>2. /\ tick' \in Tick /\ tick'.phase = "write"
        /\ tick'.slices = p.slices /\ tick'.sent = p.sent /\ tick'.polls = {}
    BY <1>2, <1>5 DEF Tick
  <2> QED  BY <1>2, <1>5, <2>1, <2>2
<1>6. CASE tick' = p /\ writes' = writes
  BY <1>2, <1>6
<1> QED  BY <1>3, <1>5, <1>6

\* A tick starts with disjoint slices of jobs that are queued.
LEMMA Starts ==
    ASSUME NEW due \in SUBSET Queued, StartTick(due)
    PROVE  \E P \in SUBSET SUBSET Queued :
              /\ \A S, T \in P : S # T => S \cap T = {}
              /\ RunTo([NoTick EXCEPT !.phase = "submit", !.slices = P])
<1>1. \A max : \A P \in Slicings(due, max) :
         P \in SUBSET SUBSET Queued /\ \A S, T \in P : S # T => S \cap T = {}
  BY DEF Slicings
<1> QED  BY <1>1 DEF StartTick

\* A request of a client changes the status of its job.
LEMMA Changes ==
    ASSUME TypeOK, NEW j \in Job, NEW status \in {"queued", "cancelled"},
           job' = [job EXCEPT ![j].status = status]
    PROVE  /\ job' \in [Job -> Record]
           /\ job'[j].status = status
           /\ \A k \in Job \ {j} : job'[k] = job[k]
<1>1. job[j] \in Record /\ status \in Status
  BY DEF TypeOK, Status, Outcome
<1>2. [job[j] EXCEPT !.status = status] \in Record
  BY <1>1 DEF Record
<1>3. /\ job' = [job EXCEPT ![j] = [job[j] EXCEPT !.status = status]]
      /\ [job[j] EXCEPT !.status = status].status = status
  BY <1>1 DEF Record
<1> QED  BY <1>2, <1>3 DEF TypeOK

\* Putting copies back touches the jobs of the slice only.
LEMMA PutsBack ==
    ASSUME TypeOK, NEW S \in SUBSET Job, NEW status \in Outcome \cup {"submitted"},
           NEW batch \in SUBSET Job, PutBack(S, status, batch)
    PROVE  /\ job' \in [Job -> Record]
           /\ \A j \in S : job'[j].status = status
           /\ \A j \in Job \ S : job'[j] = job[j]
BY DEF PutBack, TypeOK, Record, Status

\* A poll touches only jobs that were sent and have not ended.
LEMMA Polls ==
    ASSUME BatchAssumption, TypeOK, NEW b \in SUBSET Job, Results(b) \/ PollFails(b)
    PROVE  /\ job' \in [Job -> Record]
           /\ \A j \in Job : \/ job'[j] = job[j]
                             \/ /\ ~ Ended(job[j]) /\ job[j].batch = b
                                /\ job'[j].status \in Outcome \cup {job[j].status}
           /\ failures' \in 0 .. MaxFailures
<1>1. ASSUME NEW o \in [Bucket(b) -> Status], Settle(b, o),
             \A j \in Bucket(b) : o[j] \in Outcome \cup {job[j].status}
      PROVE  /\ job' \in [Job -> Record]
             /\ \A j \in Job : \/ job'[j] = job[j]
                               \/ /\ ~ Ended(job[j]) /\ job[j].batch = b
                                  /\ job'[j].status \in Outcome \cup {job[j].status}
  BY <1>1 DEF Settle, Bucket, TypeOK, Record
<1>2. CASE Results(b)
  <2>1. PICK reported \in SUBSET Bucket(b) : \E end \in [reported -> Ends] :
            Settle(b, [j \in Bucket(b) |-> IF j \in reported THEN end[j] ELSE job[j].status])
    BY <1>2 DEF Results
  <2>2. PICK end \in [reported -> Ends] :
            Settle(b, [j \in Bucket(b) |-> IF j \in reported THEN end[j] ELSE job[j].status])
    BY <2>1
  <2> DEFINE o == [j \in Bucket(b) |-> IF j \in reported THEN end[j] ELSE job[j].status]
  <2>3. /\ o \in [Bucket(b) -> Status]
        /\ \A j \in Bucket(b) : o[j] \in Outcome \cup {job[j].status}
    BY DEF Bucket, TypeOK, Record, Status, Outcome, BatchAssumption
  <2>4. failures' \in 0 .. MaxFailures
    BY <1>2 DEF Results, TypeOK
  <2> QED  BY <1>1, <2>2, <2>3, <2>4
<1>3. CASE PollFails(b)
  <2> DEFINE o == [j \in Bucket(b) |-> "dead_lettered"]
  <2>1. /\ o \in [Bucket(b) -> Status] /\ Settle(b, o)
        /\ \A j \in Bucket(b) : o[j] \in Outcome \cup {job[j].status}
    BY <1>3 DEF PollFails, Status, Outcome
  <2>2. failures' \in 0 .. MaxFailures
    BY <1>3 DEF PollFails, TypeOK, BatchAssumption
  <2> QED  BY <1>1, <2>1, <2>2
<1> QED  BY <1>2, <1>3

\* A tick that goes on may ask for its write.
Writes ==
    /\ writes' \in Seq(Write)
    /\ \/ writes' = writes
       \/ writes' = Append(writes, [for |-> "tick", about |-> {}]) /\ tick'.phase = "write"

\* An answer or a failure: the copies of one slice go back.
LEMMA Submits ==
    ASSUME BatchAssumption, TypeOK, TickOK,
           Answered \/ \E S \in tick.slices \cup {tick.sent} : SubmitFails(S)
    PROVE  \E S \in SUBSET Job :
              /\ S = tick.sent \/ (S \in tick.slices /\ tick.sent = {})
              /\ tick.phase = "submit"
              /\ tick'.slices = tick.slices \ {S} /\ tick'.sent = {}
              /\ tick'.phase # "submit" => tick'.slices = {}
              /\ tick'.polls # {} => tick'.phase = "poll"
              /\ \A j \in S : job'[j].status \in Outcome \cup {"submitted"}
              /\ \A j \in Job \ S : job'[j] = job[j]
              /\ Writes
              /\ UNCHANGED <<disk, content, sends, kept, calledOff, unwritten, tooLate, crashes>>
<1>1. CASE Answered
  <2>1. PICK status \in {"submitted", "failed"} : PutBack(tick.sent, status, tick.sent)
    BY <1>1 DEF Answered
  <2> DEFINE t == [tick EXCEPT !.sent = {}]
  <2>7. tick.sent \notin tick.slices
    BY <1>1 DEF Answered, TickOK
  <2>8. tick.phase = "submit" /\ tick.polls = {}
    BY <1>1 DEF Answered, TickOK, TypeOK, Tick
  <2>2. /\ t \in Tick /\ t.phase = "submit" /\ t.sent = {} /\ t.polls = {}
        /\ t.slices = tick.slices \ {tick.sent} /\ tick.sent \in SUBSET Job
        /\ tick.phase = "submit"
    BY <2>7, <2>8 DEF Tick, TypeOK
  <2>3. /\ RunTo(t)
        /\ UNCHANGED <<disk, content, sends, kept, calledOff, unwritten, tooLate, crashes>>
    BY <1>1 DEF Answered, clients, faults
  <2>4. status \in Outcome \cup {"submitted"}
    BY DEF Outcome
  <2>5. /\ job' \in [Job -> Record]
        /\ \A j \in tick.sent : job'[j].status = status
        /\ \A j \in Job \ tick.sent : job'[j] = job[j]
    BY <2>1, <2>2, <2>4, PutsBack
  <2> HIDE DEF t
  <2>6. /\ tick'.slices = t.slices /\ tick'.sent = {}
        /\ tick'.phase # "submit" => t.slices = {}
        /\ tick'.polls # {} => tick'.phase = "poll"
        /\ Writes
    BY <2>2, <2>3, <2>5, RunsOn DEF Writes, TypeOK
  <2> QED  BY <2>2, <2>3, <2>4, <2>5, <2>6
<1>2. ASSUME NEW S \in tick.slices \cup {tick.sent}, SubmitFails(S)
      PROVE  \E R \in SUBSET Job :
              /\ R = tick.sent \/ (R \in tick.slices /\ tick.sent = {})
              /\ tick.phase = "submit"
              /\ tick'.slices = tick.slices \ {R} /\ tick'.sent = {}
              /\ tick'.phase # "submit" => tick'.slices = {}
              /\ tick'.polls # {} => tick'.phase = "poll"
              /\ \A j \in R : job'[j].status \in Outcome \cup {"submitted"}
              /\ \A j \in Job \ R : job'[j] = job[j]
              /\ Writes
              /\ UNCHANGED <<disk, content, sends, kept, calledOff, unwritten, tooLate, crashes>>
  <2> DEFINE t == [tick EXCEPT !.slices = @ \ {S}, !.sent = {}]
  <2>1. /\ t \in Tick /\ t.phase = "submit" /\ t.sent = {} /\ t.polls = {}
        /\ t.slices = tick.slices \ {S} /\ S \in SUBSET Job
        /\ tick.phase = "submit"
        /\ S = tick.sent \/ (S \in tick.slices /\ tick.sent = {})
    BY <1>2 DEF SubmitFails, Tick, TickOK, TypeOK
  <2>2. /\ RunTo(t) /\ PutBack(S, "dead_lettered", {})
        /\ UNCHANGED <<disk, content, sends, kept, calledOff, unwritten, tooLate, crashes>>
    BY <1>2 DEF SubmitFails, DeadLetters, clients
  <2>3. "dead_lettered" \in Outcome \cup {"submitted"} /\ {} \in SUBSET Job
    BY DEF Outcome
  <2>4. /\ job' \in [Job -> Record]
        /\ \A j \in S : job'[j].status = "dead_lettered"
        /\ \A j \in Job \ S : job'[j] = job[j]
    BY <2>1, <2>2, <2>3, PutsBack
  <2> HIDE DEF t
  <2>5. /\ tick'.slices = t.slices /\ tick'.sent = {}
        /\ tick'.phase # "submit" => t.slices = {}
        /\ tick'.polls # {} => tick'.phase = "poll"
        /\ Writes
    BY <2>1, <2>2, <2>4, RunsOn DEF Writes, TypeOK
  <2> QED  BY <2>1, <2>2, <2>3, <2>4, <2>5
<1> QED  BY <1>1, <1>2

\* A poll: jobs that were sent may end, and nothing is being submitted.
LEMMA AsksAfter ==
    ASSUME BatchAssumption, TypeOK, TickOK, NEW b \in tick.polls, Poll(b)
    PROVE  /\ tick.phase = "poll" /\ tick.slices = {} /\ tick.sent = {}
           /\ tick'.slices = {} /\ tick'.sent = {} /\ tick'.phase # "idle"
           /\ tick'.polls # {} => tick'.phase = "poll"
           /\ \A j \in Job : \/ job'[j] = job[j]
                             \/ /\ ~ Ended(job[j]) /\ job[j].batch = b
                                /\ job'[j].status \in Outcome \cup {job[j].status}
           /\ Writes
           /\ UNCHANGED <<disk, content, sends, kept, calledOff, unwritten, tooLate, crashes>>
<1> DEFINE t == [tick EXCEPT !.polls = @ \ {b}]
<1>1. /\ t \in Tick /\ t.phase = "poll" /\ t.slices = {} /\ t.sent = {}
      /\ tick.phase = "poll" /\ tick.slices = {} /\ tick.sent = {} /\ b \in SUBSET Job
  BY DEF Tick, TickOK, TypeOK
<1>2. /\ RunTo(t)
      /\ UNCHANGED <<disk, content, sends, kept, calledOff, unwritten, tooLate, crashes>>
  BY DEF Poll, Polled, clients
<1>3. /\ job' \in [Job -> Record]
      /\ \A j \in Job : \/ job'[j] = job[j]
                        \/ /\ ~ Ended(job[j]) /\ job[j].batch = b
                           /\ job'[j].status \in Outcome \cup {job[j].status}
  BY <1>1, Polls DEF Poll
<1> HIDE DEF t
<1>4. /\ tick'.slices = {} /\ tick'.sent = {} /\ tick'.phase # "idle"
      /\ tick'.polls # {} => tick'.phase = "poll"
      /\ Writes
  BY <1>1, <1>2, <1>3, RunsOn DEF Writes, TypeOK
<1> QED  BY <1>1, <1>2, <1>3, <1>4

(***************************************************************************)
(* Types.                                                                  *)
(***************************************************************************)
\* A request puts a write at the end of the queue.
LEMMA Requests ==
    ASSUME writes \in Seq(Write), NEW purpose \in {"create", "cancel"}, NEW j \in Job,
           Request(purpose, {j})
    PROVE  /\ writes' \in Seq(Write) /\ writes' # << >>
           /\ writes' = Append(writes, [for |-> purpose, about |-> {j}])
<1>1. [for |-> purpose, about |-> {j}] \in Write
  BY DEF Write
<1> QED  BY <1>1 DEF Request

LEMMA StartsWell == BatchAssumption /\ Init => TypeOK
BY DEF Init, TypeOK, BatchAssumption, Record, Absent, Status, Tick, NoTick, Write

\* Writes that come to an end.
LEMMA EndsWell ==
    ASSUME BatchAssumption, TypeOK, content # None, WriteEnds
    PROVE  /\ writes' \in Seq(Write) /\ content' = None /\ tick' \in Tick
           /\ Len(writes') = Len(writes) - 1
           /\ \A i \in 1 .. Len(writes') : writes'[i] = writes[i + 1]
           /\ Head(writes) = writes[1] /\ writes[1] \in Write
<1>1. writes # << >> /\ writes \in Seq(Write)
  BY DEF TypeOK
<1>2. NoTick \in Tick
  BY DEF NoTick, Tick
<1>3. tick' \in Tick /\ content' = None
  BY <1>2 DEF WriteEnds, TypeOK
<1>4. writes' = Tail(writes)
  BY DEF WriteEnds
<1> QED  BY <1>1, <1>3, <1>4

LEMMA KeepsType ==
    ASSUME BatchAssumption, TypeOK, TickOK, [Next]_vars
    PROVE  TypeOK'
<1> USE DEF TypeOK
<1>1. ASSUME NEW j \in Job, CreateJob(j)  PROVE TypeOK'
  <2>1. job' \in [Job -> Record]
    BY <1>1, Changes DEF CreateJob
  <2> QED  BY <1>1, <2>1, Requests DEF CreateJob, clients, faults
<1>2. ASSUME NEW j \in Job, CancelJob(j)  PROVE TypeOK'
  <2>1. job' \in [Job -> Record] /\ tooLate' \subseteq Job
    BY <1>2, Changes DEF CancelJob
  <2> QED  BY <1>2, <2>1, Requests DEF CancelJob, clients, faults
<1>3. ASSUME NEW due \in SUBSET Queued, StartTick(due)  PROVE TypeOK'
  <2>1. PICK P \in SUBSET SUBSET Queued :
            RunTo([NoTick EXCEPT !.phase = "submit", !.slices = P])
    BY <1>3, Starts
  <2> DEFINE t == [NoTick EXCEPT !.phase = "submit", !.slices = P]
  <2>2. t \in Tick /\ t.phase \in {"submit", "poll"}
    BY <2>1 DEF NoTick, Tick, Queued
  <2>3. job' = job
    BY <1>3 DEF StartTick
  <2> HIDE DEF t
  <2>4. tick' \in Tick /\ writes' \in Seq(Write) /\ (writes # << >> => writes' # << >>)
    BY <2>1, <2>2, <2>3, RunsOn DEF t
  <2> QED  BY <1>3, <2>3, <2>4 DEF StartTick, clients, faults
<1>4. ASSUME NEW S \in tick.slices, Accepted(S)  PROVE TypeOK'
  <2>1. tick' \in Tick
    BY <1>4 DEF Accepted, Tick
  <2>2. sends' \in [Job -> Nat]
    BY <1>4 DEF Accepted
  <2>3. UNCHANGED <<job, disk, writes, content, kept, calledOff, unwritten, tooLate, failures, crashes>>
    BY <1>4 DEF Accepted, clients, faults
  <2> QED  BY <2>1, <2>2, <2>3
<1>5. ASSUME NEW S \in SUBSET Job, NEW status \in Outcome \cup {"submitted"}, NEW batch \in SUBSET Job,
             PutBack(S, status, batch), NEW t \in Tick, t.phase \in {"submit", "poll"}, RunTo(t),
             failures' \in 0 .. MaxFailures,
             UNCHANGED <<disk, content, sends, kept, calledOff, unwritten, tooLate, crashes>>
      PROVE  TypeOK'
  <2>1. job' \in [Job -> Record]
    BY <1>5, PutsBack
  <2>2. tick' \in Tick /\ writes' \in Seq(Write) /\ (writes # << >> => writes' # << >>)
    BY <1>5, <2>1, RunsOn
  <2> QED  BY <1>5, <2>1, <2>2
<1>6. CASE Answered
  <2>1. PICK status \in {"submitted", "failed"} : PutBack(tick.sent, status, tick.sent)
    BY <1>6 DEF Answered
  <2>2. /\ [tick EXCEPT !.sent = {}] \in Tick
        /\ [tick EXCEPT !.sent = {}].phase \in {"submit", "poll"}
    BY <1>6 DEF Answered, Tick, TickOK
  <2>3. /\ RunTo([tick EXCEPT !.sent = {}]) /\ failures' = failures
        /\ UNCHANGED <<disk, content, sends, kept, calledOff, unwritten, tooLate, crashes>>
    BY <1>6 DEF Answered, clients, faults
  <2>4. tick.sent \in SUBSET Job /\ status \in Outcome \cup {"submitted"}
    BY DEF Tick, Outcome
  <2> QED  BY <1>5, <2>1, <2>2, <2>3, <2>4
<1>7. ASSUME NEW S \in tick.slices \cup {tick.sent}, SubmitFails(S)  PROVE TypeOK'
  <2> DEFINE t == [tick EXCEPT !.slices = @ \ {S}, !.sent = {}]
  <2>1. t \in Tick /\ t.phase \in {"submit", "poll"}
    BY <1>7 DEF SubmitFails, Tick, TickOK
  <2>2. /\ RunTo(t) /\ failures' \in 0 .. MaxFailures /\ PutBack(S, "dead_lettered", {})
        /\ UNCHANGED <<disk, content, sends, kept, calledOff, unwritten, tooLate, crashes>>
    BY <1>7 DEF SubmitFails, DeadLetters, clients, BatchAssumption
  <2>3. S \in SUBSET Job /\ "dead_lettered" \in Outcome \cup {"submitted"} /\ {} \in SUBSET Job
    BY DEF Tick, Outcome
  <2> HIDE DEF t
  <2> QED  BY <1>5, <2>1, <2>2, <2>3
<1>8. ASSUME NEW b \in tick.polls, Poll(b)  PROVE TypeOK'
  <2>1. job' \in [Job -> Record] /\ failures' \in 0 .. MaxFailures
    BY <1>8, Polls DEF Poll, Tick
  <2>2. [tick EXCEPT !.polls = @ \ {b}] \in Tick
    BY DEF Tick
  <2>3. /\ RunTo([tick EXCEPT !.polls = @ \ {b}])
        /\ UNCHANGED <<disk, content, sends, kept, calledOff, unwritten, tooLate, crashes>>
    BY <1>8 DEF Poll, Polled, clients
  <2>4. [tick EXCEPT !.polls = @ \ {b}].phase \in {"submit", "poll"}
    BY <1>8 DEF Tick, TickOK
  <2>5. tick' \in Tick /\ writes' \in Seq(Write) /\ (writes # << >> => writes' # << >>)
    BY <1>8, <2>1, <2>2, <2>3, <2>4, RunsOn
  <2> QED  BY <2>1, <2>3, <2>5
<1>9. CASE WriteStarts
  BY <1>9 DEF WriteStarts, clients, faults
<1>10. CASE WriteLands
  <2>1. disk' \in [Job -> Record]
    BY <1>10 DEF WriteLands
  <2>2. kept' \subseteq Job /\ calledOff' \subseteq Job /\ unwritten' \subseteq calledOff'
    BY <1>10, EndsWell DEF WriteLands, Acknowledge, InTime, Written, Write
  <2> QED  BY <1>10, <2>1, <2>2, EndsWell DEF WriteLands, faults
<1>11. CASE WriteFails
  BY <1>11, EndsWell DEF WriteFails, Written, BatchAssumption
<1>12. CASE Restart
  <2>1. disk' \in [Job -> Record]
    BY <1>12 DEF Restart
  <2>2. NoTick \in Tick
    BY DEF NoTick, Tick
  <2> QED  BY <1>12, <2>1, <2>2 DEF Restart, Written, BatchAssumption
<1>13. ASSUME NEW j \in Job, CancelAgain(j)  PROVE TypeOK'
  <2>1. /\ calledOff' \subseteq Job /\ unwritten' \subseteq calledOff'
        /\ UNCHANGED <<job, disk, writes, content, tick, sends, kept, tooLate, failures, crashes>>
    BY <1>13 DEF CancelAgain, InTime, faults
  <2> QED  BY <2>1
<1>14. CASE UNCHANGED vars
  BY <1>14 DEF vars, clients, faults
<1> QED
  BY <1>1, <1>2, <1>3, <1>4, <1>6, <1>7, <1>8, <1>9, <1>10, <1>11, <1>12, <1>13, <1>14
     DEF Next, TickGoesOn

(***************************************************************************)
(* The tick and the sending.                                               *)
(***************************************************************************)
\* A tick that has not asked for its write may ask for it once.
LEMMA AsksOnce ==
    ASSUME writes \in Seq(Write), WriterOK, tick.phase # "write", Writes
    PROVE  WriterOK'
<1>1. \A i \in 1 .. Len(writes) : writes[i].for # "tick"
  BY DEF WriterOK
<1>2. CASE writes' = writes
  BY <1>1, <1>2 DEF WriterOK
<1>3. CASE /\ writes' = Append(writes, [for |-> "tick", about |-> {}])
           /\ tick'.phase = "write"
  <2>1. /\ Len(writes') = Len(writes) + 1
        /\ \A i \in 1 .. Len(writes) : writes'[i] = writes[i]
    BY <1>3
  <2>2. \A i \in 1 .. Len(writes') : writes'[i].for = "tick" => i = Len(writes')
    BY <1>1, <2>1
  <2> QED  BY <1>3, <2>2 DEF WriterOK
<1> QED  BY <1>2, <1>3 DEF Writes

\* The queue holds the same writes after one of a client, or one less.
LEMMA WritesOfOthers ==
    ASSUME BatchAssumption, TypeOK, TickOK,
           \/ /\ \E purpose \in {"create", "cancel"}, j \in Job : Request(purpose, {j})
              /\ tick' = tick
           \/ content # None /\ WriteEnds
    PROVE  WriterOK' /\ (tick' = tick \/ tick' = NoTick)
<1>1. ASSUME NEW purpose \in {"create", "cancel"}, NEW j \in Job, Request(purpose, {j}), tick' = tick
      PROVE  WriterOK'
  <2> DEFINE w == [for |-> purpose, about |-> {j}]
  <2>3. writes' = Append(writes, w) /\ w.for # "tick"
    BY <1>1, Requests DEF TypeOK
  <2> HIDE DEF w
  <2>1. /\ Len(writes') = Len(writes) + 1 /\ Len(writes) \in Nat
        /\ \A i \in 1 .. Len(writes) : writes'[i] = writes[i]
        /\ writes'[Len(writes')].for # "tick"
    BY <2>3 DEF TypeOK
  <2>2. \A i \in 1 .. Len(writes') : writes'[i].for = "tick" => i \in 1 .. Len(writes)
    BY <2>1 DEF TypeOK
  <2> QED  BY <1>1, <2>1, <2>2 DEF WriterOK, TickOK
<1>2. CASE content # None /\ WriteEnds
  <2>1. /\ Len(writes') = Len(writes) - 1
        /\ \A i \in 1 .. Len(writes') : writes'[i] = writes[i + 1]
        /\ Head(writes) = writes[1] /\ Len(writes) \in Nat /\ Len(writes) > 0
    BY <1>2, EndsWell DEF TypeOK
  <2>2. \A i \in 1 .. Len(writes') : i + 1 \in 1 .. Len(writes) /\ i + 1 # 1
    BY <2>1
  <2>3. tick' = IF writes[1].for = "tick" THEN NoTick ELSE tick
    BY <1>2, <2>1 DEF WriteEnds
  <2>4. CASE writes[1].for = "tick"
    <3>1. \A i \in 1 .. Len(writes') : writes'[i].for # "tick"
      BY <2>1, <2>2, <2>4 DEF WriterOK, TickOK
    <3> QED  BY <2>3, <2>4, <3>1 DEF WriterOK
  <2>5. CASE writes[1].for # "tick"
    <3>1. \A i \in 1 .. Len(writes') : writes'[i].for = "tick" =>
             /\ tick.phase = "write"
             /\ \A k \in 1 .. Len(writes) : writes[k].for = "tick" => k = i + 1
      BY <2>1, <2>2 DEF WriterOK, TickOK
    <3>2. \A i \in 1 .. Len(writes') : writes'[i].for = "tick" =>
             \A k \in 1 .. Len(writes') : writes'[k].for = "tick" => k = i
      BY <2>1, <2>2, <3>1
    <3> QED  BY <2>3, <2>5, <3>1, <3>2 DEF WriterOK
  <2> QED  BY <2>3, <2>4, <2>5
<1> QED  BY <1>1, <1>2 DEF WriteEnds

LEMMA KeepsTick ==
    ASSUME BatchAssumption, TypeOK, TickOK, [Next]_vars
    PROVE  TickOK'
<1>1. ASSUME NEW j \in Job, CreateJob(j) \/ CancelJob(j)  PROVE TickOK'
  <2>1. tick' = tick /\ \E purpose \in {"create", "cancel"} : Request(purpose, {j})
    BY <1>1 DEF CreateJob, CancelJob
  <2> QED  BY <2>1, WritesOfOthers DEF TickOK
<1>2. ASSUME NEW due \in SUBSET Queued, StartTick(due)  PROVE TickOK'
  <2>1. PICK P \in SUBSET SUBSET Queued :
            /\ \A S, T \in P : S # T => S \cap T = {}
            /\ RunTo([NoTick EXCEPT !.phase = "submit", !.slices = P])
    BY <1>2, Starts
  <2> DEFINE t == [NoTick EXCEPT !.phase = "submit", !.slices = P]
  <2>2. t \in Tick /\ t.phase = "submit" /\ t.slices = P /\ t.sent = {} /\ t.polls = {}
    BY <2>1 DEF NoTick, Tick, Queued
  <2>3. job' \in [Job -> Record] /\ tick.phase # "write"
    BY <1>2 DEF StartTick, TypeOK
  <2> HIDE DEF t
  <2>4. /\ tick'.slices = P /\ tick'.sent = {}
        /\ tick'.phase # "submit" => P = {}
        /\ tick'.polls # {} => tick'.phase = "poll"
        /\ Writes
    BY <2>1, <2>2, <2>3, RunsOn DEF Writes, TypeOK, t
  <2>5. WriterOK'
    BY <2>3, <2>4, AsksOnce DEF TickOK, TypeOK
  <2> QED  BY <2>1, <2>4, <2>5 DEF TickOK
<1>3. ASSUME NEW S \in tick.slices, Accepted(S)  PROVE TickOK'
  <2>1. /\ tick'.slices = tick.slices \ {S} /\ tick'.sent = S
        /\ tick'.phase = tick.phase /\ tick'.polls = tick.polls /\ writes' = writes
    BY <1>3 DEF Accepted, TypeOK, Tick
  <2> QED  BY <1>3, <2>1 DEF TickOK, WriterOK
<1>4. CASE Answered \/ \E S \in tick.slices \cup {tick.sent} : SubmitFails(S)
  <2>1. PICK S \in SUBSET Job :
            /\ tick.phase = "submit"
            /\ tick'.slices = tick.slices \ {S} /\ tick'.sent = {}
            /\ tick'.phase # "submit" => tick'.slices = {}
            /\ tick'.polls # {} => tick'.phase = "poll"
            /\ Writes
    BY <1>4, Submits
  <2>2. WriterOK'
    BY <2>1, AsksOnce DEF TickOK, TypeOK
  <2> QED  BY <2>1, <2>2 DEF TickOK
<1>5. ASSUME NEW b \in tick.polls, Poll(b)  PROVE TickOK'
  <2>1. /\ tick.phase = "poll" /\ tick'.slices = {} /\ tick'.sent = {}
        /\ tick'.polls # {} => tick'.phase = "poll"
        /\ Writes
    BY <1>5, AsksAfter
  <2>2. WriterOK'
    BY <2>1, AsksOnce DEF TickOK, TypeOK
  <2> QED  BY <2>1, <2>2 DEF TickOK
<1>6. CASE WriteStarts \/ (\E j \in Job : CancelAgain(j)) \/ UNCHANGED vars
  BY <1>6 DEF WriteStarts, CancelAgain, vars, TickOK, WriterOK
<1>7. CASE WriteLands \/ WriteFails
  <2>1. WriterOK' /\ (tick' = tick \/ tick' = NoTick)
    BY <1>7, WritesOfOthers DEF WriteLands, WriteFails
  <2> QED  BY <2>1 DEF TickOK, NoTick
<1>8. CASE Restart
  BY <1>8 DEF Restart, TickOK, WriterOK, NoTick
<1> QED
  BY <1>1, <1>2, <1>3, <1>4, <1>5, <1>6, <1>7, <1>8 DEF Next, TickGoesOn

LEMMA KeepsSends ==
    ASSUME BatchAssumption, TypeOK, TickOK, SendsOK, [Next]_vars
    PROVE  SendsOK'
<1> USE DEF SendsOK
<1>1. ASSUME NEW j \in Job, CreateJob(j)  PROVE SendsOK'
  <2>1. \A k \in Job \ {j} : job'[k] = job[k]
    BY <1>1, Changes DEF CreateJob
  <2>2. sends[j] <= crashes /\ UNCHANGED <<tick, sends, crashes>>
    BY <1>1 DEF CreateJob, TypeOK, faults
  <2> QED  BY <2>1, <2>2
<1>2. ASSUME NEW j \in Job, CancelJob(j)  PROVE SendsOK'
  <2>1. /\ job'[j].status = "cancelled" /\ \A k \in Job \ {j} : job'[k] = job[k]
        /\ UNCHANGED <<tick, sends, crashes>>
    BY <1>2, Changes DEF CancelJob, faults
  <2> QED  BY <2>1
<1>3. ASSUME NEW due \in SUBSET Queued, StartTick(due)  PROVE SendsOK'
  <2>1. PICK P \in SUBSET SUBSET Queued :
            RunTo([NoTick EXCEPT !.phase = "submit", !.slices = P])
    BY <1>3, Starts
  <2> DEFINE t == [NoTick EXCEPT !.phase = "submit", !.slices = P]
  <2>2. t \in Tick /\ t.phase = "submit" /\ t.slices = P /\ t.sent = {}
    BY <2>1 DEF NoTick, Tick, Queued
  <2>3. job' \in [Job -> Record] /\ tick.sent = {} /\ UNCHANGED <<job, sends, crashes>>
    BY <1>3 DEF StartTick, TypeOK, TickOK, faults
  <2> HIDE DEF t
  <2>4. tick'.slices = P /\ tick'.sent = {}
    BY <2>1, <2>2, <2>3, RunsOn DEF TypeOK, t
  <2> QED  BY <2>3, <2>4 DEF Queued
<1>4. ASSUME NEW S \in tick.slices, Accepted(S)  PROVE SendsOK'
  <2>1. /\ tick'.slices = tick.slices \ {S} /\ tick'.sent = S /\ tick.sent = {}
        /\ UNCHANGED <<job, crashes>>
    BY <1>4 DEF Accepted, TypeOK, Tick, faults
  <2>2. /\ \A j \in S : sends[j] <= crashes /\ sends'[j] = sends[j] + 1
        /\ \A j \in Job \ S : sends'[j] = sends[j]
    BY <1>4 DEF Accepted, TypeOK, Tick
  <2>3. \A T \in tick'.slices : T \cap S = {} /\ T \in SUBSET Job
    BY <1>4, <2>1 DEF TickOK, TypeOK, Tick
  <2> QED  BY <2>1, <2>2, <2>3 DEF TypeOK
<1>5. CASE Answered \/ \E S \in tick.slices \cup {tick.sent} : SubmitFails(S)
  <2>1. PICK S \in SUBSET Job :
            /\ S = tick.sent \/ (S \in tick.slices /\ tick.sent = {})
            /\ tick'.slices = tick.slices \ {S} /\ tick'.sent = {}
            /\ \A j \in S : job'[j].status \in Outcome \cup {"submitted"}
            /\ \A j \in Job \ S : job'[j] = job[j]
            /\ UNCHANGED <<sends, crashes>>
    BY <1>5, Submits
  <2>2. \A j \in S : job'[j].status # "queued"
    BY <2>1 DEF Outcome
  <2> QED  BY <2>1, <2>2
<1>6. ASSUME NEW b \in tick.polls, Poll(b)  PROVE SendsOK'
  <2>1. /\ tick.sent = {} /\ tick'.slices = {} /\ tick'.sent = {}
        /\ \A j \in Job : \/ job'[j] = job[j]
                          \/ job'[j].status \in Outcome \cup {job[j].status}
        /\ UNCHANGED <<sends, crashes>>
    BY <1>6, AsksAfter
  <2>2. \A j \in Job : job'[j].status = "queued" => job[j].status = "queued"
    BY <2>1 DEF Outcome
  <2> QED  BY <2>1, <2>2
<1>7. CASE WriteStarts \/ (\E j \in Job : CancelAgain(j)) \/ UNCHANGED vars
  BY <1>7 DEF WriteStarts, CancelAgain, vars, faults
<1>8. CASE WriteLands \/ WriteFails
  <2>1. /\ tick' = tick \/ (tick' = NoTick /\ tick.phase = "write")
        /\ UNCHANGED <<job, sends, crashes>>
    BY <1>8, EndsWell DEF WriteLands, WriteFails, WriteEnds, faults, TickOK, WriterOK, TypeOK
  <2>2. CASE tick' = NoTick /\ tick.phase = "write"
    <3>1. tick.slices = {} /\ tick.sent = {}
      BY <2>2 DEF TickOK
    <3>2. tick'.slices = {} /\ tick'.sent = {}
      BY <2>2 DEF NoTick
    <3> QED  BY <2>1, <3>1, <3>2
  <2> QED  BY <2>1, <2>2
<1>9. CASE Restart
  <2>1. /\ tick'.slices = {} /\ tick'.sent = {} /\ sends' = sends /\ crashes' = crashes + 1
    BY <1>9 DEF Restart, NoTick
  <2> QED  BY <2>1 DEF TypeOK
<1> QED
  BY <1>1, <1>2, <1>3, <1>4, <1>5, <1>6, <1>7, <1>8, <1>9 DEF Next, TickGoesOn

\* What it is to be copied, before a step and after it.
LEMMA CopiedMeans ==
    /\ \A j \in Job : j \in Copied <=> j \in tick.sent \/ \E S \in tick.slices : j \in S
    /\ \A j \in Job : j \in Copied' <=> j \in tick'.sent \/ \E S \in tick'.slices : j \in S
    /\ Copied \subseteq Job /\ Copied' \subseteq Job
BY DEF Copied

LEMMA KeepsCopies ==
    ASSUME BatchAssumption, TypeOK, TickOK, CopiesOK, [Next]_vars
    PROVE  CopiesOK'
<1> USE DEF CopiesOK
<1>1. ASSUME NEW j \in Job, CreateJob(j)  PROVE CopiesOK'
  <2>1. /\ job'[j].status = "queued" /\ \A k \in Job \ {j} : job'[k] = job[k]
        /\ UNCHANGED <<tick, tooLate>>
    BY <1>1, Changes DEF CreateJob
  <2> QED  BY <2>1, CopiedMeans
<1>2. ASSUME NEW j \in Job, CancelJob(j)  PROVE CopiesOK'
  <2>1. /\ \A k \in Job \ {j} : job'[k] = job[k]
        /\ tick' = tick
        /\ tooLate' = IF j \in Copied THEN tooLate \cup {j} ELSE tooLate
    BY <1>2, Changes DEF CancelJob
  <2> QED  BY <2>1, CopiedMeans
<1>3. ASSUME NEW due \in SUBSET Queued, StartTick(due)  PROVE CopiesOK'
  <2>1. PICK P \in SUBSET SUBSET Queued :
            RunTo([NoTick EXCEPT !.phase = "submit", !.slices = P])
    BY <1>3, Starts
  <2> DEFINE t == [NoTick EXCEPT !.phase = "submit", !.slices = P]
  <2>2. t \in Tick /\ t.phase = "submit" /\ t.slices = P /\ t.sent = {}
    BY <2>1 DEF NoTick, Tick, Queued
  <2>3. job' \in [Job -> Record] /\ UNCHANGED <<job, tooLate>>
    BY <1>3 DEF StartTick, TypeOK
  <2> HIDE DEF t
  <2>4. tick'.slices = P /\ tick'.sent = {}
    BY <2>1, <2>2, <2>3, RunsOn DEF TypeOK, t
  <2> QED  BY <2>3, <2>4, CopiedMeans DEF Queued
<1>4. ASSUME NEW S \in tick.slices, Accepted(S)  PROVE CopiesOK'
  <2>1. /\ tick'.slices = tick.slices \ {S} /\ tick'.sent = S
        /\ UNCHANGED <<job, tooLate>>
    BY <1>4 DEF Accepted, TypeOK, Tick
  <2>2. Copied' \subseteq Copied /\ Copied \subseteq Job
    BY <2>1, CopiedMeans
  <2> QED  BY <2>1, <2>2
<1>5. CASE Answered \/ \E S \in tick.slices \cup {tick.sent} : SubmitFails(S)
  <2>1. PICK S \in SUBSET Job :
            /\ S = tick.sent \/ (S \in tick.slices /\ tick.sent = {})
            /\ tick'.slices = tick.slices \ {S} /\ tick'.sent = {}
            /\ \A j \in Job \ S : job'[j] = job[j]
            /\ tooLate' = tooLate
    BY <1>5, Submits
  <2>2. \A T \in tick'.slices : T \in tick.slices /\ T \cap S = {}
    BY <2>1 DEF TickOK
  <2>3. Copied' \subseteq Copied \ S /\ Copied \subseteq Job
    BY <2>1, <2>2, CopiedMeans
  <2> QED  BY <2>1, <2>3
<1>6. ASSUME NEW b \in tick.polls, Poll(b)  PROVE CopiesOK'
  <2>1. tick'.slices = {} /\ tick'.sent = {}
    BY <1>6, AsksAfter
  <2> QED  BY <2>1 DEF Copied
<1>7. CASE WriteStarts \/ (\E j \in Job : CancelAgain(j)) \/ UNCHANGED vars
  BY <1>7 DEF WriteStarts, CancelAgain, vars, Copied
<1>8. CASE WriteLands \/ WriteFails
  <2>1. (tick' = tick \/ tick' = NoTick) /\ UNCHANGED <<job, tooLate>>
    BY <1>8 DEF WriteLands, WriteFails, WriteEnds
  <2> QED  BY <2>1 DEF Copied, NoTick
<1>9. CASE Restart
  BY <1>9 DEF Restart, NoTick, Copied
<1> QED
  BY <1>1, <1>2, <1>3, <1>4, <1>5, <1>6, <1>7, <1>8, <1>9 DEF Next, TickGoesOn

(***************************************************************************)
(* The jobs, their file and the clients.                                   *)
(***************************************************************************)
\* The steps that leave the file and the write under way alone, and what a
\* client was told.
Working ==
    \/ \E j \in Job : CreateJob(j) \/ CancelJob(j)
    \/ \E due \in SUBSET Queued : StartTick(due)
    \/ TickGoesOn
    \/ UNCHANGED vars

\* They end no job twice, forget none, and call none too late that has ended.
LEMMA JobsStand ==
    ASSUME BatchAssumption, TypeOK, TickOK, CopiesOK, Working
    PROVE  /\ \A j \in Job \ tooLate' : Ended(job[j]) => job'[j] = job[j]
           /\ \A j \in Job : Known(job[j]) => Known(job'[j])
           /\ tooLate \subseteq tooLate'
           /\ UNCHANGED <<disk, content, kept, calledOff, unwritten, crashes>>
<1> USE DEF Known
<1>1. ASSUME NEW j \in Job, CreateJob(j)
      PROVE  /\ \A k \in Job : Ended(job[k]) => job'[k] = job[k]
             /\ \A k \in Job : Known(job[k]) => Known(job'[k])
             /\ UNCHANGED <<tooLate, disk, content, kept, calledOff, unwritten, crashes>>
  <2>1. /\ job'[j].status = "queued" /\ \A k \in Job \ {j} : job'[k] = job[k]
        /\ UNCHANGED <<tooLate, disk, content, kept, calledOff, unwritten, crashes>>
    BY <1>1, Changes DEF CreateJob, clients, faults
  <2>2. job[j].status = "none"
    BY <1>1 DEF CreateJob, Absent
  <2> QED  BY <2>1, <2>2 DEF Ended, Outcome
<1>2. ASSUME NEW j \in Job, CancelJob(j)
      PROVE  /\ \A k \in Job : Ended(job[k]) => job'[k] = job[k]
             /\ \A k \in Job : Known(job[k]) => Known(job'[k])
             /\ tooLate \subseteq tooLate'
             /\ UNCHANGED <<disk, content, kept, calledOff, unwritten, crashes>>
  <2>1. /\ job'[j].status = "cancelled" /\ \A k \in Job \ {j} : job'[k] = job[k]
        /\ job[j].status = "queued" /\ tooLate \subseteq tooLate'
        /\ UNCHANGED <<disk, content, kept, calledOff, unwritten, crashes>>
    BY <1>2, Changes DEF CancelJob, clients, faults
  <2> QED  BY <2>1 DEF Ended, Outcome
<1>3. CASE \E due \in SUBSET Queued : StartTick(due)
  BY <1>3 DEF StartTick, clients, faults
<1>4. ASSUME NEW S \in tick.slices, Accepted(S)
      PROVE  UNCHANGED <<job, tooLate, disk, content, kept, calledOff, unwritten, crashes>>
  BY <1>4 DEF Accepted, clients, faults
<1>5. CASE Answered \/ \E S \in tick.slices \cup {tick.sent} : SubmitFails(S)
  <2>1. PICK S \in SUBSET Job :
            /\ S = tick.sent \/ (S \in tick.slices /\ tick.sent = {})
            /\ \A j \in S : job'[j].status \in Outcome \cup {"submitted"}
            /\ \A j \in Job \ S : job'[j] = job[j]
            /\ UNCHANGED <<disk, content, kept, calledOff, unwritten, tooLate, crashes>>
    BY <1>5, Submits
  <2>2. \A j \in S : j \in tooLate \/ job[j].status = "queued"
    BY <2>1, CopiedMeans DEF CopiesOK
  <2>3. \A j \in S : job'[j].status # "none"
    BY <2>1 DEF Outcome
  <2> QED  BY <2>1, <2>2, <2>3 DEF Ended, Outcome
<1>6. ASSUME NEW b \in tick.polls, Poll(b)
      PROVE  /\ \A k \in Job : Ended(job[k]) => job'[k] = job[k]
             /\ \A k \in Job : Known(job[k]) => Known(job'[k])
             /\ UNCHANGED <<tooLate, disk, content, kept, calledOff, unwritten, crashes>>
  <2>1. /\ \A j \in Job : \/ job'[j] = job[j]
                          \/ /\ ~ Ended(job[j])
                             /\ job'[j].status \in Outcome \cup {job[j].status}
        /\ UNCHANGED <<disk, content, kept, calledOff, unwritten, tooLate, crashes>>
    BY <1>6, AsksAfter
  <2> QED  BY <2>1 DEF Outcome
<1>7. CASE UNCHANGED vars
  BY <1>7 DEF vars, clients, faults
<1> QED
  BY <1>1, <1>2, <1>3, <1>4, <1>5, <1>6, <1>7 DEF Working, TickGoesOn

\* They ask only for writes whose purpose memory serves.
LEMMA WritesCovered ==
    ASSUME BatchAssumption, TypeOK, TickOK, Working
    PROVE  \/ writes' = writes
           \/ \E w \in Write : writes' = Append(writes, w) /\ Covered(w, job', tooLate')
<1>1. ASSUME NEW j \in Job, CreateJob(j) \/ CancelJob(j)
      PROVE  \E w \in Write : writes' = Append(writes, w) /\ Covered(w, job', tooLate')
  <2>1. PICK purpose \in {"create", "cancel"} :
            /\ Request(purpose, {j})
            /\ job'[j].status = IF purpose = "create" THEN "queued" ELSE "cancelled"
    BY <1>1, Changes DEF CreateJob, CancelJob
  <2> DEFINE w == [for |-> purpose, about |-> {j}]
  <2>2. w \in Write /\ writes' = Append(writes, w)
    BY <2>1 DEF Write, Request
  <2>3. Covered(w, job', tooLate')
    BY <2>1 DEF Covered, Known
  <2> QED  BY <2>2, <2>3
<1>2. ASSUME Writes
      PROVE  \/ writes' = writes
             \/ \E w \in Write : writes' = Append(writes, w) /\ Covered(w, job', tooLate')
  <2> DEFINE w == [for |-> "tick", about |-> {}]
  <2>1. w \in Write /\ Covered(w, job', tooLate')
    BY DEF Write, Covered
  <2> QED  BY <1>2, <2>1 DEF Writes
<1>3. ASSUME NEW due \in SUBSET Queued, StartTick(due)  PROVE Writes
  <2>1. PICK P \in SUBSET SUBSET Queued :
            RunTo([NoTick EXCEPT !.phase = "submit", !.slices = P])
    BY <1>3, Starts
  <2> DEFINE t == [NoTick EXCEPT !.phase = "submit", !.slices = P]
  <2>2. t \in Tick /\ t.phase = "submit" /\ job' \in [Job -> Record]
    BY <1>3, <2>1 DEF NoTick, Tick, Queued, StartTick, TypeOK
  <2> HIDE DEF t
  <2> QED  BY <2>1, <2>2, RunsOn DEF TypeOK, Writes, t
<1>4. CASE TickGoesOn
  BY <1>2, <1>4, Submits, AsksAfter DEF TickGoesOn, Accepted
<1>5. CASE UNCHANGED vars
  BY <1>5 DEF vars
<1> QED  BY <1>1, <1>2, <1>3, <1>4, <1>5 DEF Working

LEMMA KeepsFile ==
    ASSUME BatchAssumption, TypeOK, TickOK, CopiesOK, FileOK, [Next]_vars
    PROVE  FileOK'
<1>1. CASE Working
  BY <1>1, JobsStand DEF FileOK, Ended
<1>2. CASE WriteStarts \/ \E j \in Job : CancelAgain(j)
  BY <1>2 DEF WriteStarts, CancelAgain, FileOK, Ended
<1>3. CASE WriteLands \/ WriteFails
  <2>1. content # None /\ content' = None /\ disk' \in {disk, content} /\ UNCHANGED <<job, tooLate>>
    BY <1>3 DEF WriteLands, WriteFails, WriteEnds
  <2> QED  BY <2>1 DEF FileOK, Ended
<1>4. CASE Restart
  BY <1>4 DEF Restart, FileOK, Ended
<1> QED  BY <1>1, <1>2, <1>3, <1>4 DEF Next, Working

LEMMA KeepsHeard ==
    ASSUME BatchAssumption, TypeOK, TickOK, CopiesOK, FileOK, HeardOK, [Next]_vars
    PROVE  HeardOK'
<1>1. CASE Working
  <2>1. /\ \A j \in Job \ tooLate' : Ended(job[j]) => job'[j] = job[j]
        /\ \A j \in Job : Known(job[j]) => Known(job'[j])
        /\ tooLate \subseteq tooLate'
        /\ UNCHANGED <<disk, content, kept, calledOff, unwritten, crashes>>
    BY <1>1, JobsStand
  <2>2. ASSUME NEW w \in Write, Covered(w, job, tooLate)  PROVE Covered(w, job', tooLate')
    <3>1. w.about \subseteq Job
      BY DEF Write
    <3> QED  BY <2>1, <2>2, <3>1 DEF Covered, Ended, Outcome
  <2>3. /\ \A i \in 1 .. Len(writes') : Covered(writes'[i], job', tooLate')
        /\ content # None => writes'[1] = writes[1]
    <3>1. CASE writes' = writes
      <4>1. \A i \in 1 .. Len(writes) : writes[i] \in Write /\ Covered(writes[i], job, tooLate)
        BY DEF TypeOK, HeardOK
      <4> QED  BY <2>2, <3>1, <4>1
    <3>2. ASSUME NEW w \in Write, writes' = Append(writes, w), Covered(w, job', tooLate')
          PROVE  /\ \A i \in 1 .. Len(writes') : Covered(writes'[i], job', tooLate')
                 /\ content # None => writes'[1] = writes[1]
      <4>1. \A i \in 1 .. Len(writes) : writes[i] \in Write /\ Covered(writes[i], job, tooLate)
        BY DEF TypeOK, HeardOK
      <4>2. /\ Len(writes') = Len(writes) + 1 /\ Len(writes) \in Nat
            /\ \A i \in 1 .. Len(writes) : writes'[i] = writes[i]
            /\ writes'[Len(writes) + 1] = w
            /\ content # None => Len(writes) > 0
        BY <3>2 DEF TypeOK
      <4>3. \A i \in 1 .. Len(writes) : Covered(writes[i], job', tooLate')
        BY <2>2, <4>1
      <4>4. ASSUME NEW i \in 1 .. Len(writes')  PROVE Covered(writes'[i], job', tooLate')
        BY <3>2, <4>2, <4>3
      <4> QED  BY <4>2, <4>4
    <3> QED  BY <1>1, <3>1, <3>2, WritesCovered
  <2>4. content # None => Covered(writes'[1], content', tooLate')
    BY <2>1, <2>3 DEF HeardOK, Covered
  <2>5. HeardIsKept'
    <3>1. kept \subseteq Job /\ calledOff \subseteq Job
      BY DEF TypeOK
    <3>2. HeardIsKept
      BY DEF HeardOK
    <3> QED  BY <2>1, <3>1, <3>2 DEF HeardIsKept, Ended, Outcome
  <2>6. /\ \A j \in Job : Known(disk'[j]) => Known(job'[j]) /\ (content' # None => Known(content'[j]))
        /\ content' # None => \A j \in Job : Known(content'[j]) => Known(job'[j])
    BY <2>1 DEF HeardOK
  <2> QED  BY <2>1, <2>3, <2>4, <2>5, <2>6 DEF HeardOK, Known
<1>2. CASE WriteStarts
  <2>1. 1 \in 1 .. Len(writes)
    BY <1>2 DEF WriteStarts, TypeOK
  <2>2. content' = job /\ UNCHANGED <<job, disk, writes, kept, calledOff, unwritten, tooLate, crashes>>
    BY <1>2 DEF WriteStarts, clients, faults
  <2> QED  BY <2>1, <2>2 DEF HeardOK, Covered, HeardIsKept, Known
<1>3. CASE WriteLands \/ WriteFails
  <2>1. /\ content # None /\ content' = None
        /\ Len(writes') = Len(writes) - 1 /\ Len(writes) \in Nat /\ 1 \in 1 .. Len(writes)
        /\ \A i \in 1 .. Len(writes') : writes'[i] = writes[i + 1]
        /\ Head(writes) = writes[1] /\ writes[1] \in Write
    BY <1>3, EndsWell DEF WriteLands, WriteFails, TypeOK
  <2>2. UNCHANGED <<job, tooLate>> /\ disk' \in {disk, content}
    BY <1>3 DEF WriteLands, WriteFails
  <2>3. \A i \in 1 .. Len(writes') : Covered(writes'[i], job', tooLate')
    <3>1. \A i \in 1 .. Len(writes') : i + 1 \in 1 .. Len(writes)
      BY <2>1
    <3>2. \A i \in 1 .. Len(writes') : Covered(writes'[i], job, tooLate)
      BY <2>1, <3>1 DEF HeardOK
    <3> QED  BY <2>2, <3>2 DEF Covered
  <2>4. /\ Covered(writes[1], job, tooLate) /\ Covered(writes[1], content, tooLate) /\ writes[1].about \subseteq Job
        /\ kept \subseteq Job /\ calledOff \subseteq Job
    BY <2>1 DEF HeardOK, Write, TypeOK
  <2>5. crashes' = crashes
    BY <1>3 DEF WriteLands, WriteFails, faults
  <2>6. unwritten' = {j \in unwritten : disk'[j].status # "cancelled"}
    BY <1>3 DEF WriteLands, WriteFails, Written
  <2>7. /\ \A j \in kept : Known(disk'[j])
        /\ \A j \in calledOff \ tooLate :
              /\ j \notin unwritten' => disk'[j].status = "cancelled"
              /\ j \notin unwritten' \/ crashes = 0 => job[j].status = "cancelled"
    BY <2>1, <2>2, <2>4, <2>6 DEF HeardOK, HeardIsKept, FileOK, Known, Ended, Outcome
  <2>8. CASE WriteFails
    <3>1. UNCHANGED <<kept, calledOff>>
      BY <2>8 DEF WriteFails
    <3> QED  BY <2>1, <2>2, <2>3, <2>5, <2>7, <3>1 DEF HeardOK, HeardIsKept, Known
  <2>9. CASE WriteLands
    <3>1. disk' = content /\ Acknowledge(writes[1])
      BY <2>1, <2>9 DEF WriteLands
    <3>2. HeardIsKept'
      BY <2>2, <2>4, <2>5, <2>7, <3>1 DEF Acknowledge, InTime, HeardOK, HeardIsKept, Covered, Known
    <3> QED  BY <2>1, <2>2, <2>3, <3>1, <3>2 DEF HeardOK, Known
  <2> QED  BY <1>3, <2>8, <2>9
<1>4. CASE Restart
  <2>1. /\ disk' = disk \/ (content # None /\ disk' = content)
        /\ job' = disk' /\ writes' = << >> /\ content' = None
        /\ UNCHANGED <<kept, calledOff, tooLate>>
        /\ kept \subseteq Job /\ calledOff \subseteq Job
        /\ unwritten' = {j \in unwritten : disk'[j].status # "cancelled"} /\ crashes' # 0
    BY <1>4 DEF Restart, Written, TypeOK
  <2>2. HeardIsKept'
    BY <2>1 DEF HeardOK, HeardIsKept, FileOK, Known, Ended, Outcome
  <2> QED  BY <2>1, <2>2 DEF HeardOK
<1>5. ASSUME NEW j \in Job, CancelAgain(j)  PROVE HeardOK'
  <2>1. /\ job[j].status = "cancelled"
        /\ calledOff' = calledOff \cup ({j} \ tooLate)
        /\ unwritten' = IF disk[j].status = "cancelled" THEN unwritten
                                                       ELSE unwritten \cup ({j} \ tooLate)
        /\ UNCHANGED <<job, disk, writes, content, kept, tooLate, crashes>>
    BY <1>5 DEF CancelAgain, InTime, faults
  <2>2. HeardIsKept'
    BY <2>1 DEF HeardOK, HeardIsKept
  <2> QED  BY <2>1, <2>2 DEF HeardOK
<1> QED  BY <1>1, <1>2, <1>3, <1>4, <1>5 DEF Next, Working

(***************************************************************************)
(* The theorems.                                                           *)
(***************************************************************************)
LEMMA Begins == BatchAssumption /\ Init => BatchInv
<1> SUFFICES ASSUME BatchAssumption, Init  PROVE BatchInv
  OBVIOUS
<1>1. TypeOK
  BY StartsWell
<1>2. TickOK
  BY DEF Init, TickOK, WriterOK, NoTick
<1>3. SendsOK
  BY DEF Init, SendsOK, NoTick
<1>4. CopiesOK
  BY CopiedMeans DEF Init, CopiesOK, NoTick
<1>5. FileOK
  BY DEF Init, FileOK
<1>6. HeardOK
  BY DEF Init, HeardOK, HeardIsKept
<1> QED  BY <1>1, <1>2, <1>3, <1>4, <1>5, <1>6 DEF BatchInv

LEMMA Stays == BatchAssumption /\ BatchInv /\ [Next]_vars => BatchInv'
BY KeepsType, KeepsTick, KeepsSends, KeepsCopies, KeepsFile, KeepsHeard DEF BatchInv

LEMMA Invariance == ASSUME BatchAssumption PROVE Spec => []BatchInv
<1>1. Init => BatchInv
  BY Begins
<1>2. BatchInv /\ [Next]_vars => BatchInv'
  BY Stays
<1> QED  BY <1>1, <1>2, PTL DEF Spec

\* Every step leaves well-formed jobs, writes and ticks.
THEOREM TypeCorrect == ASSUME BatchAssumption PROVE Spec => []TypeOK
<1>1. BatchInv => TypeOK
  BY DEF BatchInv
<1> QED  BY <1>1, Invariance, PTL

\* A job is paid for at most once in each life of the process, whatever calls and
\* writes fail and whoever cancels what.
THEOREM PaysOnce == ASSUME BatchAssumption PROVE Spec => []PaidOnce
<1>1. BatchInv => PaidOnce
  BY DEF BatchInv, SendsOK, PaidOnce
<1> QED  BY <1>1, Invariance, PTL

\* What a client was told of its job is in memory and file, and stays there over
\* failures and restarts; what a repeated call was told before the file had it
\* stays in memory as long as the process lives.
THEOREM KeepsItsWord == ASSUME BatchAssumption PROVE Spec => []HeardIsKept
<1>1. BatchInv => HeardIsKept
  BY DEF BatchInv, HeardOK
<1> QED  BY <1>1, Invariance, PTL

\* No write and no late answer takes an outcome back.
THEOREM OutcomesStand == ASSUME BatchAssumption PROVE Spec => OutcomeStands
<1> DEFINE Stand == \A j \in Job \ tooLate' :
                       /\ Ended(job[j]) => job'[j] = job[j] \/ crashes' # crashes
                       /\ Ended(disk[j]) => disk'[j] = disk[j]
<1>1. ASSUME BatchInv, [Next]_vars  PROVE Stand
  <2>1. CASE Working
    BY <1>1, <2>1, JobsStand DEF BatchInv
  <2>2. CASE WriteStarts \/ \E j \in Job : CancelAgain(j)
    BY <2>2 DEF WriteStarts, CancelAgain
  <2>3. CASE WriteLands \/ WriteFails
    <3>1. content # None /\ disk' \in {disk, content} /\ UNCHANGED <<job, tooLate>>
      BY <2>3 DEF WriteLands, WriteFails
    <3> QED  BY <1>1, <3>1 DEF BatchInv, FileOK
  <2>4. CASE Restart
    <3>1. /\ disk' = disk \/ (content # None /\ disk' = content)
          /\ crashes' # crashes /\ tooLate' = tooLate
      BY <1>1, <2>4 DEF Restart, BatchInv, TypeOK
    <3> QED  BY <1>1, <3>1 DEF BatchInv, FileOK
  <2> QED  BY <1>1, <2>1, <2>2, <2>3, <2>4 DEF Next, Working
<1>2. BatchInv /\ [Next]_vars => [Stand]_vars
  BY <1>1
<1> QED  BY <1>2, Invariance, PTL DEF Spec, OutcomeStands

\* A job that was called off before a tick copied it is not sent, at all if the
\* file has had it off, and otherwise as long as the process lives.
THEOREM CalledOffInTimeIsNotSent == ASSUME BatchAssumption PROVE Spec => CalledOffInTime
<1> DEFINE Unsent == \A j \in calledOff \ tooLate :
                        j \notin unwritten \/ crashes = 0 => sends'[j] = sends[j]
<1>1. ASSUME BatchInv, [Next]_vars  PROVE Unsent
  <2>1. ASSUME NEW S \in tick.slices, Accepted(S)  PROVE Unsent
    <3>1. \A j \in calledOff \ tooLate :
             j \in Job /\ (j \notin unwritten \/ crashes = 0 => job[j].status = "cancelled")
      BY <1>1 DEF BatchInv, HeardOK, HeardIsKept, TypeOK
    <3>2. \A j \in S \ tooLate : j \in Job => job[j].status = "queued"
      BY <1>1, CopiedMeans DEF BatchInv, CopiesOK
    <3> QED  BY <2>1, <3>1, <3>2 DEF Accepted
  <2>2. CASE sends' = sends
    BY <2>2
  <2> QED
    BY <1>1, <2>1, <2>2 DEF Next, TickGoesOn, CreateJob, CancelJob, CancelAgain, StartTick,
       Answered, SubmitFails, Poll, WriteStarts, WriteLands, WriteFails, Restart, vars
<1>2. BatchInv /\ [Next]_vars => [Unsent]_vars
  BY <1>1
<1> QED  BY <1>2, Invariance, PTL DEF Spec, CalledOffInTime
=============================================================================
