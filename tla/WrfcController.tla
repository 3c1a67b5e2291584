--------------------------- MODULE WrfcController ---------------------------
(***************************************************************************)
(* The controller of the review chains (agents/wrfc-controller.ts).  A     *)
(* chain takes one request through an engineer, a reviewer, fix cycles and *)
(* quality gates until it has passed or failed; at most MaxActive chains   *)
(* work at a time and the others queue.  Gates are run once for all chains *)
(* that wait for them, when no chain works any more.                       *)
(*                                                                         *)
(* The controller runs on an event loop.  A method runs to its first await *)
(* in one step, with every method it calls, so the methods are operators   *)
(* from one value of the controller's fields to the next (k is such a      *)
(* value) and an action sets ctl' to a composition of them.  What is       *)
(* awaited (a child agent, the gates' processes, a planned fix, a          *)
(* worktree, a landing, a timer) comes back as an action of its own.       *)
(*                                                                         *)
(* An event of a child agent is handled in the step that produces it, the  *)
(* bus delivering before the next thing happens; the events the controller *)
(* causes itself, of agents it has just cancelled or completed, are those  *)
(* its handlers ignore.  Compound chains (subtasks and their integrator),  *)
(* import and resumption of stored chains are left out.                    *)
(***************************************************************************)
EXTENDS Naturals, Sequences, FiniteSets, SequencesExt

CONSTANTS
    Chains,       \* how many chains are created; the chains are numbered in
                  \* the order of their creation, the order of the map
    MaxActive,    \* MAX_ACTIVE_CHAINS
    MaxFixes,     \* wrfc.maxFixAttempts
    RetryLimit,   \* wrfc.transportRetryLimit
    MaxCancels,   \* how often the operator cancels a chain
    Deployments   \* is the project a git repository (every chain then has a
                  \* worktree of its own), and is wrfc.autoCommit on

Chain == 1 .. Chains
None == 0
Role == {"engineer", "reviewer", "fixer"}

Terminal == {"passed", "failed"}
Working == {"pending", "engineering", "reviewing", "fixing"}
ChainState == Working \cup {"awaiting_gates", "gating", "committing"} \cup Terminal

IsActive(s) == s \in ChainState \ (Terminal \cup {"pending"})

ASSUME WrfcAssumption ==
    /\ Chains \in Nat \ {0} /\ MaxActive \in Nat \ {0}
    /\ MaxFixes \in Nat /\ RetryLimit \in Nat /\ MaxCancels \in Nat
    /\ Deployments \subseteq [isolated : BOOLEAN, autoCommit : BOOLEAN]

VARIABLES
    ctl,          \* the fields of the controller and of its chains
    deployment,
    cancels       \* cancellations so far

vars == <<ctl, deployment, cancels>>

(***************************************************************************)
(* A run of checkAndRunGatesForAll that is under way, kept under the chain *)
(* that runs the gates: waiting for the gates ("gates"), about to give the *)
(* next chain its result ("turn") or waiting for that chain's work to land *)
(* ("landing").  left is the rest of the chains it found ready, taken from *)
(* the oldest on; origin is the chain whose review started it and whose    *)
(* handler goes on after it.                                               *)
(***************************************************************************)
Session == [phase : {"idle", "gates", "turn", "landing"},
            left : SUBSET Chain, origin : Chain \cup {None}]
Idle == [phase |-> "idle", left |-> {}, origin |-> None]

Oldest(S) == CHOOSE c \in S : \A d \in S : c <= d

Controller == [
    state : [Chain -> ChainState \cup {"none"}],
    queue : Seq(Chain),                  \* chainQueue
    active : Nat,                        \* activeChainCount
    preparing : SUBSET Chain,            \* worktrees whose setup is awaited
    live : [Chain -> Seq(Role)],         \* the child agents in flight
    respawn : [Chain -> Role \cup {"none"}],  \* the timer of a transport retry
    retried : [Chain -> 0 .. RetryLimit],  \* transportRetryCount
    planned : SUBSET Chain,              \* planned fixes under way
    fixes : [Chain -> 0 .. MaxFixes],    \* fixAttempts
    verified : [Chain -> BOOLEAN],       \* claimsVerified is not false
    sessions : [Chain -> Session],
    told : [Chain -> {"none", "completed", "failed", "cancelled"}]]
                                         \* the owner's terminal status

Init ==
    /\ deployment \in Deployments
    /\ cancels = 0
    /\ ctl = [state |-> [c \in Chain |-> "none"], queue |-> <<>>, active |-> 0,
              preparing |-> {}, live |-> [c \in Chain |-> <<>>],
              respawn |-> [c \in Chain |-> "none"], retried |-> [c \in Chain |-> 0],
              planned |-> {}, fixes |-> [c \in Chain |-> 0],
              verified |-> [c \in Chain |-> TRUE],
              sessions |-> [c \in Chain |-> Idle], told |-> [c \in Chain |-> "none"]]

(***************************************************************************)
(* The methods of the controller.  A definition that a comment calls a     *)
(* slip is what a small mistake would make of the definition after it;     *)
(* nothing uses it.                                                        *)
(***************************************************************************)
Transitions == {
    <<"pending", "engineering">>,
    <<"engineering", "reviewing">>, <<"engineering", "failed">>,
    <<"reviewing", "fixing">>, <<"reviewing", "awaiting_gates">>, <<"reviewing", "failed">>,
    <<"fixing", "reviewing">>, <<"fixing", "failed">>,
    <<"awaiting_gates", "gating">>, <<"awaiting_gates", "failed">>,
    <<"gating", "passed">>, <<"gating", "failed">>, <<"gating", "committing">>,
    <<"gating", "fixing">>,
    <<"committing", "passed">>, <<"committing", "failed">>}

\* A slip: whatever has left the queue may move anywhere.
AllowedUnlessQueued(k, c, to) == k.state[c] # "pending"
\* A method that makes any other move throws.
Allowed(k, c, to) == <<k.state[c], to>> \in Transitions

OneLess(n) == IF n = 0 THEN 0 ELSE n - 1

Spawn(k, c, role) == [k EXCEPT !.live[c] = Append(@, role)]

StartEngineer(k, c) ==
    Spawn([k EXCEPT !.active = @ + 1, !.state[c] = "engineering"], c, "engineer")

\* In a git repository the chain first waits for a worktree of its own, and
\* counts as active only when it has one.
Start(k, c) ==
    IF deployment.isolated THEN [k EXCEPT !.preparing = @ \cup {c}] ELSE StartEngineer(k, c)

DequeueNext(k) ==
    IF k.queue = <<>> \/ k.active >= MaxActive
    THEN k
    ELSE Start([k EXCEPT !.queue = Tail(@)], Head(k.queue))

StartReview(k, c) == Spawn([k EXCEPT !.state[c] = "reviewing"], c, "reviewer")

StartPlannedFix(k, c) ==
    [k EXCEPT !.fixes[c] = @ + 1, !.state[c] = "fixing", !.planned = @ \cup {c}]

StartGateFix(k, c) ==
    Spawn([k EXCEPT !.fixes[c] = @ + 1, !.state[c] = "fixing"], c, "fixer")

CheckAndRunGates(k, origin) ==
    LET ready == {c \in Chain : k.state[c] = "awaiting_gates"}
    IN  IF ready = {} \/ \E c \in Chain : k.state[c] \in Working
        THEN k
        ELSE [k EXCEPT !.state[Oldest(ready)] = "gating",
                       !.sessions[Oldest(ready)] =
                           [phase |-> "gates", left |-> ready, origin |-> origin]]

\* The end of onAgentComplete for the chain c of the agent.
Afterwards(k, c) ==
    IF c = None \/ k.state[c] \in {"gating", "passed", "committing"}
    THEN k
    ELSE CheckAndRunGates(k, None)

\* A slip: a chain that has ended is counted off again.
StopUncounted(k, c, verdict) ==
    [k EXCEPT !.queue = IF k.state[c] = "pending" THEN RemoveFirst(@, c) ELSE @,
              !.active = IF k.state[c] # "pending" THEN OneLess(@) ELSE @,
              !.state[c] = "failed",
              !.live[c] = <<>>,
              !.told[c] = IF @ = "none" THEN verdict ELSE @]

\* What failChain and cancelChain have in common.  A chain is queued once, so
\* the filter of the queue takes out one entry at most.
Stop(k, c, verdict) ==
    [k EXCEPT !.queue = IF k.state[c] = "pending" THEN RemoveFirst(@, c) ELSE @,
              !.active = IF IsActive(k.state[c]) THEN OneLess(@) ELSE @,
              !.state[c] = "failed",
              !.live[c] = <<>>,
              !.told[c] = IF @ = "none" THEN verdict ELSE @]

\* A slip: the chains that wait for gates are forgotten.
FailChainOnly(k, c) == DequeueNext(Stop(k, c, "failed"))
FailChain(k, c) == CheckAndRunGates(DequeueNext(Stop(k, c, "failed")), None)

\* A slip: the queue is forgotten.
CancelChainOnly(k, c) == Stop(k, c, "cancelled")
CancelChain(k, c) == DequeueNext(Stop(k, c, "cancelled"))

\* completeChainAsPassed; the count goes down before the move is examined.
CompleteAsPassed(k, c) ==
    DequeueNext([k EXCEPT !.active = OneLess(@), !.state[c] = "passed",
                          !.told[c] = IF @ = "none" THEN "completed" ELSE @])

CompletionThrows(k) == [k EXCEPT !.active = OneLess(@)]

Close(k, r) == [k EXCEPT !.sessions[r] = Idle]

\* The loop over the ready chains goes on, or the session is over.
NextTurn(k, r) ==
    LET s == k.sessions[r]
        rest == s.left \ {Oldest(s.left)}
    IN  IF rest = {}
        THEN Afterwards(Close(k, r), s.origin)
        ELSE [k EXCEPT !.sessions[r] = [s EXCEPT !.phase = "turn", !.left = rest]]

(***************************************************************************)
(* Actions: the operator, the worktree and the child agents.               *)
(***************************************************************************)
Create(c) ==
    /\ ctl.state[c] = "none" /\ \A b \in 1 .. c - 1 : ctl.state[b] # "none"
    /\ LET k == [ctl EXCEPT !.state[c] = "pending"]
       IN  ctl' = IF k.active >= MaxActive THEN [k EXCEPT !.queue = Append(@, c)]
                                           ELSE Start(k, c)
    /\ UNCHANGED <<deployment, cancels>>

Cancel(c) ==
    /\ cancels < MaxCancels
    /\ ctl.state[c] \notin Terminal \cup {"none"}
    /\ ctl' = CancelChain(ctl, c)
    /\ cancels' = cancels + 1
    /\ UNCHANGED deployment

WorkspaceReady(c) ==
    /\ c \in ctl.preparing
    /\ LET k == [ctl EXCEPT !.preparing = @ \ {c}]
       IN  ctl' = IF k.state[c] = "pending" THEN StartEngineer(k, c) ELSE k
    /\ UNCHANGED <<deployment, cancels>>

Without(k, c, i) == [k EXCEPT !.live[c] = RemoveAt(@, i)]

\* The engineer or the fixer of the gates has finished; what it claims to
\* have written is, or is not, found on disk.
WorkDone(c) ==
    /\ ctl.state[c] \in {"engineering", "fixing"}
    /\ \E i \in DOMAIN ctl.live[c], found \in BOOLEAN :
         LET k == [Without(ctl, c, i) EXCEPT !.verified[c] = found]
         IN  ctl' = Afterwards(StartReview(k, c), c)
    /\ UNCHANGED <<deployment, cancels>>

ReviewPasses(c) ==
    /\ ctl.state[c] = "reviewing" /\ ctl.verified[c]
    /\ \E i \in DOMAIN ctl.live[c] :
         LET k == [Without(ctl, c, i) EXCEPT !.state[c] = "awaiting_gates"]
         IN  ctl' = CheckAndRunGates(k, c)
    /\ UNCHANGED <<deployment, cancels>>

\* A slip: one fix too many.
ReviewFailsOnceMore(c) ==
    /\ ctl.state[c] = "reviewing"
    /\ \E i \in DOMAIN ctl.live[c] :
         LET k == Without(ctl, c, i)
         IN  ctl' = Afterwards(IF k.fixes[c] > MaxFixes THEN FailChain(k, c)
                                                        ELSE StartPlannedFix(k, c), c)
    /\ UNCHANGED <<deployment, cancels>>

ReviewFails(c) ==
    /\ ctl.state[c] = "reviewing"
    /\ \E i \in DOMAIN ctl.live[c] :
         LET k == Without(ctl, c, i)
         IN  ctl' = Afterwards(IF k.fixes[c] >= MaxFixes THEN FailChain(k, c)
                                                         ELSE StartPlannedFix(k, c), c)
    /\ UNCHANGED <<deployment, cancels>>

\* The planned fix of an ended chain comes back to a controller that no
\* longer wants it.
FixMerged(c) ==
    /\ c \in ctl.planned
    /\ LET k == [ctl EXCEPT !.planned = @ \ {c}]
       IN  ctl' = IF k.state[c] \in Terminal THEN k
                  ELSE IF Allowed(k, c, "reviewing") THEN StartReview(k, c) ELSE FailChain(k, c)
    /\ UNCHANGED <<deployment, cancels>>

FixFailed(c) ==
    /\ c \in ctl.planned
    /\ LET k == [ctl EXCEPT !.planned = @ \ {c}]
       IN  ctl' = IF k.state[c] \in Terminal THEN k ELSE FailChain(k, c)
    /\ UNCHANGED <<deployment, cancels>>

\* The provider's connection fails under the child spawned last.
TransportFails(c) ==
    /\ ctl.state[c] \notin Terminal /\ ctl.live[c] # <<>>
    /\ LET k == Without(ctl, c, Len(ctl.live[c]))
       IN  ctl' = IF ctl.retried[c] < RetryLimit
                  THEN [k EXCEPT !.retried[c] = @ + 1, !.respawn[c] = Last(ctl.live[c])]
                  ELSE FailChain(k, c)
    /\ UNCHANGED <<deployment, cancels>>

\* The watchdog finds the child of the chain's phase silent; a child that
\* fails for another reason than its connection ends the chain the same way.
ChildFails(c) ==
    /\ ctl.state[c] \in {"engineering", "reviewing", "fixing"} /\ ctl.live[c] # <<>>
    /\ ctl' = FailChain(ctl, c)
    /\ UNCHANGED <<deployment, cancels>>

\* A slip: the timer does not look whether the chain has ended.
RespawnAnyway(k, c, role) == Spawn(k, c, role)
Respawn(k, c, role) == IF k.state[c] \in Terminal THEN k ELSE Spawn(k, c, role)

RetryDue(c) ==
    /\ ctl.respawn[c] # "none"
    /\ ctl' = Respawn([ctl EXCEPT !.respawn[c] = "none"], c, ctl.respawn[c])
    /\ UNCHANGED <<deployment, cancels>>

(***************************************************************************)
(* Actions: a session of gates, led by the chain r.                        *)
(***************************************************************************)
GatesPass(r) ==
    /\ ctl.sessions[r].phase = "gates"
    /\ ctl' = [ctl EXCEPT !.sessions[r].phase = "turn"]
    /\ UNCHANGED <<deployment, cancels>>

\* Only the chain that ran the gates is sent to a fixer.  If it was stopped
\* meanwhile, its move throws and nothing is done after it.
GatesFail(r) ==
    /\ ctl.sessions[r].phase = "gates"
    /\ LET k == Close(ctl, r)
           origin == ctl.sessions[r].origin
       IN  ctl' = IF k.fixes[r] >= MaxFixes THEN Afterwards(FailChain(k, r), origin)
                  ELSE IF Allowed(k, r, "fixing") THEN Afterwards(StartGateFix(k, r), origin)
                  ELSE [k EXCEPT !.fixes[r] = @ + 1]
    /\ UNCHANGED <<deployment, cancels>>

\* The state the next chain is in when it is told that the gates passed: the
\* one that ran them is gating already.
Called(k, r) ==
    LET c == Oldest(k.sessions[r].left)
    IN  IF c = r THEN k ELSE [k EXCEPT !.state[c] = "gating"]

TurnThrows(r) ==
    /\ ctl.sessions[r].phase = "turn"
    /\ LET c == Oldest(ctl.sessions[r].left)
           k == Called(ctl, r)
       IN  \/ c # r /\ ~ Allowed(ctl, c, "gating") /\ ctl' = Close(ctl, r)
           \/ c = r /\ deployment.autoCommit /\ ~ Allowed(k, c, "committing") /\ ctl' = Close(k, r)
    /\ UNCHANGED <<deployment, cancels>>

\* autoCommit or, without it, processGateResults itself.
Turn(r) ==
    /\ ctl.sessions[r].phase = "turn"
    /\ LET c == Oldest(ctl.sessions[r].left)
           k == Called(ctl, r)
           m == IF deployment.autoCommit THEN [k EXCEPT !.state[c] = "committing"] ELSE k
       IN  /\ c = r \/ Allowed(ctl, c, "gating")
           /\ deployment.autoCommit => Allowed(k, c, "committing")
           /\ ctl' = IF deployment.isolated
                     THEN [m EXCEPT !.sessions[r].phase = "landing"]
                     ELSE IF Allowed(m, c, "passed")
                     THEN NextTurn(CompleteAsPassed(m, c), r)
                     ELSE Close(CompletionThrows(m), r)
    /\ UNCHANGED <<deployment, cancels>>

\* A slip: a chain stopped during its landing passes all the same.
LandedAnyway(r) ==
    /\ ctl.sessions[r].phase = "landing"
    /\ ctl' = NextTurn(CompleteAsPassed(ctl, Oldest(ctl.sessions[r].left)), r)
    /\ UNCHANGED <<deployment, cancels>>

Landed(r) ==
    /\ ctl.sessions[r].phase = "landing"
    /\ LET c == Oldest(ctl.sessions[r].left)
       IN  ctl' = NextTurn(IF ctl.state[c] \in Terminal THEN ctl
                                                        ELSE CompleteAsPassed(ctl, c), r)
    /\ UNCHANGED <<deployment, cancels>>

Answer ==
    \E c \in Chain :
        \/ WorkspaceReady(c)
        \/ WorkDone(c) \/ ReviewPasses(c) \/ ReviewFails(c)
        \/ FixMerged(c) \/ FixFailed(c)
        \/ TransportFails(c) \/ ChildFails(c) \/ RetryDue(c)
        \/ GatesPass(c) \/ GatesFail(c) \/ TurnThrows(c) \/ Turn(c) \/ Landed(c)

Next ==
    \/ \E c \in Chain : Create(c) \/ Cancel(c)
    \/ Answer

Spec == Init /\ [][Next]_vars

\* What the controller awaits comes back: agents have turn budgets, gates and
\* commits are killed at a time limit, the rest are timers.
FairSpec == Spec /\ WF_vars(Answer)

(***************************************************************************)
(* Properties.                                                             *)
(***************************************************************************)
Ended(c) == ctl.state[c] \in Terminal
ActiveChains == {c \in Chain : IsActive(ctl.state[c])}

\* Types, and the two budgets: review fixes and gate fixes share one, and a
\* transport retry is never charged to it.
TypeOK ==
    /\ ctl \in Controller
    /\ deployment \in Deployments
    /\ cancels \in 0 .. MaxCancels

Workers(c) ==
    Len(ctl.live[c])
      + (IF ctl.respawn[c] # "none" /\ ~ Ended(c) THEN 1 ELSE 0)
      + (IF c \in ctl.planned /\ ~ Ended(c) THEN 1 ELSE 0)

\* A chain that is engineering, reviewing or fixing has exactly one child, one
\* retry timer or one planned fix that will move it on; in every other state,
\* above all when it has ended, nothing works for it: no review is started
\* twice, no chain is left without anybody, no retry revives an ended chain.
EveryPhaseHasItsWorker ==
    \A c \in Chain :
        Workers(c) = IF ctl.state[c] \in {"engineering", "reviewing", "fixing"} THEN 1 ELSE 0

\* activeChainCount is the number of active chains, whatever gates, landings
\* and fixes were under way when a chain was stopped; without worktrees, which
\* are set up before a chain counts, it never exceeds MAX_ACTIVE_CHAINS.
CapacityIsKept ==
    /\ ctl.active = Cardinality(ActiveChains)
    /\ ~ deployment.isolated => ctl.active <= MaxActive

\* A queued chain waits for room only, never for a call of dequeueNext that
\* was forgotten: some chain is there whose end takes it from the queue.
QueueIsServed ==
    ctl.queue # <<>> =>
        IF deployment.isolated THEN ActiveChains \cup ctl.preparing # {}
                               ELSE ctl.active >= MaxActive

\* The owner's agent reports an end exactly when its chain has one, and the
\* same: completed for a chain that passed, failed or cancelled otherwise.
OwnerKnowsTheEnd ==
    \A c \in Chain :
        ctl.told[c] \in CASE ctl.state[c] = "passed" -> {"completed"}
                          [] ctl.state[c] = "failed" -> {"failed", "cancelled"}
                          [] OTHER -> {"none"}

\* Nothing that comes back late (gates, a landing, a fix, a timer) changes the
\* verdict on a chain or what its owner reported.
VerdictIsFinal ==
    [][\A c \in Chain : Ended(c) => /\ ctl'.state[c] = ctl.state[c]
                                    /\ ctl'.told[c] = ctl.told[c]]_vars

\* The owner "keeps the chain running until ... or until the chain fails or
\* cancels": every chain that is created ends.
ChainsEnd == \A c \in Chain : ctl.state[c] # "none" ~> Ended(c)

\* In the end every chain has ended, unless the operator has cancelled one or
\* one is still in the queue: whatever fails, the chains that wait for the gates
\* with it are looked after, and no result that a chain waits for is lost.
NobodyIsLeftWaiting ==
    <>[](\A c \in Chain :
            ctl.state[c] # "none" => Ended(c) \/ cancels > 0 \/ ctl.queue # <<>>)

=============================================================================
