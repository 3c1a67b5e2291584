---------------------------- MODULE CompoundChain ----------------------------
(***************************************************************************)
(* A compound review chain (agents/wrfc-controller.ts): several            *)
(* deliverables of one request, each with an engineer, a reviewer and fix  *)
(* cycles of its own, run side by side; when all have passed, an           *)
(* integrator joins them and the whole is reviewed.  The module follows    *)
(* one such chain from its start to the point where it waits for the       *)
(* gates, from which on it is a chain like any other (WrfcController).     *)
(*                                                                         *)
(* A completion is an event with an agent's id.  The handler looks the id  *)
(* up: an agent a deliverable points at is that deliverable's, the one the *)
(* chain names as its integrator is that, and any other is taken for an    *)
(* agent of the whole chain, in the phase the chain is in.  An agent is    *)
(* therefore what it was started as (role, part) and whether the record it *)
(* belongs to points at it (known).                                        *)
(***************************************************************************)
EXTENDS Naturals, FiniteSets

CONSTANTS
    Deliverable,   \* the chain's subtasks
    Whole,         \* in the place of a deliverable: the chain itself
    MaxFixes,      \* wrfc.maxFixAttempts
    RetryLimit,    \* wrfc.transportRetryLimit
    Flaky          \* the roles whose connection to the provider may fail

Part == Deliverable \cup {Whole}
Role == {"engineer", "reviewer", "integrator"}

ASSUME CompoundAssumption ==
    /\ Whole \notin Deliverable
    /\ MaxFixes \in Nat /\ RetryLimit \in Nat
    /\ Flaky \subseteq Role

VARIABLES
    state,      \* of the chain
    part,       \* the state of each deliverable
    fixes,      \* fixAttempts of the deliverables and of the chain
    verified,   \* claimsVerified is not false, of the same
    agents,     \* the agents in flight
    last,       \* lastChildSpawn
    respawn,    \* the agents whose retry timer runs
    retried,    \* transportRetryCount
    planned     \* the parts with a planned fix under way

vars == <<state, part, fixes, verified, agents, last, respawn, retried, planned>>

ChainState == {"engineering", "integrating", "reviewing", "fixing", "awaiting_gates", "failed"}
PartState == {"engineering", "reviewing", "fixing", "passed", "failed"}
Agent == [role : Role, part : Part, known : BOOLEAN]

Started(role, p) == [role |-> role, part |-> p, known |-> TRUE]

\* startCompoundEngineeringChain; the last engineer started is any one of them.
Init ==
    /\ state = "engineering"
    /\ part = [d \in Deliverable |-> "engineering"]
    /\ fixes = [p \in Part |-> 0]
    /\ verified = [p \in Part |-> TRUE]
    /\ agents = {Started("engineer", d) : d \in Deliverable}
    /\ last \in agents
    /\ respawn = {}
    /\ retried = 0
    /\ planned = {}

(***************************************************************************)
(* What the handlers do to the agents.                                     *)
(***************************************************************************)
\* The agent gone is replaced by a new one.
Replace(gone, new) ==
    /\ agents' = (agents \ gone) \cup {new}
    /\ last' = new

Leaves(a) == agents' = agents \ {a} /\ UNCHANGED last

FailChain ==
    /\ state' = "failed"
    /\ agents' = {}
    /\ UNCHANGED last

(***************************************************************************)
(* The deliverables.                                                       *)
(***************************************************************************)
\* The deliverable an agent is found to belong to, its integrator's or none.
OfDeliverable(a) == a.known /\ a.part \in Deliverable
OfWhole(a) == ~ OfDeliverable(a) /\ ~ (a.known /\ a.role = "integrator")

PartWorkDone(a) ==
    /\ OfDeliverable(a) /\ a.role = "engineer"
    /\ \E found \in BOOLEAN : verified' = [verified EXCEPT ![a.part] = found]
    /\ part' = [part EXCEPT ![a.part] = "reviewing"]
    /\ Replace({a}, Started("reviewer", a.part))
    /\ UNCHANGED <<state, fixes, respawn, retried, planned>>

\* A slip: one deliverable is enough.
AnyPassed == \E d \in Deliverable : part'[d] = "passed"
\* A slip: the deliverables are looked at before the last one is marked.
AllPassedBefore == \A d \in Deliverable : part[d] = "passed"
AllPassed == \A d \in Deliverable : part'[d] = "passed"

\* The last deliverable to pass calls the integrator; the move throws when the
\* chain has left its first phase.
PartPasses(a) ==
    /\ OfDeliverable(a) /\ a.role = "reviewer" /\ verified[a.part]
    /\ part' = [part EXCEPT ![a.part] = "passed"]
    /\ IF AllPassed /\ state = "engineering"
       THEN state' = "integrating" /\ Replace({a}, Started("integrator", Whole))
       ELSE Leaves(a) /\ UNCHANGED state
    /\ UNCHANGED <<fixes, verified, respawn, retried, planned>>

\* A slip: the fix of a deliverable is run in the name of the chain.
PartNeedsFixOfWhole(a) ==
    /\ OfDeliverable(a) /\ a.role = "reviewer"
    /\ IF fixes[a.part] >= MaxFixes
       THEN /\ part' = [part EXCEPT ![a.part] = "failed"]
            /\ FailChain
            /\ UNCHANGED <<fixes, planned>>
       ELSE /\ part' = [part EXCEPT ![a.part] = "fixing"]
            /\ fixes' = [fixes EXCEPT ![a.part] = @ + 1]
            /\ planned' = planned \cup {Whole}
            /\ Leaves(a) /\ UNCHANGED state
    /\ UNCHANGED <<verified, respawn, retried>>

PartNeedsFix(a) ==
    /\ OfDeliverable(a) /\ a.role = "reviewer"
    /\ IF fixes[a.part] >= MaxFixes
       THEN /\ part' = [part EXCEPT ![a.part] = "failed"]
            /\ FailChain
            /\ UNCHANGED <<fixes, planned>>
       ELSE /\ part' = [part EXCEPT ![a.part] = "fixing"]
            /\ fixes' = [fixes EXCEPT ![a.part] = @ + 1]
            /\ planned' = planned \cup {a.part}
            /\ Leaves(a) /\ UNCHANGED state
    /\ UNCHANGED <<verified, respawn, retried>>

PartFixMerged(d) ==
    /\ d \in planned \cap Deliverable
    /\ planned' = planned \ {d}
    /\ IF state = "failed"
       THEN UNCHANGED <<part, agents, last>>
       ELSE part' = [part EXCEPT ![d] = "reviewing"] /\ Replace({}, Started("reviewer", d))
    /\ UNCHANGED <<state, fixes, verified, respawn, retried>>

PartFixFailed(d) ==
    /\ d \in planned \cap Deliverable
    /\ planned' = planned \ {d}
    /\ IF state = "failed"
       THEN UNCHANGED <<state, part, agents, last>>
       ELSE part' = [part EXCEPT ![d] = "failed"] /\ FailChain
    /\ UNCHANGED <<fixes, verified, respawn, retried>>

(***************************************************************************)
(* The whole chain.                                                        *)
(***************************************************************************)
StartReview(a) == state' = "reviewing" /\ Replace({a}, Started("reviewer", Whole))

Integrated(a) ==
    /\ a.known /\ a.role = "integrator"
    /\ IF state \in {"engineering", "integrating", "fixing"}
       THEN StartReview(a)
       ELSE Leaves(a) /\ UNCHANGED state
    /\ UNCHANGED <<part, fixes, verified, respawn, retried, planned>>

\* An agent that no deliverable points at, in the first phase of the chain or
\* in a fix, is taken for the chain's engineer.
WholeWorkDone(a) ==
    /\ OfWhole(a) /\ state \in {"engineering", "fixing"}
    /\ \E found \in BOOLEAN : verified' = [verified EXCEPT ![Whole] = found]
    /\ StartReview(a)
    /\ UNCHANGED <<part, fixes, respawn, retried, planned>>

WholePasses(a) ==
    /\ OfWhole(a) /\ state = "reviewing" /\ verified[Whole]
    /\ state' = "awaiting_gates"
    /\ Leaves(a)
    /\ UNCHANGED <<part, fixes, verified, respawn, retried, planned>>

WholeNeedsFix(a) ==
    /\ OfWhole(a) /\ state = "reviewing"
    /\ IF fixes[Whole] >= MaxFixes
       THEN FailChain /\ UNCHANGED <<fixes, planned>>
       ELSE /\ state' = "fixing"
            /\ fixes' = [fixes EXCEPT ![Whole] = @ + 1]
            /\ planned' = planned \cup {Whole}
            /\ Leaves(a)
    /\ UNCHANGED <<part, verified, respawn, retried>>

WholeFixMerged ==
    /\ Whole \in planned
    /\ planned' = planned \ {Whole}
    /\ IF state = "failed"
       THEN UNCHANGED <<state, agents, last>>
       ELSE IF state = "fixing"
       THEN state' = "reviewing" /\ Replace({}, Started("reviewer", Whole))
       ELSE FailChain
    /\ UNCHANGED <<part, fixes, verified, respawn, retried>>

WholeFixFailed ==
    /\ Whole \in planned
    /\ planned' = planned \ {Whole}
    /\ IF state = "failed" THEN UNCHANGED <<state, agents, last>> ELSE FailChain
    /\ UNCHANGED <<part, fixes, verified, respawn, retried>>

(***************************************************************************)
(* Failures.                                                               *)
(***************************************************************************)
\* Only the agent spawned last is retried, while the retries last.
TransportFails(a) ==
    /\ a.role \in Flaky
    /\ IF a = last /\ retried < RetryLimit
       THEN /\ retried' = retried + 1
            /\ respawn' = respawn \cup {a}
            /\ Leaves(a) /\ UNCHANGED state
       ELSE FailChain /\ UNCHANGED <<respawn, retried>>
    /\ UNCHANGED <<part, fixes, verified, planned>>

AgentFails(a) ==
    /\ FailChain
    /\ UNCHANGED <<part, fixes, verified, respawn, retried, planned>>

\* rewireChainChildAgentId: the fields of the chain are pointed at the new
\* agent, never those of its deliverable.
Respawned(a) == [a EXCEPT !.known = a.part \notin Deliverable]

RetryDue(a) ==
    /\ a \in respawn
    /\ respawn' = respawn \ {a}
    /\ IF state = "failed"
       THEN UNCHANGED <<agents, last>>
       ELSE Replace({}, Respawned(a))
    /\ UNCHANGED <<state, part, fixes, verified, retried, planned>>

Cancel ==
    /\ state # "failed"
    /\ FailChain
    /\ UNCHANGED <<part, fixes, verified, respawn, retried, planned>>

Answer ==
    \/ \E a \in agents :
         \/ PartWorkDone(a) \/ PartPasses(a) \/ PartNeedsFix(a)
         \/ Integrated(a) \/ WholeWorkDone(a) \/ WholePasses(a) \/ WholeNeedsFix(a)
         \/ TransportFails(a) \/ AgentFails(a)
    \/ \E d \in Deliverable : PartFixMerged(d) \/ PartFixFailed(d)
    \/ WholeFixMerged \/ WholeFixFailed
    \/ \E a \in respawn : RetryDue(a)

Next == Answer \/ Cancel

Spec == Init /\ [][Next]_vars
FairSpec == Spec /\ WF_vars(Answer)

(***************************************************************************)
(* Properties.                                                             *)
(***************************************************************************)
\* Types; no deliverable and no chain is fixed more often than it may be.
TypeOK ==
    /\ state \in ChainState
    /\ part \in [Deliverable -> PartState]
    /\ fixes \in [Part -> 0 .. MaxFixes]
    /\ verified \in [Part -> BOOLEAN]
    /\ agents \subseteq Agent /\ respawn \subseteq Agent
    /\ last \in Agent
    /\ retried \in 0 .. RetryLimit
    /\ planned \subseteq Part

\* What is integrated, reviewed as a whole and handed to the gates consists of
\* deliverables that have all passed their own review.
WholeOfPassedParts ==
    state \in {"integrating", "reviewing", "fixing", "awaiting_gates"} =>
        \A d \in Deliverable : part[d] = "passed"

\* Each deliverable that has not passed has exactly one agent, timer or fix
\* that works on it, and one that has passed has none; the whole has one
\* likewise, and a chain that has failed has no agent at all.
WorkersOf(p) ==
    Cardinality({a \in agents \cup respawn : a.part = p}) + (IF p \in planned THEN 1 ELSE 0)
OneWorkerPerPart ==
    IF state = "failed" THEN agents = {} ELSE
        /\ \A d \in Deliverable : WorkersOf(d) = IF part[d] = "passed" THEN 0 ELSE 1
        /\ WorkersOf(Whole) = IF state \in {"engineering", "awaiting_gates"} THEN 0 ELSE 1

\* The chain comes to the gates or fails, and then no agent of it is left.
ComesToRest == <>[](state \in {"awaiting_gates", "failed"} /\ agents = {})

=============================================================================
