------------------------ MODULE CompoundChain_proofs ------------------------
(***************************************************************************)
(* Proofs about CompoundChain, for any number of deliverables, fixes and   *)
(* retries: well-formed states, and, if no connection but the integrator's *)
(* may fail, a whole that is made of deliverables that have passed, and    *)
(* one worker for each part of it that is under way.                       *)
(***************************************************************************)
EXTENDS CompoundChain, FiniteSetTheorems, TLAPS

(* The claim needs one thing of the connections: the agents of a deliverable *)
(* are not retried.                                                          *)
OnlyIntegratorFlaky == Flaky \subseteq {"integrator"}

Begun == state # "engineering"

(* An agent of a deliverable is its engineer or its reviewer, is found by its *)
(* id, works on something that has not passed, and is alone with it.         *)
PartsOK ==
    /\ \A a \in agents : a.part \in Deliverable =>
          /\ OfDeliverable(a)
          /\ a.role # "integrator"
          /\ part[a.part] # "passed"
    /\ \A a, b \in agents : a.part \in Deliverable /\ a.part = b.part => a = b

(* So is its fix.                                                            *)
FixesOK ==
    state # "failed" =>
        \A d \in planned \cap Deliverable :
            /\ part[d] # "passed"
            /\ \A a \in agents : a.part # d

(* Nothing works on the whole before the integrator is called.               *)
WholeOK ==
    /\ \A a \in agents : a.part = Whole => Begun
    /\ \A a \in respawn : a.part = Whole /\ Begun
    /\ Whole \in planned => Begun

(* A chain that has failed has no agent.                                     *)
FailedOK == state = "failed" => agents = {}

(* What keeps the whole behind its parts, step by step.                      *)
Joined ==
    /\ TypeOK
    /\ PartsOK
    /\ FixesOK
    /\ WholeOK
    /\ FailedOK
    /\ WholeOfPassedParts

-----------------------------------------------------------------------------
(* Types.                                                                    *)

LEMMA StartedAgent ==
    ASSUME NEW r \in Role, NEW p \in Part
    PROVE  /\ Started(r, p) \in Agent
           /\ Started(r, p).role = r /\ Started(r, p).part = p /\ Started(r, p).known
  BY DEF Started, Agent

LEMMA RespawnedAgent ==
    ASSUME NEW a \in Agent
    PROVE  /\ Respawned(a) \in Agent
           /\ Respawned(a).role = a.role /\ Respawned(a).part = a.part
  BY DEF Respawned, Agent

LEMMA AgentFields ==
    ASSUME NEW a \in Agent
    PROVE  a.role \in Role /\ a.part \in Part
  BY DEF Agent

LEMMA WholeApart == Whole \in Part /\ Whole \notin Deliverable /\ Deliverable \subseteq Part
  BY CompoundAssumption DEF Part

LEMMA InitType == Init => TypeOK
  <1> SUFFICES ASSUME Init PROVE TypeOK
    OBVIOUS
  <1>1. agents \subseteq Agent
    BY StartedAgent, WholeApart DEF Init, Role
  <1>2. fixes \in [Part -> 0 .. MaxFixes] /\ retried \in 0 .. RetryLimit
    BY CompoundAssumption DEF Init
  <1>3. verified \in [Part -> BOOLEAN]
    BY Zenon DEF Init
  <1>4. state \in ChainState /\ part \in [Deliverable -> PartState]
    BY DEF Init, ChainState, PartState
  <1> QED
    BY <1>1, <1>2, <1>3, <1>4 DEF Init, TypeOK

LEMMA ReplaceType ==
    ASSUME TypeOK, NEW gone, NEW r \in Role, NEW p \in Part, Replace(gone, Started(r, p))
    PROVE  agents' \subseteq Agent /\ last' \in Agent
  BY StartedAgent DEF Replace, TypeOK

LEMMA LeavesType ==
    ASSUME TypeOK, NEW a, Leaves(a)
    PROVE  agents' \subseteq Agent /\ last' \in Agent
  BY DEF Leaves, TypeOK

LEMMA FailType ==
    ASSUME TypeOK, FailChain
    PROVE  state' \in ChainState /\ agents' \subseteq Agent /\ last' \in Agent
  BY DEF FailChain, TypeOK, ChainState

LEMMA ReviewType ==
    ASSUME TypeOK, NEW a, StartReview(a)
    PROVE  state' \in ChainState /\ agents' \subseteq Agent /\ last' \in Agent
  BY ReplaceType, WholeApart DEF StartReview, ChainState, Role

(* An attempt is counted only while there is one left.                       *)
LEMMA CountType ==
    ASSUME TypeOK, NEW p \in Part, fixes[p] < MaxFixes
    PROVE  [fixes EXCEPT ![p] = @ + 1] \in [Part -> 0 .. MaxFixes]
  BY CompoundAssumption DEF TypeOK

LEMMA FoundType ==
    ASSUME TypeOK, NEW p \in Part, NEW found \in BOOLEAN
    PROVE  [verified EXCEPT ![p] = found] \in [Part -> BOOLEAN]
  BY Zenon DEF TypeOK

LEMMA MarkType ==
    ASSUME TypeOK, NEW d \in Deliverable, NEW s \in PartState
    PROVE  [part EXCEPT ![d] = s] \in [Deliverable -> PartState]
  BY Zenon DEF TypeOK

LEMMA PartWorkType ==
    ASSUME TypeOK, NEW a \in agents, PartWorkDone(a)
    PROVE  TypeOK'
  <1>1. a.part \in Deliverable /\ a.part \in Part
    BY WholeApart DEF PartWorkDone, OfDeliverable
  <1>2. part' \in [Deliverable -> PartState]
    BY <1>1, MarkType DEF PartWorkDone, PartState
  <1>3. verified' \in [Part -> BOOLEAN]
    BY <1>1, FoundType DEF PartWorkDone
  <1>4. agents' \subseteq Agent /\ last' \in Agent
    BY <1>1, ReplaceType DEF PartWorkDone, Role
  <1> QED
    BY <1>2, <1>3, <1>4 DEF PartWorkDone, TypeOK

LEMMA PartPassesType ==
    ASSUME TypeOK, NEW a \in agents, PartPasses(a)
    PROVE  TypeOK'
  <1>1. part' \in [Deliverable -> PartState]
    BY MarkType DEF PartPasses, OfDeliverable, PartState
  <1>2. agents' \subseteq Agent /\ last' \in Agent
    BY ReplaceType, LeavesType, WholeApart DEF PartPasses, Role
  <1>3. state' \in ChainState
    BY DEF PartPasses, TypeOK, ChainState
  <1> QED
    BY <1>1, <1>2, <1>3 DEF PartPasses, TypeOK

LEMMA PartFixType ==
    ASSUME TypeOK, NEW a \in agents, PartNeedsFix(a)
    PROVE  TypeOK'
  <1>1. a.part \in Deliverable /\ a.part \in Part
    BY WholeApart DEF PartNeedsFix, OfDeliverable
  <1>2. part' \in [Deliverable -> PartState]
    BY <1>1, MarkType DEF PartNeedsFix, PartState
  <1>3. fixes' \in [Part -> 0 .. MaxFixes]
    <2>1. fixes[a.part] \in Nat /\ MaxFixes \in Nat
      BY <1>1, CompoundAssumption DEF TypeOK
    <2>2. CASE fixes[a.part] >= MaxFixes
      BY <2>2 DEF PartNeedsFix, TypeOK
    <2>3. CASE ~ (fixes[a.part] >= MaxFixes)
      <3>1. fixes[a.part] < MaxFixes
        BY <2>1, <2>3
      <3> QED
        BY <1>1, <2>3, <3>1, CountType DEF PartNeedsFix
    <2> QED
      BY <2>2, <2>3
  <1>4. state' \in ChainState /\ agents' \subseteq Agent /\ last' \in Agent
    BY FailType, LeavesType DEF PartNeedsFix, TypeOK
  <1>5. planned' \subseteq Part
    BY <1>1 DEF PartNeedsFix, TypeOK
  <1> QED
    BY <1>2, <1>3, <1>4, <1>5 DEF PartNeedsFix, TypeOK

LEMMA PartFixEndsType ==
    ASSUME TypeOK, NEW d \in Deliverable, PartFixMerged(d) \/ PartFixFailed(d)
    PROVE  TypeOK'
  <1>1. part' \in [Deliverable -> PartState]
    BY MarkType DEF PartFixMerged, PartFixFailed, PartState, TypeOK
  <1>2. state' \in ChainState /\ agents' \subseteq Agent /\ last' \in Agent
    BY FailType, ReplaceType, WholeApart DEF PartFixMerged, PartFixFailed, Role, TypeOK
  <1> QED
    BY <1>1, <1>2 DEF PartFixMerged, PartFixFailed, TypeOK

LEMMA WholeWorkType ==
    ASSUME TypeOK, NEW a \in agents, Integrated(a) \/ WholeWorkDone(a) \/ WholePasses(a)
    PROVE  TypeOK'
  <1>1. CASE Integrated(a)
    <2>1. state' \in ChainState /\ agents' \subseteq Agent /\ last' \in Agent
      BY <1>1, ReviewType, LeavesType DEF Integrated, TypeOK
    <2> QED
      BY <1>1, <2>1 DEF Integrated, TypeOK
  <1>2. CASE WholeWorkDone(a)
    <2>1. state' \in ChainState /\ agents' \subseteq Agent /\ last' \in Agent
      BY <1>2, ReviewType DEF WholeWorkDone
    <2>2. verified' \in [Part -> BOOLEAN]
      BY <1>2, FoundType, WholeApart DEF WholeWorkDone
    <2> QED
      BY <1>2, <2>1, <2>2 DEF WholeWorkDone, TypeOK
  <1>3. CASE WholePasses(a)
    <2>1. state' \in ChainState /\ agents' \subseteq Agent /\ last' \in Agent
      BY <1>3, LeavesType DEF WholePasses, ChainState
    <2> QED
      BY <1>3, <2>1 DEF WholePasses, TypeOK
  <1> QED
    BY <1>1, <1>2, <1>3

LEMMA WholeFixType ==
    ASSUME TypeOK, NEW a \in agents, WholeNeedsFix(a)
    PROVE  TypeOK'
  <1>1. fixes[Whole] \in Nat /\ MaxFixes \in Nat
    BY WholeApart, CompoundAssumption DEF TypeOK
  <1>2. fixes' \in [Part -> 0 .. MaxFixes]
    <2>1. CASE fixes[Whole] >= MaxFixes
      BY <2>1 DEF WholeNeedsFix, TypeOK
    <2>2. CASE ~ (fixes[Whole] >= MaxFixes)
      <3>1. fixes[Whole] < MaxFixes
        BY <1>1, <2>2
      <3> QED
        BY <2>2, <3>1, CountType, WholeApart DEF WholeNeedsFix
    <2> QED
      BY <2>1, <2>2
  <1>3. state' \in ChainState /\ agents' \subseteq Agent /\ last' \in Agent
    BY FailType, LeavesType DEF WholeNeedsFix, ChainState
  <1>4. planned' \subseteq Part
    BY WholeApart DEF WholeNeedsFix, TypeOK
  <1> QED
    BY <1>2, <1>3, <1>4 DEF WholeNeedsFix, TypeOK

LEMMA WholeFixEndsType ==
    ASSUME TypeOK, WholeFixMerged \/ WholeFixFailed
    PROVE  TypeOK'
  <1>1. state' \in ChainState /\ agents' \subseteq Agent /\ last' \in Agent
    BY FailType, ReplaceType, WholeApart
       DEF WholeFixMerged, WholeFixFailed, Role, ChainState, TypeOK
  <1> QED
    BY <1>1 DEF WholeFixMerged, WholeFixFailed, TypeOK

LEMMA FailureType ==
    ASSUME TypeOK, NEW a \in agents, TransportFails(a) \/ AgentFails(a)
    PROVE  TypeOK'
  <1>1. a \in Agent
    BY DEF TypeOK
  <1>2. state' \in ChainState /\ agents' \subseteq Agent /\ last' \in Agent
    BY FailType, LeavesType DEF TransportFails, AgentFails, TypeOK
  <1>3. retried' \in 0 .. RetryLimit
    BY CompoundAssumption DEF TransportFails, AgentFails, TypeOK
  <1>4. respawn' \subseteq Agent
    BY <1>1 DEF TransportFails, AgentFails, TypeOK
  <1> QED
    BY <1>2, <1>3, <1>4 DEF TransportFails, AgentFails, TypeOK

LEMMA RetryType ==
    ASSUME TypeOK, NEW a \in respawn, RetryDue(a)
    PROVE  TypeOK'
  <1>1. a \in Agent
    BY DEF TypeOK
  <1>2. agents' \subseteq Agent /\ last' \in Agent
    BY <1>1, RespawnedAgent DEF RetryDue, Replace, TypeOK
  <1> QED
    BY <1>2 DEF RetryDue, TypeOK

LEMMA NextType == TypeOK /\ [Next]_vars => TypeOK'
  <1> SUFFICES ASSUME TypeOK, [Next]_vars PROVE TypeOK'
    OBVIOUS
  <1>1. CASE Answer
    BY <1>1, PartWorkType, PartPassesType, PartFixType, PartFixEndsType, WholeWorkType,
       WholeFixType, WholeFixEndsType, FailureType, RetryType DEF Answer
  <1>2. CASE Cancel
    BY <1>2, FailType DEF Cancel, TypeOK
  <1>3. CASE UNCHANGED vars
    BY <1>3 DEF vars, TypeOK
  <1> QED
    BY <1>1, <1>2, <1>3 DEF Next

(* States are well-formed, whatever fails.                                   *)
THEOREM TypeCorrect == Spec => []TypeOK
  BY InitType, NextType, PTL DEF Spec

-----------------------------------------------------------------------------
(* The whole and its parts.                                                  *)

LEMMA InitJoined == Init => Joined
  <1> SUFFICES ASSUME Init PROVE Joined
    OBVIOUS
  <1>1. TypeOK
    BY InitType
  <1>2. \A a \in agents : a.role = "engineer" /\ a.part \in Deliverable /\ a.known
    BY DEF Init, Started
  <1>3. ASSUME NEW a \in agents, NEW b \in agents, a.part = b.part
        PROVE  a = b
    <2>1. PICK d \in Deliverable : a = Started("engineer", d)
      BY DEF Init
    <2>2. PICK e \in Deliverable : b = Started("engineer", e)
      BY DEF Init
    <2>3. d = e
      BY <1>3, <2>1, <2>2 DEF Started
    <2> QED
      BY <2>1, <2>2, <2>3
  <1>4. PartsOK
    BY <1>2, <1>3 DEF Init, PartsOK, OfDeliverable
  <1>5. FixesOK /\ WholeOK /\ FailedOK /\ WholeOfPassedParts
    BY <1>2, WholeApart DEF Init, FixesOK, WholeOK, FailedOK, WholeOfPassedParts
  <1> QED
    BY <1>1, <1>4, <1>5 DEF Joined

(* Where a part is at work, the whole is not.                                *)
LEMMA EngineeringAtWork ==
    ASSUME Joined, NEW d \in Deliverable, part[d] # "passed", state # "failed"
    PROVE  state = "engineering"
  BY DEF Joined, TypeOK, ChainState, WholeOfPassedParts

LEMMA AgentsChain ==
    ASSUME Joined, NEW a \in agents
    PROVE  state # "failed"
  BY DEF Joined, FailedOK

(* An agent belongs to a deliverable or to the whole.                        *)
LEMMA AgentsPart ==
    ASSUME Joined, NEW a \in agents
    PROVE  /\ a \in Agent
           /\ a.part \in Deliverable \/ a.part = Whole
           /\ a.part \in Deliverable <=> OfDeliverable(a)
  BY AgentFields DEF Joined, TypeOK, PartsOK, Part, OfDeliverable

(* A chain that fails keeps what there is to keep.                           *)
LEMMA FailJoined ==
    ASSUME Joined, FailChain, TypeOK', respawn' \subseteq respawn
    PROVE  Joined'
  BY DEF FailChain, Joined, PartsOK, FixesOK, WholeOK, FailedOK, WholeOfPassedParts, Begun

LEMMA PartWorkJoined ==
    ASSUME Joined, NEW a \in agents, PartWorkDone(a)
    PROVE  Joined'
  <1> DEFINE b == Started("reviewer", a.part)
  <1>1. TypeOK'
    BY PartWorkType DEF Joined
  <1>2. a.part \in Deliverable /\ part[a.part] # "passed" /\ state = "engineering"
    BY EngineeringAtWork, AgentsChain DEF PartWorkDone, OfDeliverable, Joined, PartsOK
  <1>3. b.role = "reviewer" /\ b.part = a.part /\ b.known
    BY DEF Started
  <1>4. agents' = (agents \ {a}) \cup {b}
    BY DEF PartWorkDone, Replace
  <1>5. part' = [part EXCEPT ![a.part] = "reviewing"]
    BY DEF PartWorkDone
  <1>6. part'[a.part] = "reviewing" /\ \A d \in Deliverable : d # a.part => part'[d] = part[d]
    BY <1>2, <1>5 DEF Joined, TypeOK
  <1>7. \A c \in agents \ {a} : c.part # a.part
    BY <1>2 DEF Joined, PartsOK
  <1>8. PartsOK'
    BY <1>2, <1>3, <1>4, <1>6, <1>7 DEF Joined, PartsOK, OfDeliverable
  <1>9. FixesOK'
    BY <1>2, <1>3, <1>4, <1>6 DEF PartWorkDone, Joined, FixesOK
  <1>10. WholeOK' /\ FailedOK' /\ WholeOfPassedParts'
    BY <1>2, <1>3, <1>4, WholeApart
       DEF PartWorkDone, Joined, WholeOK, FailedOK, WholeOfPassedParts, Begun
  <1> QED
    BY <1>1, <1>8, <1>9, <1>10 DEF Joined

LEMMA PartPassesJoined ==
    ASSUME Joined, NEW a \in agents, PartPasses(a)
    PROVE  Joined'
  <1> DEFINE b == Started("integrator", Whole)
  <1>1. TypeOK'
    BY PartPassesType DEF Joined
  <1>2. a.part \in Deliverable /\ part[a.part] # "passed" /\ state = "engineering"
    BY EngineeringAtWork, AgentsChain DEF PartPasses, OfDeliverable, Joined, PartsOK
  <1>3. part' = [part EXCEPT ![a.part] = "passed"]
    BY DEF PartPasses
  <1>4. part'[a.part] = "passed" /\ \A d \in Deliverable : d # a.part => part'[d] = part[d]
    BY <1>2, <1>3 DEF Joined, TypeOK
  <1>5. \A c \in agents \ {a} : c.part # a.part
    BY <1>2 DEF Joined, PartsOK
  <1>6. a.part \notin planned
    BY <1>2 DEF Joined, FixesOK
  <1>7. UNCHANGED <<respawn, planned>>
    BY DEF PartPasses
  <1>8. b.role = "integrator" /\ b.part = Whole
    BY DEF Started
  <1>9. CASE AllPassed
    <2>1. state' = "integrating" /\ agents' = (agents \ {a}) \cup {b}
      BY <1>2, <1>9 DEF PartPasses, Replace
    <2>2. WholeOfPassedParts'
      BY <1>9 DEF AllPassed, WholeOfPassedParts
    <2>3. PartsOK'
      BY <1>2, <1>4, <1>5, <1>8, <2>1, WholeApart DEF Joined, PartsOK, OfDeliverable
    <2>4. FixesOK'
      BY <1>2, <1>4, <1>6, <1>7, <1>8, <2>1, WholeApart DEF Joined, FixesOK
    <2>5. WholeOK' /\ FailedOK'
      BY <1>7, <2>1 DEF Joined, WholeOK, FailedOK, Begun
    <2> QED
      BY <1>1, <2>2, <2>3, <2>4, <2>5 DEF Joined
  <1>10. CASE ~AllPassed
    <2>1. state' = "engineering" /\ agents' = agents \ {a}
      BY <1>2, <1>10 DEF PartPasses, Leaves
    <2>2. PartsOK'
      BY <1>2, <1>4, <1>5, <2>1 DEF Joined, PartsOK, OfDeliverable
    <2>3. FixesOK'
      BY <1>2, <1>4, <1>6, <1>7, <2>1 DEF Joined, FixesOK
    <2>4. WholeOK' /\ FailedOK' /\ WholeOfPassedParts'
      BY <1>2, <1>7, <2>1 DEF Joined, WholeOK, FailedOK, WholeOfPassedParts, Begun
    <2> QED
      BY <1>1, <2>2, <2>3, <2>4 DEF Joined
  <1> QED
    BY <1>9, <1>10

LEMMA PartFixJoined ==
    ASSUME Joined, NEW a \in agents, PartNeedsFix(a)
    PROVE  Joined'
  <1>1. TypeOK' /\ UNCHANGED respawn
    BY PartFixType DEF Joined, PartNeedsFix
  <1>2. CASE FailChain
    BY <1>1, <1>2, FailJoined
  <1>3. CASE ~FailChain
    <2>1. /\ part' = [part EXCEPT ![a.part] = "fixing"]
          /\ planned' = planned \cup {a.part}
          /\ agents' = agents \ {a}
          /\ UNCHANGED state
      BY <1>3 DEF PartNeedsFix, Leaves
    <2>2. a.part \in Deliverable /\ part[a.part] # "passed" /\ state = "engineering"
      BY EngineeringAtWork, AgentsChain DEF PartNeedsFix, OfDeliverable, Joined, PartsOK
    <2>3. part'[a.part] = "fixing" /\ \A d \in Deliverable : d # a.part => part'[d] = part[d]
      BY <2>1, <2>2 DEF Joined, TypeOK
    <2>4. \A c \in agents \ {a} : c.part # a.part
      BY <2>2 DEF Joined, PartsOK
    <2>5. PartsOK'
      BY <2>1, <2>2, <2>3, <2>4 DEF Joined, PartsOK, OfDeliverable
    <2>6. FixesOK'
      BY <2>1, <2>2, <2>3, <2>4 DEF Joined, FixesOK
    <2>7. WholeOK' /\ FailedOK' /\ WholeOfPassedParts'
      BY <1>1, <2>1, <2>2, WholeApart
         DEF Joined, WholeOK, FailedOK, WholeOfPassedParts, Begun
    <2> QED
      BY <1>1, <2>5, <2>6, <2>7 DEF Joined
  <1> QED
    BY <1>2, <1>3

LEMMA PartFixEndsJoined ==
    ASSUME Joined, NEW d \in Deliverable, PartFixMerged(d) \/ PartFixFailed(d)
    PROVE  Joined'
  <1> DEFINE b == Started("reviewer", d)
  <1>1. TypeOK' /\ UNCHANGED respawn /\ planned' = planned \ {d} /\ d \in planned
    BY PartFixEndsType DEF Joined, PartFixMerged, PartFixFailed
  <1>2. CASE FailChain
    BY <1>1, <1>2, FailJoined
  <1>3. CASE state = "failed"
    <2>1. UNCHANGED <<state, part, agents>>
      BY <1>3 DEF PartFixMerged, PartFixFailed
    <2> QED
      BY <1>1, <1>3, <2>1
         DEF Joined, PartsOK, OfDeliverable, FixesOK, WholeOK, FailedOK, WholeOfPassedParts, Begun
  <1>4. CASE state # "failed" /\ ~FailChain
    <2>1. /\ part' = [part EXCEPT ![d] = "reviewing"]
          /\ agents' = agents \cup {b}
          /\ UNCHANGED state
      BY <1>4 DEF PartFixMerged, PartFixFailed, Replace
    <2>2. part[d] # "passed" /\ (\A c \in agents : c.part # d) /\ state = "engineering"
      BY <1>1, <1>4, EngineeringAtWork DEF Joined, FixesOK
    <2>3. part'[d] = "reviewing" /\ \A e \in Deliverable : e # d => part'[e] = part[e]
      BY <2>1 DEF Joined, TypeOK
    <2>4. b.role = "reviewer" /\ b.part = d /\ b.known
      BY DEF Started
    <2>5. PartsOK'
      BY <2>1, <2>2, <2>3, <2>4 DEF Joined, PartsOK, OfDeliverable
    <2>6. FixesOK'
      BY <1>1, <2>1, <2>2, <2>3, <2>4 DEF Joined, FixesOK
    <2>7. WholeOK' /\ FailedOK' /\ WholeOfPassedParts'
      BY <1>1, <2>1, <2>2, <2>4, WholeApart
         DEF Joined, WholeOK, FailedOK, WholeOfPassedParts, Begun
    <2> QED
      BY <1>1, <2>5, <2>6, <2>7 DEF Joined
  <1> QED
    BY <1>2, <1>3, <1>4

(* Once the whole is at work, its own agents, fixes and retries disturb      *)
(* nothing.                                                                  *)
LEMMA WholeJoined ==
    ASSUME Joined, TypeOK', Begun, state # "failed", UNCHANGED part,
           Begun', state' = "failed" => agents' = {},
           \A a \in agents' \ agents : a.part = Whole,
           \A a \in respawn' \ respawn : a.part = Whole,
           planned' \subseteq planned \cup {Whole}
    PROVE  Joined'
  <1>1. \A d \in Deliverable : part[d] = "passed"
    BY DEF Joined, TypeOK, ChainState, WholeOfPassedParts, Begun
  <1>2. \A a \in agents : a.part \notin Deliverable
    BY <1>1 DEF Joined, PartsOK
  <1>3. \A d \in planned : d \notin Deliverable
    BY <1>1 DEF Joined, FixesOK
  <1>4. PartsOK'
    BY <1>2, WholeApart DEF PartsOK
  <1>5. FixesOK'
    BY <1>3, WholeApart DEF FixesOK
  <1>6. WholeOK' /\ FailedOK' /\ WholeOfPassedParts'
    BY <1>1 DEF Joined, WholeOK, FailedOK, WholeOfPassedParts
  <1> QED
    BY <1>4, <1>5, <1>6 DEF Joined

LEMMA WholesAgent ==
    ASSUME Joined, NEW a \in agents, ~ OfDeliverable(a)
    PROVE  a.part = Whole /\ Begun /\ state # "failed"
  BY AgentsPart, AgentsChain DEF Joined, WholeOK

LEMMA IntegratorsPart ==
    ASSUME Joined, NEW a \in agents, a.role = "integrator"
    PROVE  ~ OfDeliverable(a)
  BY AgentsPart DEF Joined, PartsOK

LEMMA WholeWorkJoined ==
    ASSUME Joined, NEW a \in agents, Integrated(a) \/ WholeWorkDone(a) \/ WholePasses(a)
    PROVE  Joined'
  <1> DEFINE b == Started("reviewer", Whole)
  <1>1. TypeOK' /\ UNCHANGED <<part, respawn, planned>>
    BY WholeWorkType DEF Joined, Integrated, WholeWorkDone, WholePasses
  <1>2. Begun /\ state # "failed"
    BY WholesAgent, IntegratorsPart DEF Integrated, WholeWorkDone, WholePasses, OfWhole
  <1>3. b.part = Whole
    BY DEF Started
  <1>4. agents' = (agents \ {a}) \cup {b} \/ agents' = agents \ {a}
    BY DEF Integrated, WholeWorkDone, WholePasses, StartReview, Replace, Leaves
  <1>5. Begun' /\ state' # "failed"
    BY <1>2 DEF Integrated, WholeWorkDone, WholePasses, StartReview, Begun
  <1> QED
    BY <1>1, <1>2, <1>3, <1>4, <1>5, WholeJoined

LEMMA WholeFixJoined ==
    ASSUME Joined, NEW a \in agents, WholeNeedsFix(a)
    PROVE  Joined'
  <1>1. TypeOK' /\ UNCHANGED <<part, respawn>>
    BY WholeFixType DEF Joined, WholeNeedsFix
  <1>2. Begun /\ state # "failed"
    BY WholesAgent DEF WholeNeedsFix, OfWhole
  <1>3. Begun' /\ (state' = "failed" => agents' = {}) /\ agents' \subseteq agents
    BY DEF WholeNeedsFix, FailChain, Leaves, Begun
  <1>4. planned' \subseteq planned \cup {Whole}
    BY DEF WholeNeedsFix
  <1> QED
    BY <1>1, <1>2, <1>3, <1>4, WholeJoined

LEMMA WholeFixEndsJoined ==
    ASSUME Joined, WholeFixMerged \/ WholeFixFailed
    PROVE  Joined'
  <1> DEFINE b == Started("reviewer", Whole)
  <1>1. TypeOK' /\ UNCHANGED <<part, respawn>> /\ planned' = planned \ {Whole} /\ Whole \in planned
    BY WholeFixEndsType DEF Joined, WholeFixMerged, WholeFixFailed
  <1>2. CASE state = "failed"
    <2>1. UNCHANGED <<state, agents>>
      BY <1>2 DEF WholeFixMerged, WholeFixFailed
    <2> QED
      BY <1>1, <1>2, <2>1
         DEF Joined, PartsOK, OfDeliverable, FixesOK, WholeOK, FailedOK, WholeOfPassedParts, Begun
  <1>3. CASE state # "failed"
    <2>1. Begun
      BY <1>1 DEF Joined, WholeOK
    <2>2. b.part = Whole
      BY DEF Started
    <2>3. Begun' /\ (state' = "failed" => agents' = {}) /\ agents' \subseteq agents \cup {b}
      BY <1>3 DEF WholeFixMerged, WholeFixFailed, FailChain, Replace, Begun
    <2> QED
      BY <1>1, <1>3, <2>1, <2>2, <2>3, WholeJoined
  <1> QED
    BY <1>2, <1>3

(* The one place that needs the assumption: an agent of a deliverable that   *)
(* fails takes the chain with it.                                            *)
LEMMA FailureJoined ==
    ASSUME OnlyIntegratorFlaky, Joined, NEW a \in agents, TransportFails(a) \/ AgentFails(a)
    PROVE  Joined'
  <1>1. TypeOK' /\ UNCHANGED <<part, planned>>
    BY FailureType DEF Joined, TransportFails, AgentFails
  <1>2. CASE FailChain /\ UNCHANGED respawn
    BY <1>1, <1>2, FailJoined
  <1>3. CASE ~ (FailChain /\ UNCHANGED respawn)
    <2>1. /\ TransportFails(a)
          /\ UNCHANGED state
          /\ agents' = agents \ {a}
          /\ respawn' = respawn \cup {a}
      BY <1>3 DEF TransportFails, AgentFails, Leaves
    <2>2. a.role = "integrator"
      BY <2>1 DEF TransportFails, OnlyIntegratorFlaky
    <2>3. a.part = Whole /\ Begun /\ state # "failed"
      BY <2>2, IntegratorsPart, WholesAgent
    <2> QED
      BY <1>1, <2>1, <2>3, WholeJoined DEF Begun
  <1> QED
    BY <1>2, <1>3

LEMMA RetryJoined ==
    ASSUME Joined, NEW a \in respawn, RetryDue(a)
    PROVE  Joined'
  <1>1. TypeOK' /\ UNCHANGED <<state, part, planned>> /\ respawn' = respawn \ {a}
    BY RetryType DEF Joined, RetryDue
  <1>2. CASE state = "failed"
    <2>1. UNCHANGED agents
      BY <1>2 DEF RetryDue
    <2> QED
      BY <1>1, <1>2, <2>1
         DEF Joined, PartsOK, OfDeliverable, FixesOK, WholeOK, FailedOK, WholeOfPassedParts, Begun
  <1>3. CASE state # "failed"
    <2>1. a \in Agent /\ a.part = Whole /\ Begun
      BY DEF Joined, TypeOK, WholeOK
    <2>2. Respawned(a).part = Whole
      BY <2>1, RespawnedAgent
    <2>3. agents' = agents \cup {Respawned(a)}
      BY <1>3 DEF RetryDue, Replace
    <2> QED
      BY <1>1, <1>3, <2>1, <2>2, <2>3, WholeJoined DEF Begun
  <1> QED
    BY <1>2, <1>3

LEMMA NextJoined ==
    ASSUME OnlyIntegratorFlaky, Joined, [Next]_vars
    PROVE  Joined'
  <1>1. CASE Answer
    BY <1>1, PartWorkJoined, PartPassesJoined, PartFixJoined, PartFixEndsJoined,
       WholeWorkJoined, WholeFixJoined, WholeFixEndsJoined, FailureJoined, RetryJoined DEF Answer
  <1>2. CASE Cancel
    <2>1. TypeOK'
      BY NextType DEF Joined
    <2> QED
      BY <1>2, <2>1, FailJoined DEF Cancel
  <1>3. CASE UNCHANGED vars
    BY <1>3 DEF vars, Joined, TypeOK, PartsOK, OfDeliverable, FixesOK, WholeOK, FailedOK,
                WholeOfPassedParts, Begun
  <1> QED
    BY <1>1, <1>2, <1>3 DEF Next

(* However many deliverables, fixes and retries there are: nothing is        *)
(* integrated, reviewed as a whole or handed to the gates before every       *)
(* deliverable has passed, if only the integrator's connection may fail.     *)
THEOREM IntegratesPassedParts == OnlyIntegratorFlaky => (Spec => []WholeOfPassedParts)
  <1> SUFFICES ASSUME OnlyIntegratorFlaky PROVE Spec => []WholeOfPassedParts
    OBVIOUS
  <1>1. Joined /\ [Next]_vars => Joined'
    BY NextJoined
  <1>2. Joined => WholeOfPassedParts
    BY DEF Joined
  <1> QED
    BY <1>1, <1>2, InitJoined, PTL DEF Spec

-----------------------------------------------------------------------------
(* One worker for each part.  WorkersOf counts; the proof goes by the sets   *)
(* that are counted.                                                         *)

Crew == agents \cup respawn
Workers(p) == {a \in Crew : a.part = p}

(* Somebody works on a deliverable or its fix is under way, until it passes. *)
PartStaffed(d) ==
    IF d \notin planned /\ part[d] # "passed"
    THEN \E a \in Crew : Workers(d) = {a}
    ELSE Workers(d) = {} /\ (part[d] = "passed" => d \notin planned)

(* Whoever works on the whole fits the phase it is in: an integrator whose   *)
(* retry came after the review had begun would leave nobody.                 *)
WholeStaffed ==
    /\ Workers(Whole) = CASE state = "integrating" -> {Started("integrator", Whole)}
                          [] state = "reviewing" -> {Started("reviewer", Whole)}
                          [] OTHER -> {}
    /\ Whole \in planned <=> state = "fixing"

Staffed ==
    /\ agents \cap respawn = {}
    /\ \A a \in Crew : a.known
    /\ \A a \in respawn : a.role = "integrator" /\ a.part = Whole
    /\ state # "failed" => (\A d \in Deliverable : PartStaffed(d)) /\ WholeStaffed

SInv == Joined /\ Staffed

(* A chain that has failed needs nobody.                                     *)
LEMMA FailStaffed ==
    ASSUME SInv, agents' = {}, state' = "failed", respawn' \subseteq respawn
    PROVE  Staffed'
  BY DEF SInv, Staffed, Crew

(* An agent leaves or is replaced by another one.                            *)
LEMMA CrewLeaves ==
    ASSUME SInv, NEW a \in agents, UNCHANGED respawn, agents' = agents \ {a}
    PROVE  /\ Crew' = Crew \ {a} /\ a \in Crew
           /\ \A p : Workers(p)' = Workers(p) \ {a}
  BY DEF SInv, Staffed, Crew, Workers

LEMMA CrewSwaps ==
    ASSUME SInv, NEW a \in agents, NEW b, UNCHANGED respawn, agents' = (agents \ {a}) \cup {b}
    PROVE  /\ Crew' = (Crew \ {a}) \cup {b} /\ a \in Crew
           /\ \A p : Workers(p)' = (Workers(p) \ {a}) \cup (IF b.part = p THEN {b} ELSE {})
  BY DEF SInv, Staffed, Crew, Workers

LEMMA CrewGrows ==
    ASSUME NEW b, UNCHANGED respawn, agents' = agents \cup {b}
    PROVE  /\ Crew' = Crew \cup {b}
           /\ \A p : Workers(p)' = Workers(p) \cup (IF b.part = p THEN {b} ELSE {})
  BY DEF Crew, Workers

LEMMA OtherPart ==
    ASSUME NEW d, PartStaffed(d), Workers(d)' = Workers(d),
           part'[d] = part[d], d \in planned' <=> d \in planned
    PROVE  PartStaffed(d)'
  <1>1. \A a : a \in Workers(d) <=> a \in Crew /\ a.part = d
    BY DEF Workers
  <1>2. \A a : a \in Workers(d)' <=> a \in Crew' /\ a.part = d
    BY DEF Workers
  <1> QED
    BY <1>1, <1>2 DEF PartStaffed

LEMMA OtherWhole ==
    ASSUME WholeStaffed, Workers(Whole)' = Workers(Whole), UNCHANGED state,
           Whole \in planned' <=> Whole \in planned
    PROVE  WholeStaffed'
  BY DEF WholeStaffed

(* While a deliverable is at work the chain is in its first phase, and the   *)
(* agent that answers for it is the only one it has.                         *)
LEMMA OnlyWorker ==
    ASSUME SInv, NEW a \in agents, OfDeliverable(a)
    PROVE  /\ a.part \in Deliverable /\ a.part # Whole
           /\ part[a.part] # "passed" /\ a.part \notin planned
           /\ Workers(a.part) = {a} /\ state = "engineering"
           /\ \A p : p # a.part => a \notin Workers(p)
           /\ WholeStaffed /\ \A d \in Deliverable : PartStaffed(d)
  <1>1. a.part \in Deliverable /\ a.part # Whole
    BY WholeApart DEF OfDeliverable
  <1>2. part[a.part] # "passed" /\ state # "failed" /\ state = "engineering"
    BY <1>1, AgentsChain, EngineeringAtWork DEF SInv, Joined, PartsOK
  <1>3. a.part \notin planned
    BY <1>1, <1>2 DEF SInv, Joined, FixesOK
  <1>4. WholeStaffed /\ \A d \in Deliverable : PartStaffed(d)
    BY <1>2 DEF SInv, Staffed
  <1>5. a \in Workers(a.part) /\ \A p : p # a.part => a \notin Workers(p)
    BY DEF Workers, Crew
  <1>6. Workers(a.part) = {a}
    BY <1>1, <1>2, <1>3, <1>4, <1>5 DEF PartStaffed
  <1> QED
    BY <1>1, <1>2, <1>3, <1>4, <1>5, <1>6

LEMMA PartWorkStaffed ==
    ASSUME SInv, NEW a \in agents, PartWorkDone(a)
    PROVE  Staffed'
  <1> DEFINE b == Started("reviewer", a.part)
  <1>1. /\ UNCHANGED <<state, respawn, planned>> /\ agents' = (agents \ {a}) \cup {b}
        /\ part' = [part EXCEPT ![a.part] = "reviewing"] /\ OfDeliverable(a)
    BY DEF PartWorkDone, Replace
  <1>2. b.role = "reviewer" /\ b.part = a.part /\ b.known
    BY DEF Started
  <1> HIDE DEF b
  <1>3. /\ a.part \in Deliverable /\ a.part # Whole /\ a.part \notin planned
        /\ Workers(a.part) = {a} /\ state = "engineering"
        /\ \A p : p # a.part => a \notin Workers(p)
        /\ WholeStaffed /\ \A d \in Deliverable : PartStaffed(d)
    BY <1>1, OnlyWorker
  <1>4. /\ Crew' = (Crew \ {a}) \cup {b}
        /\ \A p : Workers(p)' = (Workers(p) \ {a}) \cup (IF b.part = p THEN {b} ELSE {})
    BY <1>1, CrewSwaps
  <1>5. part'[a.part] = "reviewing" /\ \A d \in Deliverable : d # a.part => part'[d] = part[d]
    BY <1>1, <1>3 DEF SInv, Joined, TypeOK
  <1>6. \A p : p # a.part => Workers(p)' = Workers(p)
    BY <1>2, <1>3, <1>4
  <1>7. Workers(a.part)' = {b} /\ b \in Crew'
    BY <1>2, <1>3, <1>4
  <1>8. PartStaffed(a.part)'
    BY <1>1, <1>3, <1>5, <1>7 DEF PartStaffed
  <1>9. ASSUME NEW d \in Deliverable, d # a.part PROVE PartStaffed(d)'
    BY <1>1, <1>3, <1>5, <1>6, <1>9, OtherPart
  <1>10. WholeStaffed'
    BY <1>1, <1>3, <1>6, OtherWhole
  <1>11. \A c \in Crew' : c.known
    BY <1>2, <1>4 DEF SInv, Staffed
  <1>12. b \notin respawn
    BY <1>2 DEF SInv, Staffed
  <1> QED
    BY <1>1, <1>8, <1>9, <1>10, <1>11, <1>12 DEF SInv, Staffed

LEMMA PartPassesStaffed ==
    ASSUME SInv, NEW a \in agents, PartPasses(a)
    PROVE  Staffed'
  <1> DEFINE b == Started("integrator", Whole)
  <1>1. /\ UNCHANGED <<respawn, planned>> /\ OfDeliverable(a)
        /\ part' = [part EXCEPT ![a.part] = "passed"]
    BY DEF PartPasses
  <1>2. b.role = "integrator" /\ b.part = Whole /\ b.known
    BY DEF Started
  <1>3. /\ a.part \in Deliverable /\ a.part # Whole /\ a.part \notin planned
        /\ Workers(a.part) = {a} /\ state = "engineering"
        /\ \A p : p # a.part => a \notin Workers(p)
        /\ WholeStaffed /\ \A d \in Deliverable : PartStaffed(d)
    BY <1>1, OnlyWorker
  <1>4. part'[a.part] = "passed" /\ \A d \in Deliverable : d # a.part => part'[d] = part[d]
    BY <1>1, <1>3 DEF SInv, Joined, TypeOK
  <1>5. Workers(Whole) = {} /\ Whole \notin planned
    BY <1>3 DEF WholeStaffed
  <1>6. b \notin Crew
    BY <1>2, <1>5 DEF Workers
  <1>7. CASE AllPassed
    <2>1. state' = "integrating" /\ agents' = (agents \ {a}) \cup {b}
      BY <1>3, <1>7 DEF PartPasses, Replace
    <2> HIDE DEF b
    <2>2. /\ Crew' = (Crew \ {a}) \cup {b}
          /\ \A p : Workers(p)' = (Workers(p) \ {a}) \cup (IF b.part = p THEN {b} ELSE {})
      BY <1>1, <2>1, CrewSwaps
    <2>3. Workers(Whole)' = {b} /\ Workers(a.part)' = {}
      BY <1>2, <1>3, <1>5, <2>2
    <2>4. PartStaffed(a.part)'
      BY <1>1, <1>3, <1>4, <2>3 DEF PartStaffed
    <2>5. ASSUME NEW d \in Deliverable, d # a.part PROVE PartStaffed(d)'
      <3>1. Workers(d)' = Workers(d)
        BY <1>2, <1>3, <2>2, <2>5, WholeApart
      <3> QED
        BY <1>1, <1>3, <1>4, <2>5, <3>1, OtherPart
    <2>6. WholeStaffed'
      BY <1>1, <1>5, <2>1, <2>3 DEF WholeStaffed, b
    <2>7. (\A c \in Crew' : c.known) /\ b \notin respawn
      BY <1>2, <1>6, <2>2 DEF SInv, Staffed, Crew
    <2> QED
      BY <1>1, <2>1, <2>4, <2>5, <2>6, <2>7 DEF SInv, Staffed
  <1>8. CASE ~ AllPassed
    <2>1. state' = state /\ agents' = agents \ {a}
      BY <1>8 DEF PartPasses, Leaves
    <2>2. Crew' = Crew \ {a} /\ \A p : Workers(p)' = Workers(p) \ {a}
      BY <1>1, <2>1, CrewLeaves
    <2>3. PartStaffed(a.part)'
      BY <1>1, <1>3, <1>4, <2>2 DEF PartStaffed
    <2>4. ASSUME NEW d \in Deliverable, d # a.part PROVE PartStaffed(d)'
      <3>1. Workers(d)' = Workers(d)
        BY <1>3, <2>2, <2>4
      <3> QED
        BY <1>1, <1>3, <1>4, <2>4, <3>1, OtherPart
    <2>5. WholeStaffed'
      <3>1. Workers(Whole)' = Workers(Whole)
        BY <1>3, <2>2
      <3> QED
        BY <1>1, <1>3, <2>1, <3>1, OtherWhole
    <2>6. \A c \in Crew' : c.known
      BY <2>2 DEF SInv, Staffed
    <2> QED
      BY <1>1, <2>1, <2>3, <2>4, <2>5, <2>6 DEF SInv, Staffed
  <1> QED
    BY <1>7, <1>8

LEMMA PartFixStaffed ==
    ASSUME SInv, NEW a \in agents, PartNeedsFix(a)
    PROVE  Staffed'
  <1>1. UNCHANGED respawn /\ OfDeliverable(a)
    BY DEF PartNeedsFix
  <1>2. CASE fixes[a.part] >= MaxFixes
    BY <1>1, <1>2, FailStaffed DEF PartNeedsFix, FailChain
  <1>3. CASE ~ (fixes[a.part] >= MaxFixes)
    <2>1. /\ part' = [part EXCEPT ![a.part] = "fixing"]
          /\ planned' = planned \cup {a.part}
          /\ agents' = agents \ {a}
          /\ UNCHANGED state
      BY <1>3 DEF PartNeedsFix, Leaves
    <2>2. /\ a.part \in Deliverable /\ a.part # Whole /\ a.part \notin planned
          /\ Workers(a.part) = {a} /\ state = "engineering"
          /\ \A p : p # a.part => a \notin Workers(p)
          /\ WholeStaffed /\ \A d \in Deliverable : PartStaffed(d)
      BY <1>1, OnlyWorker
    <2>3. part'[a.part] = "fixing" /\ \A d \in Deliverable : d # a.part => part'[d] = part[d]
      BY <2>1, <2>2 DEF SInv, Joined, TypeOK
    <2>4. Crew' = Crew \ {a} /\ \A p : Workers(p)' = Workers(p) \ {a}
      BY <1>1, <2>1, CrewLeaves
    <2>5. PartStaffed(a.part)'
      BY <2>1, <2>2, <2>3, <2>4 DEF PartStaffed
    <2>6. ASSUME NEW d \in Deliverable, d # a.part PROVE PartStaffed(d)'
      <3>1. Workers(d)' = Workers(d)
        BY <2>2, <2>4, <2>6
      <3> QED
        BY <2>1, <2>2, <2>3, <2>6, <3>1, OtherPart
    <2>7. WholeStaffed'
      <3>1. Workers(Whole)' = Workers(Whole)
        BY <2>2, <2>4
      <3> QED
        BY <2>1, <2>2, <3>1, OtherWhole
    <2>8. \A c \in Crew' : c.known
      BY <2>4 DEF SInv, Staffed
    <2> QED
      BY <1>1, <2>1, <2>5, <2>6, <2>7, <2>8 DEF SInv, Staffed
  <1> QED
    BY <1>2, <1>3

LEMMA PartFixEndsStaffed ==
    ASSUME SInv, NEW d \in Deliverable, PartFixMerged(d) \/ PartFixFailed(d)
    PROVE  Staffed'
  <1> DEFINE b == Started("reviewer", d)
  <1>1. /\ UNCHANGED respawn /\ planned' = planned \ {d} /\ d \in planned /\ d # Whole
    BY WholeApart DEF PartFixMerged, PartFixFailed
  <1>2. CASE FailChain
    BY <1>1, <1>2, FailStaffed DEF FailChain
  <1>3. CASE state = "failed"
    <2>1. UNCHANGED <<state, agents>>
      BY <1>3 DEF PartFixMerged, PartFixFailed
    <2> QED
      BY <1>1, <1>3, <2>1 DEF SInv, Staffed, Crew
  <1>4. CASE state # "failed" /\ ~ FailChain
    <2>1. /\ part' = [part EXCEPT ![d] = "reviewing"]
          /\ agents' = agents \cup {b}
          /\ UNCHANGED state
      BY <1>4 DEF PartFixMerged, PartFixFailed, Replace
    <2>2. b.role = "reviewer" /\ b.part = d /\ b.known
      BY DEF Started
    <2> HIDE DEF b
    <2>3. part'[d] = "reviewing" /\ \A e \in Deliverable : e # d => part'[e] = part[e]
      BY <2>1 DEF SInv, Joined, TypeOK
    <2>4. WholeStaffed /\ \A e \in Deliverable : PartStaffed(e)
      BY <1>4 DEF SInv, Staffed
    <2>5. /\ Crew' = Crew \cup {b}
          /\ \A p : Workers(p)' = Workers(p) \cup (IF b.part = p THEN {b} ELSE {})
      BY <1>1, <2>1, CrewGrows
    <2>6. PartStaffed(d)'
      <3>1. Workers(d) = {}
        BY <1>1, <2>4 DEF PartStaffed
      <3>2. Workers(d)' = {b} /\ b \in Crew'
        BY <2>2, <2>5, <3>1
      <3> QED
        BY <1>1, <2>3, <3>2 DEF PartStaffed
    <2>7. ASSUME NEW e \in Deliverable, e # d PROVE PartStaffed(e)'
      <3>1. Workers(e)' = Workers(e)
        BY <2>2, <2>5, <2>7
      <3> QED
        BY <1>1, <2>3, <2>4, <2>7, <3>1, OtherPart
    <2>8. WholeStaffed'
      <3>1. Workers(Whole)' = Workers(Whole)
        BY <1>1, <2>2, <2>5
      <3> QED
        BY <1>1, <2>1, <2>4, <3>1, OtherWhole
    <2>9. (\A c \in Crew' : c.known) /\ b \notin respawn
      BY <2>2, <2>5 DEF SInv, Staffed
    <2> QED
      BY <1>1, <2>1, <2>6, <2>7, <2>8, <2>9 DEF SInv, Staffed
  <1> QED
    BY <1>2, <1>3, <1>4

(* What is at work on the whole leaves the deliverables alone.               *)
LEMMA WholeStep ==
    ASSUME SInv, state # "failed", UNCHANGED part,
           \A d \in Deliverable : Workers(d)' = Workers(d) /\ (d \in planned' <=> d \in planned),
           WholeStaffed', agents' \cap respawn' = {},
           \A c \in Crew' : c.known, \A c \in respawn' : c.role = "integrator" /\ c.part = Whole
    PROVE  Staffed'
  <1>1. ASSUME NEW d \in Deliverable PROVE PartStaffed(d)'
    <2>1. PartStaffed(d)
      BY DEF SInv, Staffed
    <2> QED
      BY <2>1, OtherPart
  <1> QED
    BY <1>1 DEF Staffed

(* The phase tells who the agent of the whole is.                            *)
LEMMA WholesOnly ==
    ASSUME SInv, NEW a \in agents, a.part = Whole
    PROVE  /\ state \in {"integrating", "reviewing"} /\ WholeStaffed
           /\ Workers(Whole) = {a} /\ a \notin respawn
           /\ state = "integrating" <=> a.role = "integrator"
           /\ state = "reviewing" <=> a.role = "reviewer"
           /\ a = Started(a.role, Whole) /\ a.known
  <1>1. state # "failed" /\ WholeStaffed /\ a \notin respawn /\ a.known
    BY AgentsChain DEF SInv, Staffed, Crew
  <1>2. a \in Workers(Whole)
    BY DEF Workers, Crew
  <1>3. \/ state = "integrating" /\ Workers(Whole) = {Started("integrator", Whole)}
        \/ state = "reviewing" /\ Workers(Whole) = {Started("reviewer", Whole)}
    BY <1>1, <1>2 DEF WholeStaffed
  <1>4. CASE state = "integrating"
    <2>1. a = Started("integrator", Whole) /\ Workers(Whole) = {a}
      BY <1>2, <1>3, <1>4
    <2>2. a.role = "integrator"
      BY <2>1 DEF Started
    <2> QED
      BY <1>1, <1>4, <2>1, <2>2
  <1>5. CASE state = "reviewing"
    <2>1. a = Started("reviewer", Whole) /\ Workers(Whole) = {a}
      BY <1>2, <1>3, <1>5
    <2>2. a.role = "reviewer"
      BY <2>1 DEF Started
    <2> QED
      BY <1>1, <1>5, <2>1, <2>2
  <1> QED
    BY <1>3, <1>4, <1>5

LEMMA WholeWorkStaffed ==
    ASSUME SInv, NEW a \in agents, Integrated(a) \/ WholeWorkDone(a) \/ WholePasses(a)
    PROVE  Staffed'
  <1> DEFINE b == Started("reviewer", Whole)
  <1>1. UNCHANGED <<part, respawn, planned>>
    BY DEF Integrated, WholeWorkDone, WholePasses
  <1>2. a.part = Whole
    BY WholesAgent, IntegratorsPart DEF SInv, Integrated, WholeWorkDone, WholePasses, OfWhole
  <1>3. /\ state \in {"integrating", "reviewing"} /\ WholeStaffed
        /\ Workers(Whole) = {a}
        /\ state = "integrating" <=> a.role = "integrator"
        /\ a.known
    BY <1>2, WholesOnly
  <1>4. ~ WholeWorkDone(a)
    BY <1>3 DEF WholeWorkDone
  <1>5. \A d \in Deliverable : a \notin Workers(d)
    BY <1>2, WholeApart DEF Workers
  <1>6. CASE Integrated(a)
    <2>1. state = "integrating" /\ state' = "reviewing" /\ agents' = (agents \ {a}) \cup {b}
      BY <1>3, <1>6 DEF Integrated, StartReview, Replace
    <2>2. b.role = "reviewer" /\ b.part = Whole /\ b.known
      BY DEF Started
    <2> HIDE DEF b
    <2>3. /\ Crew' = (Crew \ {a}) \cup {b}
          /\ \A p : Workers(p)' = (Workers(p) \ {a}) \cup (IF b.part = p THEN {b} ELSE {})
      BY <1>1, <2>1, CrewSwaps
    <2>4. \A d \in Deliverable : Workers(d)' = Workers(d)
      BY <1>5, <2>2, <2>3, WholeApart
    <2>5. Workers(Whole)' = {b}
      BY <1>3, <2>2, <2>3
    <2>6. WholeStaffed'
      BY <1>1, <1>3, <2>1, <2>5 DEF WholeStaffed, b
    <2>7. (\A c \in Crew' : c.known) /\ b \notin respawn
      BY <2>2, <2>3 DEF SInv, Staffed
    <2>8. agents' \cap respawn' = {} /\ \A c \in respawn' : c.role = "integrator" /\ c.part = Whole
      BY <1>1, <2>1, <2>7 DEF SInv, Staffed
    <2> QED
      BY <1>1, <2>1, <2>4, <2>6, <2>7, <2>8, WholeStep
  <1>7. CASE WholePasses(a)
    <2>1. state = "reviewing" /\ state' = "awaiting_gates" /\ agents' = agents \ {a}
      BY <1>7 DEF WholePasses, Leaves
    <2>2. Crew' = Crew \ {a} /\ \A p : Workers(p)' = Workers(p) \ {a}
      BY <1>1, <2>1, CrewLeaves
    <2>3. WholeStaffed'
      BY <1>1, <1>3, <2>1, <2>2 DEF WholeStaffed
    <2>4. \A c \in Crew' : c.known
      BY <2>2 DEF SInv, Staffed
    <2>5. agents' \cap respawn' = {} /\ \A c \in respawn' : c.role = "integrator" /\ c.part = Whole
      BY <1>1, <2>1 DEF SInv, Staffed
    <2>6. \A d \in Deliverable : Workers(d)' = Workers(d)
      BY <1>5, <2>2
    <2> QED
      BY <1>1, <2>1, <2>3, <2>4, <2>5, <2>6, WholeStep
  <1> QED
    BY <1>4, <1>6, <1>7

LEMMA WholeFixStaffed ==
    ASSUME SInv, NEW a \in agents, WholeNeedsFix(a)
    PROVE  Staffed'
  <1>1. UNCHANGED <<part, respawn>> /\ state = "reviewing"
    BY DEF WholeNeedsFix
  <1>2. a.part = Whole
    BY WholesAgent DEF SInv, WholeNeedsFix, OfWhole
  <1>3. CASE fixes[Whole] >= MaxFixes
    BY <1>1, <1>3, FailStaffed DEF WholeNeedsFix, FailChain
  <1>4. CASE ~ (fixes[Whole] >= MaxFixes)
    <2>1. state' = "fixing" /\ agents' = agents \ {a} /\ planned' = planned \cup {Whole}
      BY <1>4 DEF WholeNeedsFix, Leaves
    <2>2. Crew' = Crew \ {a} /\ \A p : Workers(p)' = Workers(p) \ {a}
      BY <1>1, <2>1, CrewLeaves
    <2>3. Workers(Whole) = {a}
      BY <1>2, WholesOnly
    <2>4. WholeStaffed'
      BY <2>1, <2>2, <2>3 DEF WholeStaffed
    <2>5. \A c \in Crew' : c.known
      BY <2>2 DEF SInv, Staffed
    <2>6. agents' \cap respawn' = {} /\ \A c \in respawn' : c.role = "integrator" /\ c.part = Whole
      BY <1>1, <2>1 DEF SInv, Staffed
    <2>7. \A d \in Deliverable : a \notin Workers(d) /\ d # Whole
      BY <1>2, WholeApart DEF Workers
    <2>8. \A d \in Deliverable : Workers(d)' = Workers(d) /\ (d \in planned' <=> d \in planned)
      BY <2>1, <2>2, <2>7
    <2> QED
      BY <1>1, <2>4, <2>5, <2>6, <2>8, WholeStep
  <1> QED
    BY <1>3, <1>4

LEMMA WholeFixEndsStaffed ==
    ASSUME SInv, WholeFixMerged \/ WholeFixFailed
    PROVE  Staffed'
  <1> DEFINE b == Started("reviewer", Whole)
  <1>1. UNCHANGED <<part, respawn>> /\ planned' = planned \ {Whole} /\ Whole \in planned
    BY DEF WholeFixMerged, WholeFixFailed
  <1>2. CASE FailChain
    BY <1>1, <1>2, FailStaffed DEF FailChain
  <1>3. CASE state = "failed"
    <2>1. UNCHANGED <<state, agents>>
      BY <1>3 DEF WholeFixMerged, WholeFixFailed
    <2> QED
      BY <1>1, <1>3, <2>1 DEF SInv, Staffed, Crew
  <1>4. CASE state # "failed" /\ ~ FailChain
    <2>1. WholeStaffed /\ state = "fixing" /\ Workers(Whole) = {}
      BY <1>1, <1>4 DEF SInv, Staffed, WholeStaffed
    <2>2. state' = "reviewing" /\ agents' = agents \cup {b}
      BY <1>4, <2>1 DEF WholeFixMerged, WholeFixFailed, Replace
    <2>3. b.role = "reviewer" /\ b.part = Whole /\ b.known
      BY DEF Started
    <2> HIDE DEF b
    <2>4. /\ Crew' = Crew \cup {b}
          /\ \A p : Workers(p)' = Workers(p) \cup (IF b.part = p THEN {b} ELSE {})
      BY <1>1, <2>2, CrewGrows
    <2>5. Workers(Whole)' = {b}
      BY <2>1, <2>3, <2>4
    <2>6. WholeStaffed'
      BY <1>1, <2>2, <2>5 DEF WholeStaffed, b
    <2>7. (\A c \in Crew' : c.known) /\ b \notin respawn
      BY <2>3, <2>4 DEF SInv, Staffed
    <2>8. agents' \cap respawn' = {} /\ \A c \in respawn' : c.role = "integrator" /\ c.part = Whole
      BY <1>1, <2>2, <2>7 DEF SInv, Staffed
    <2>9. \A d \in Deliverable : Workers(d)' = Workers(d) /\ (d \in planned' <=> d \in planned)
      BY <1>1, <2>3, <2>4, WholeApart
    <2> QED
      BY <1>1, <1>4, <2>6, <2>7, <2>8, <2>9, WholeStep
  <1> QED
    BY <1>2, <1>3, <1>4

(* An agent whose retry is due is still counted, and comes back as it was.   *)
LEMMA FailureStaffed ==
    ASSUME OnlyIntegratorFlaky, SInv, NEW a \in agents, TransportFails(a) \/ AgentFails(a)
    PROVE  Staffed'
  <1>1. UNCHANGED <<part, planned>>
    BY DEF TransportFails, AgentFails
  <1>2. CASE FailChain /\ UNCHANGED respawn
    BY <1>2, FailStaffed DEF FailChain
  <1>3. CASE ~ (FailChain /\ UNCHANGED respawn)
    <2>1. /\ a.role \in Flaky /\ UNCHANGED state
          /\ agents' = agents \ {a} /\ respawn' = respawn \cup {a}
      BY <1>3 DEF TransportFails, AgentFails, Leaves
    <2>2. a.role = "integrator"
      BY <2>1 DEF OnlyIntegratorFlaky
    <2>3. a.part = Whole /\ state # "failed"
      BY <2>2, IntegratorsPart, WholesAgent DEF SInv
    <2>4. Crew' = Crew /\ \A p : Workers(p)' = Workers(p)
      BY <2>1 DEF Crew, Workers
    <2>5. WholeStaffed'
      BY <1>1, <2>1, <2>3, <2>4, OtherWhole DEF SInv, Staffed
    <2>6. /\ agents' \cap respawn' = {} /\ \A c \in Crew' : c.known
          /\ \A c \in respawn' : c.role = "integrator" /\ c.part = Whole
      BY <2>1, <2>2, <2>3, <2>4 DEF SInv, Staffed
    <2> QED
      BY <1>1, <2>3, <2>4, <2>5, <2>6, WholeStep
  <1> QED
    BY <1>2, <1>3

LEMMA RetryStaffed ==
    ASSUME SInv, NEW a \in respawn, RetryDue(a)
    PROVE  Staffed'
  <1>1. UNCHANGED <<state, part, planned>> /\ respawn' = respawn \ {a}
    BY DEF RetryDue
  <1>2. CASE state = "failed"
    <2>1. UNCHANGED agents
      BY <1>2 DEF RetryDue
    <2> QED
      BY <1>1, <1>2, <2>1 DEF SInv, Staffed, Crew
  <1>3. CASE state # "failed"
    <2>1. a \in Agent /\ a.known /\ a.part = Whole
      BY DEF SInv, Joined, TypeOK, Staffed, Crew
    <2>2. Respawned(a) = a
      BY <2>1, WholeApart DEF Respawned, Agent
    <2>3. agents' = agents \cup {a}
      BY <1>3, <2>2 DEF RetryDue, Replace
    <2>4. Crew' = Crew /\ \A p : Workers(p)' = Workers(p)
      BY <1>1, <2>3 DEF Crew, Workers
    <2>5. WholeStaffed'
      BY <1>1, <1>3, <2>4, OtherWhole DEF SInv, Staffed
    <2>6. /\ agents' \cap respawn' = {} /\ \A c \in Crew' : c.known
          /\ \A c \in respawn' : c.role = "integrator" /\ c.part = Whole
      BY <1>1, <2>3, <2>4 DEF SInv, Staffed
    <2> QED
      BY <1>1, <1>3, <2>4, <2>5, <2>6, WholeStep
  <1> QED
    BY <1>2, <1>3

LEMMA InitStaffed == Init => Staffed
  <1> SUFFICES ASSUME Init PROVE Staffed
    OBVIOUS
  <1>1. Crew = {Started("engineer", d) : d \in Deliverable} /\ respawn = {} /\ planned = {}
    BY DEF Init, Crew
  <1>2. \A a \in Crew : a.known /\ a.part \in Deliverable
    BY <1>1 DEF Started
  <1>3. ASSUME NEW d \in Deliverable PROVE PartStaffed(d)
    <2> DEFINE b == Started("engineer", d)
    <2>1. b \in Crew /\ b.part = d
      BY <1>1 DEF Started
    <2>2. \A a \in Crew : a.part = d => a = b
      BY <1>1 DEF Started
    <2> HIDE DEF b
    <2>3. Workers(d) = {b}
      BY <2>1, <2>2 DEF Workers
    <2> QED
      BY <1>1, <2>1, <2>3 DEF PartStaffed, Init
  <1>4. WholeStaffed
    BY <1>1, <1>2, WholeApart DEF Init, WholeStaffed, Workers
  <1> QED
    BY <1>1, <1>2, <1>3, <1>4 DEF Staffed

LEMMA NextStaffed ==
    ASSUME OnlyIntegratorFlaky, SInv, [Next]_vars
    PROVE  Staffed'
  <1>1. CASE Answer
    BY <1>1, PartWorkStaffed, PartPassesStaffed, PartFixStaffed, PartFixEndsStaffed,
       WholeWorkStaffed, WholeFixStaffed, WholeFixEndsStaffed, FailureStaffed, RetryStaffed
       DEF Answer
  <1>2. CASE Cancel
    BY <1>2, FailStaffed DEF Cancel, FailChain
  <1>3. CASE UNCHANGED vars
    BY <1>3 DEF vars, SInv, Staffed, PartStaffed, WholeStaffed, Workers, Crew
  <1> QED
    BY <1>1, <1>2, <1>3 DEF Next

LEMMA StaffedCounts == SInv => OneWorkerPerPart
  <1> SUFFICES ASSUME SInv PROVE OneWorkerPerPart
    OBVIOUS
  <1>1. \A p : WorkersOf(p) = Cardinality(Workers(p)) + (IF p \in planned THEN 1 ELSE 0)
    BY DEF WorkersOf, Workers, Crew
  <1>2. Cardinality({}) = 0 /\ \A a : Cardinality({a}) = 1
    BY FS_EmptySet, FS_Singleton
  <1>3. CASE state = "failed"
    BY <1>3 DEF SInv, Joined, FailedOK, OneWorkerPerPart
  <1>4. CASE state # "failed"
    <2>1. WholeStaffed /\ \A d \in Deliverable : PartStaffed(d)
      BY <1>4 DEF SInv, Staffed
    <2>2. ASSUME NEW d \in Deliverable
          PROVE  WorkersOf(d) = IF part[d] = "passed" THEN 0 ELSE 1
      <3>1. CASE d \notin planned /\ part[d] # "passed"
        <4>1. PICK a \in Crew : Workers(d) = {a}
          BY <2>1, <3>1 DEF PartStaffed
        <4>2. Cardinality(Workers(d)) = 1
          BY <4>1, <1>2
        <4> QED
          BY <1>1, <3>1, <4>2
      <3>2. CASE ~ (d \notin planned /\ part[d] # "passed")
        <4>1. Workers(d) = {} /\ (part[d] = "passed" => d \notin planned)
          BY <2>1, <3>2 DEF PartStaffed
        <4>2. Cardinality(Workers(d)) = 0
          BY <4>1, <1>2
        <4> QED
          BY <1>1, <3>2, <4>1, <4>2
      <3> QED
        BY <3>1, <3>2
    <2>3. WorkersOf(Whole) = IF state \in {"engineering", "awaiting_gates"} THEN 0 ELSE 1
      <3>1. state \in {"engineering", "awaiting_gates", "integrating", "reviewing", "fixing"}
        BY <1>4 DEF SInv, Joined, TypeOK, ChainState
      <3>2. CASE state \in {"integrating", "reviewing"}
        <4>1. (\E a : Workers(Whole) = {a}) /\ Whole \notin planned
          BY <2>1, <3>2 DEF WholeStaffed
        <4>2. Cardinality(Workers(Whole)) = 1
          BY <4>1, <1>2
        <4> QED
          BY <1>1, <3>2, <4>1, <4>2
      <3>3. CASE state \in {"engineering", "awaiting_gates", "fixing"}
        <4>1. Workers(Whole) = {} /\ (Whole \in planned <=> state = "fixing")
          BY <2>1, <3>3 DEF WholeStaffed
        <4>2. Cardinality(Workers(Whole)) = 0
          BY <4>1, <1>2
        <4> QED
          BY <1>1, <3>3, <4>1, <4>2
      <3> QED
        BY <3>1, <3>2, <3>3
    <2> QED
      BY <1>4, <2>2, <2>3 DEF OneWorkerPerPart
  <1> QED
    BY <1>3, <1>4

(* Under the same assumption each part that is under way has exactly one     *)
(* agent, retry timer or fix at work on it, the whole likewise, and a chain  *)
(* that has failed has no agent left.                                        *)
THEOREM StaffsEachPart == OnlyIntegratorFlaky => (Spec => []OneWorkerPerPart)
  <1> SUFFICES ASSUME OnlyIntegratorFlaky PROVE Spec => []OneWorkerPerPart
    OBVIOUS
  <1>1. Init => SInv
    BY InitJoined, InitStaffed DEF SInv
  <1>2. SInv /\ [Next]_vars => SInv'
    BY NextJoined, NextStaffed DEF SInv
  <1> QED
    BY <1>1, <1>2, StaffedCounts, PTL DEF Spec

=============================================================================
