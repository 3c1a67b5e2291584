# Coordination in goodvibes-sdk: a verification project

The SDK's daemon runs an owner's assistant, often on several machines and in several
processes at once. Most of it calls models and services or transforms data; a few
parts have a protocol of their own, which concurrency, failure and time make hard.
This project models those, checks the models with TLC and proves their central facts
with TLAPS:

- **who reads an inbound surface** (an ntfy topic, a chat account, a mailbox): one daemon
  at a time, since two readers answer every message twice and no reader answers none;
- **who works on a checkpoint store**: one process at a time, whichever holders die;
- **review chains**: engineer, reviewer, fixes, gates, with a queue and shared gates, and
  compound chains with a cycle for each deliverable;
- **approvals**: an ask is answered once and everybody who waits is told;
- **batch jobs**: a job is paid for once, and what a client was told outlives the process.

Paths below are relative to `packages/sdk/src/platform/`.

1. [The system and its parts](#1-the-system-and-its-parts)
2. [The modules](#2-the-modules)
3. [The model and the code](#3-the-model-and-the-code)
4. [Runs](#4-runs)
5. [Bounds and fairness](#5-bounds-and-fairness)
6. [Proofs](#6-proofs)
7. [Where code and documentation disagree](#7-where-code-and-documentation-disagree)
8. [What is left out](#8-what-is-left-out)
9. [Plan](#9-plan)

## 1. The system and its parts

| Part | State | Operations | Talks to | Hard because | Correct when |
|---|---|---|---|---|---|
| Election of a surface, `cluster/election.ts` | role, holder, when it was last heard, nine timers, a queue of closures, whether the consumer runs | handlers of PROBE, CLAIM, HEARTBEAT, RESIGN; timers; `start`, `stop`, `reportConsumerConflict`, watchdog, wake-up | peers by broadcast; registry by awaited callbacks | awaits inside a transition, closures that outlive their timer, loss, partition, crash, suspend | one reader at a time, never a reader without a tenure, a RESIGN that is true, somebody reads in the end |
| Node manager, `cluster/election-node.ts` | elections by surface, peers, sequence number, watchdog | `start`, `stop`, `receive`, `syncSurface`, watchdog tick | transport, elections, registry | withdraws and stops elections while they are busy | no election is lost sight of while its consumer reads |
| Surface registry, `cluster/surface-registry.ts` | consumers by surface, surfaces retiring | `register`, `unregister`, `startSurface`, `stopSurface`, `forget` | node manager through a listener | a stand-down outlives the registration | what read is stopped, last up first down, no seat without a consumer |
| Ranking, `cluster/ranking.ts` | none | two orders, the yield rule | election | the two orders disagree on purpose | every node decides alike |
| Timing, `cluster/timing.ts` | none | intervals derived from three settings | election | grace, window and timeout must fit each other | a handoff fits into its grace |
| Transport, `cluster/udp-transport.ts`, `memory-transport.ts`, `protocol*.ts`, `clock.ts` | socket, bus | broadcast, timers | manager | datagrams are lost, reordered | assumed, see section 8 |
| Subscription, `channels/provider-runtime.ts`, `daemon/facade-cluster.ts` | an open stream and its `since` | `startNtfyTopic`, the gate around it | election, through `replayFromMs` | a topic has no cursor of ours | nothing published is skipped |
| Coordinator, `cluster/coordinator.ts` | started or not, gates | `start`, `stop`, `register` with or without a cluster | manager, registry | `stop` during an awaited `start` | every gate started once, and stopped |
| Spread, `cluster/holdings.ts`, `consumer-conflict-backoff.ts` | who was heard to hold what; attempts | observe, expire, pick | manager | decides on stale counts | nodes converge on an even spread |
| Group, `cluster/group-*.ts`, `config-*.ts` | members, keys, replicated settings | admit, rotate, replicate | transport | members with different views | members agree |
| Lock between processes, `workspace/checkpoint/cross-process-lock.ts` | lock file, takeover ticket, a queue of callers in each process | queue, acquire, judge stale, take over, refresh, release | file system | proof and rename are two steps, a holder or a taker dies between any two | one holder; a lock whose holder died is cleared; the queue moves |
| Review chains, `agents/wrfc-controller.ts` | chains, the count of active ones, a queue, runs of the gates | create, child completed or failed, retry, fix merged, gates done, landed, cancel | agents, worktrees, git, an event bus | everything is awaited and comes back late, chains wait for one another's gates | each phase has its one worker, the count is true, a verdict is final, every chain ends |
| Compound chains, same file | deliverables with states and agents of their own | the same, by agent id; integrate | the same | an id decides whom an event is about | the whole is made of deliverables that passed |
| Approval broker, `control-plane/approval-broker*.ts` | asks, waiters, timers, a store | ask, decide, expire, restart | store, channels | a decision in memory and a write that fails | an ask is answered once and the asker is told |
| Batch queue, `batch/manager.ts` | jobs and batches in a file, copies held by a tick | create, tick (submit, poll, write), cancel | a provider | stale copies written back after an await | a job is paid for once, its end stands, what a client heard is kept |
| Payments, `payments/budget.ts`, `checkout-flow.ts` | limits, reservations, a journal | reserve, commit, release, submit, recover | a shop | midnight, expiry, a crash around the click | limits hold; a purchase is submitted at most once |
| Scheduler, `scheduler/scheduler.ts` | tasks, next runs, missed runs | tick, run, save | agents | saving is debounced | a run is neither doubled nor reported missed |

The other directories (other agents, sessions, control plane, channels, providers, tools,
knowledge, configuration, presentation, client packages) are listed one by one in
`PROJECT.json` with the reason why they are not modelled. `PROJECT.json` also lists
the hazards of the parts above, each at its line, with the properties that watch it.

**How the first three interact.** `ClusterElection.start` makes one `SurfaceElection`
for each surface the registry has a consumer for, and later follows the registry
through its listener: the first consumer of a surface makes an election, the last
one to leave withdraws it. The manager decodes datagrams, drops those that are
overtaken by a later one of their sender, and hands the rest to the election of
their surface. An election appends every datagram, timer and signal to a queue that
runs one entry at a time. A transition that starts or stops the consumer awaits the
registry's `startSurface` or `stopSurface` in the middle, and the queue waits with
it. RESIGN goes out only after the stop; a CLAIM goes out before the start.

**How the others interact.** The lock is taken around every operation on a checkpoint store,
by any process that has it open. A chain is created by an agent's request and stopped by the
operator; it talks to its children through the event bus, and to other chains through the
count of active ones, the queue and the shared gates. Approvals are raised by any tool call and
answered on any surface. Batch jobs come from clients, one interval timer ticks. Approvals and
jobs write through one `StoreWriteQueue` each (`state/store-write-queue.ts`), whose order is part
of both models. The five parts share no state, so their models are not composed with
one another; what composes is the surface part (section 2).

## 2. The modules

| Module | What it is |
|---|---|
| `SurfaceRanking` | The stable order, the spread order and the yield rule, over constants `Version`, `HashRank`, `Load`. |
| `ClusterTiming` | The intervals derived from heartbeat, timeout and boot probe. |
| `SurfaceNode` | One election object: a record, and one operator per handler, timer closure and signal that returns the records it may become. Extends the two above. |
| `SurfaceElection` | All nodes on one network and one clock: queues run, datagrams travel, gates finish, time passes; nodes boot, shut down, withdraw, crash, sleep, are cut off, lose datagrams and meet provider conflicts. States the safety and liveness properties. |
| `SurfaceTenure` | The abstract specification: nodes take turns, a tenure begins when a consumer begins to start and ends when it has stopped. `SurfaceElection` instantiates it with a mapping of its own state. |
| `SurfaceService` | `SurfaceElection` with two clocks: how long two nodes read at once, how long nobody does. |
| `SurfaceDelivery` | `SurfaceElection` with one message on a topic that has no cursor. |
| `SurfaceRegistry` | One node seen from inside: registry, node manager and the elections they make, withdraw and forget, with every interleaving of calls and awaited stops; nothing is assumed of callers. What the network decides is open here. |
| `SurfaceInstances`, `MCSurfaceFaults` | Small instances for TLC; the second puts both observers on one election. |
| `CrossProcessLock`, `MCCrossProcessLock` | Several processes, several callers in one of them, one file system call per step. |
| `WrfcController`, `MCWrfcController` | All simple chains of one controller: capacity, queue, fixes, retries, gates, landings, cancellation. |
| `CompoundChain`, `MCCompoundChain` | One compound chain from its start to the gates, from which on it is a chain like any other. |
| `ApprovalBroker`, `MCApprovalBroker` | Asks, waiters, timers, claims, answers that are remembered, the store and its write queue, a restart. |
| `BatchJobs`, `MCBatchJobs` | Clients, one tick at a time, the provider, the file and its write queue, a restart. |
| `SurfaceElection_proofs`, `SingleConsumer_proofs`, `SurfaceRegistry_proofs`, `CrossProcessLock_proofs`, `WrfcController_proofs`, `CompoundChain_proofs`, `ApprovalBroker_proofs`, `BatchJobs_proofs` | The proofs. |

`SurfaceElection` and `SurfaceRegistry` cut the system at the interface between them,
`startSurface` and `stopSurface`. The first takes the consumers of a surface as one
gate that starts and stops; the second takes the network as an oracle that lets
an election win and lose. What each assumes of the other is what the other checks:
the election that a stop leaves nothing reading (`ResignIsTrue` in the registry, which says except what), the registry
that an election starts and stops in turns (`ConsumerOnlyUnderTenure`).

## 3. The model and the code

**One node.** The record `st[n]` has the fields of the class: `role`, `holder`,
`heard` (`lastHolderHeartbeatMono`, as an age), `heardAt` (`lastHolderHeartbeatAt`, as far
as a replay from it goes), `claimed` (`claimSentThisElection`), `target`, `timer` (one handle
each; the two uses of the probe handle, boot probe and re-probe, are two names that
are always cleared together), `queue` and `running` (`consumerRunning`). `gate` is what the
consumer really does, whatever the class believes; `task` is the await the queue is in.
An operator of `SurfaceNode` is a handler: `OnClaim` is `onClaim`, `StopConsumerThenResign`
is `stopConsumerThenResign` up to its await, `Resign` and `Continue` are what follows the
await there and in its callers. Jitter, and whether a yield comes to pass, are open
choices.

**Closures.** A timer that has fired is an entry of the queue. `clearTimeout` does not
take it out again, so `Disarm` does not either; that a late closure looks at the role
before it acts is a fact of each closure, modelled one by one. The watchdog is the
exception: its callback looks at the election at once and queues a wake-up or a
timeout, so it is part of `Tick`.

**The network.** `net[m][n]` is the queue of datagrams from `m` to `n`. The sequence
numbers of the envelope make a datagram that was overtaken by a later one of the
same sender worthless, so a pair of nodes has a queue whose head may be lost;
between senders nothing is ordered. A datagram takes 0 to `MaxDelay` ticks.

**Time.** `Tick` lets every armed timer, delay and await advance by one. With `Timely`
it waits for everything that is due, in any order; without it nothing is prompt at all.
An asleep host's timers stand still, its watchdog notices the gap on waking.

**One process seen from inside.** In `SurfaceRegistry` `elections` keeps every election ever
made, so that one the manager has dropped is still followed; `current` is the one in
its map. `stop` is a flag until the queue gets to it, and `StopIsVoid` is the early return of
`SurfaceElection.stop`. `Found` is `surfaces.get(...) ?? retiring.get(...)`: what a stop finds
when it comes to asking, which need not be what the election started. The role `claiming` is the
role master while the CLAIM is being sent: the consumers are looked up afterwards. `by[c]` is the election that started consumer
`c`, or `None`.
Callers may register, unregister and stop the manager at any moment, which the code does not survive unharmed
(section 7). Three history variables tell what is harmed from the rest: `lost` has the consumers an election had when
the last list that led to them went; `missed` marks an election whose stop came before its boot probe;
`after` one that was made when an earlier one had not stopped.

**The lock.** `pc[c]` is where caller `c` is in `acquireCrossProcessLock`; each label is one call on
the file system. Callers of one process interleave only where the code awaits (`Runs`). A file is
its inode, the pid in it and how long ago it was touched (`fresh`, `due` after a third of
`staleMs`, `stale`); `fd` is a descriptor, `judged` and `age` what `stat` said. A taker of a stale lock
holds the ticket, judges the lock once more, stages a file, looks at the inode again and
renames: five steps between which anybody may act. `ahead` is the promise chain of the queue
within a process and `tail` its entry in the map.

**Review chains.** The methods of the controller are operators from one value of its fields (the
record `ctl`) to the next: `CheckAndRunGates` is `safeCheckAndRunGatesForAll` up to its await, `FailChain`,
`CancelChain`, `CompleteAsPassed` and `DequeueNext` carry the names they have. An action composes the methods a handler
calls before its next await. `live[c]` is the children at work, `respawn[c]` the retry timer, `planned` the
fixes being prepared. `sessions[r]` is a run of the gates started by chain `r`: with the chains it took
along (`left`), waiting for the gates, at the turn of the next chain, or waiting for a landing.

**Compound chains.** An agent is what it was started as and whether the record it belongs to
points at it (`known`): `findSubtaskByAgentId` is `OfDeliverable`, everything it misses is handled
as an agent of the whole chain (`OfWhole`).

**Approvals.** `rec` is the map, `disk` the file; a write carries the map as it was when the
write was requested, as `persist` does. `entries`, `waiting` and `armed` are the three parts of
`pendingResolvers`. Callers are numbered by the order they ask in, records of a key by the
order they are made in: names that say nothing more. `spoilt` remembers the asks whose raise
or verdict a failed write lost (section 7), which the properties except.

**Batch jobs.** A batch is named by the jobs sent in it. A tick keeps its own copies (`slices`, `sent`) between
its calls and puts them back whatever has become of the jobs, as `{...job, status}` does. A write
serialises the jobs when its turn comes (`content`), and not when it was requested: in this
the two stores differ. A client that cancels again is told so at once (`CancelAgain`, the early return of
`manager.ts:239`), also when the write of the first cancellation is still queued or has failed:
`unwritten` remembers such jobs until the file has them. `tooLate` remembers the jobs cancelled when a tick had
copied them, which the properties except (section 7).

`PROJECT.json` maps every definition to the lines it models.

## 4. Runs

Twelve runs: ten pass, two exhibit a disagreement of section 7.

| Run | Instance | Shows | Distinct states |
|---|---|---|---|
| `handoffs` | 2 nodes, the later on a newer build and overloaded; 3 boots, a shutdown, a withdrawal | `SingleConsumer`, `ReadInTurns` (implements `SurfaceTenure`), `ResignIsHonest`, `StopIsFinal`: preemption, voluntary yield, shutdown and withdrawal hand over in order | 991,000 |
| `three_nodes` | 3 nodes, one boot each, one newer build | `SingleConsumer` where two standbys contest a surface and a third preempts | 1,686,000 |
| `surface_settles` | 2 nodes booting together, and one of: a crash, a lost datagram and a partition; a suspend of any length; a quick restart after a crash, and a provider conflict | `ConsumerOnlyUnderTenure` throughout; `SurfaceEndsUpWithOneReader` | 825,000 |
| `service_under_faults` | 2 nodes, a crash, a lost datagram, a partition, with the clocks and one message | `OverlapIsBrief` and `NeverUnreadForLong` bound in ticks how long the surface is read twice or not at all; `NoMessageSkipped`: a takeover by timeout replays from when the holder was last heard | 960,000 |
| `consumers_come_and_go` | 2 consumers, 2 elections, 2 wins, callers at any moment | `ResignIsTrue`, `UpFirstDownLast`, `HoldsNoEmptySeat`, `NothingOutlivesTheManager`, `UnregisteredGoesQuiet`, `TypeOK` | 297,000 |
| `lock_survives_crashes` | 3 callers in 2 processes, a crash at any step, a queue that may time out | `OneHolder`; `QueueMoves`: nobody waits for a caller that is gone; `OrphanIsCleared`; `TypeOK` | 116,000 |
| `chains_are_stopped` | 3 chains for 2 places, with and without worktrees, a fix, a retry, a cancellation at any moment | `EveryPhaseHasItsWorker`, `CapacityIsKept`, `QueueIsServed`, `OwnerKnowsTheEnd`, `VerdictIsFinal`, `NobodyIsLeftWaiting`, `TypeOK` | 653,000 |
| `queue_behind_the_gates` | the same, nobody cancels | `ChainsEnd` fails: section 7 | |
| `deliverables_join` | 3 deliverables, one fix each, only the integrator's connection fails | `WholeOfPassedParts`, `OneWorkerPerPart`, `ComesToRest` | 7,800 |
| `deliverable_retried` | the same, any connection fails | `WholeOfPassedParts` fails: section 7 | |
| `verdicts_stand` | 3 asks of 2 kinds, 2 callers, a failing write, a restart | `VerdictStands`, `NobodyForgotten`, `HeardIsKept`, `OnePrompt`, `TimedAsksEnd` | 261,000 |
| `paid_once` | 2 jobs in batches of one or two, a failing call or write, a restart | `PaidOnce`, `HeardIsKept`, `OutcomeStands`, `CalledOffInTime`, `JobsEnd` | 305,000 |

Two properties of a surface are checked only where the code keeps them, because faults break them
by design: with a partition, a sleeping host or two nodes booting at once there *are*
two readers for a while. There the questions are whether a consumer ever runs outside
its tenure (`ConsumerOnlyUnderTenure`), how long the overlap lasts (`OverlapIsBrief`) and
how it ends (`SurfaceEndsUpWithOneReader`).

Every property of a passing run has mutants in `PROJECT.json`: slips written
next to the definition they spoil (the two lines of the handoff reversed, a handle
deleted instead of cleared, a standby that does not time its holder, a preemption
without grace, a late closure that does not look at the role, a lock judged once
instead of twice, a queue entry removed from the map by the wrong caller, writes that
overtake one another, a failed write acknowledged, a job queued again after a call that may have
reached the provider), which the run catches. A definition that is called a slip is used by
nothing else.

## 5. Bounds and fairness

- **Nodes.** Two nodes already have every pair of roles and every message; three
  are needed for two standbys that contest a surface, and for the CLAIM of one
  overtaking the RESIGN of another.
- **Timing.** `BootProbe` 2, `HeartbeatPeriod` 3, `MasterTimeout` 9 give windows of 2, settle 1,
  grace 3, watchdog 3, back-off 1: every interval is distinct enough to be overtaken
  and several heartbeats fit a timeout. `surface_settles` takes 2, 2, 6, and `three_nodes` 2, 2, 4, with
  the same order of events. The proofs hold for every timing.
- **`MaxStop`** 1 (a consumer stops within a tick, well inside the grace of 3), **`MaxStart`** 0,
  **`MaxDelay`** 0: durations below the clamps of `timing.ts`. A stop as long as the grace
  breaks `SingleConsumer`, see section 7. `service_under_faults` has `MaxStop` 0: with a stop
  that takes time, a holder that hands over to one that dies meanwhile stamps the end of
  its own stop as the moment the surface was last held, and replays from there.
- **Faults.** `Limits` is a set of budgets, one of which a behaviour draws at its start; a budget
  bounds how often each fault happens (`SurfaceInstances`), the moment is free. One of each is
  enough for every pair of faults that a budget combines; faults of different budgets of `surface_settles`
  do not meet.
- **`CalmBoot`** TRUE keeps a node from booting while another takes over, which the code
  does not prevent; it is TRUE in the runs that check `SingleConsumer` (section 7 lifts it).
- **`MaxBacklog`** 4 stops the clock for a queue longer than four; under `Timely` no run gets
  there.
- **Registry.** `MaxElections` 2 and `MaxTurns` 2: a withdrawn election and its successor beside it, each of
  them winning, or one of them twice; either may be handed over, withdrawn, shut down or missed. Two consumers have an order and can replace each
  other. The safety part was also checked with 3 wins (619,000 states), and is proved for any number of each.
- **Registry callers.** Nothing is assumed of them, except that a gate is registered once at a time. What each property leaves out is what the
  code breaks, and no more:
  `ResignIsTrue` and `UpFirstDownLast` the consumers that are `lost`; `HoldsNoEmptySeat` and
  `UpFirstDownLast` elections that have or had another beside them, the first also one that is about to stop or was missed;
  `NothingOutlivesTheManager` withdrawn and missed elections; `UnregisteredGoesQuiet` lost consumers
  and those of a missed election.
- **Lock.** Two processes with two callers in one of them: a queue in front of the file, and a
  rival. `Reuse` FALSE: an inode number that somebody still remembers is not given to a
  new file. `MayFreeze` FALSE: no process stands still for `staleMs`. `TakerMayDie` TRUE: a
  process may die in the middle of a takeover. `Fresh` takes the smallest
  inode that is free, inodes being interchangeable.
- **Chains.** Three chains for two places: one that queues and two that share gates. One fix and one retry
  per chain, one cancellation. `Deployments` is what the project is: with git every chain
  has a worktree; commits are made or left to the user. The run takes the two defaults;
  with commits left to the user (`Uncommitted`) the safety part passes likewise.
- **Compound.** Three deliverables: one that passes, one that is fixed, one that fails.
- **Approvals.** Three records of two keys, of which an answer to one covers the other: two
  asks that are joined, a second ask of a key after the first is settled, a sweep. `MaxBacklog` 1 admits no claim or update
  while a write is queued; verdicts, raises, timers and sweeps come at any time.
- **Jobs.** Two jobs: a batch of both, two batches of one (`MaxJobs`, read anew by each tick). `MaxBacklog` 1 admits
  one write of a client beside a tick's; the inductive invariant was also checked with 2 (929,000
  states). `Ends` has one end a provider reports: nothing depends on which.

**Fairness.** In the election, weak fairness of `Work`, that is running the queue, of delivering a datagram that was not
lost, of firing an expired timer and of the consumer's start and stop, and of `Tick`: an
event loop serves what is due, and gates are assumed to return. Nothing of the
environment is fair: a partition may last, a host may sleep for good. The liveness
property therefore begins `<>[]Settled`: if the network is whole and no host asleep
from some time on, exactly one node ends up reading for good. In the registry the
steps of an election and its stop are weakly fair, callers are not.

A caller of the lock that is acquiring or holds goes on and the clock runs (weak); a caller that waits for a
promise gets its turn however often its process is busy with another (strong: an event loop passes
nobody over for ever); nobody has to ask for the lock, and nobody has to die. A chain's children, gates, fixes, landings and timers come back
(`WF_vars(Answer)`), with whatever result; the operator does nothing he has to. A write of the
broker is done some time and so is a timer; surfaces never have to answer. For batch jobs the
interval fires for ever and calls and writes end (weak); a job old enough is in some tick and a
batch that is polled for ever is found ended some time (strong: each tick takes a
set of jobs and a batch is asked after once per tick, so the step is enabled again and
again and not all the time).

Deadlock is checked in every run of the election, where time never stops, in the lock's and in
`paid_once`. The other runs say `CHECK_DEADLOCK FALSE`: callers may stop calling, the
manager stops for good, all chains end, all asks are answered.

## 6. Proofs

Every theorem holds for all values of the constants the assumption of its module allows; what it needs
beyond that is in the last column. Each rests on an inductive invariant of its module; those of the registry,
the review chains and the batch jobs TLC has checked as well, on the instances of section 4. Where an
argument needs an induction (a least position in a list, a caller that waits for nobody), it takes a least counterexample from a well-founded order of the library
(`NatLessThanWellFounded`, `FS_StrictSubsetOrderingWellFounded` with `WFMin`).

### Surfaces

`SurfaceElection_proofs` has the lemmas about the handlers of `SurfaceNode`, then the theorems
about all nodes; `SingleConsumer_proofs` extends it with the one that rests on timing. Those of the first hold for any number of nodes, any ranking, load and timing the
assumptions of the modules allow, any `Limits`, delay and backlog, with `Timely` and
`CalmBoot` either way: an event loop as slow as it likes included.

| Theorem | States | Under |
|---|---|---|
| `TypeCorrect` | `Spec => []TypeOK` | nothing further |
| `TenureSafe` | `Spec => []ConsumerOnlyUnderTenure` | consumers stop when told (`~StopMayFail`), no provider conflict (no budget of `Limits` has one) |
| `StopSticks` | `Spec => StopIsFinal` | the same |
| `HonestResign` | `Spec => []ResignIsHonest` | the same, no suspend, no partition |
| `TurnsAreTaken` | `Spec /\ []SingleConsumer => ReadInTurns` | as `StopSticks`, and no suspend |
| `OneReader` | `Spec => []SingleConsumer` | two nodes, one ranking, `Calm`, `Paced` (below) |
| `TwoTakeTurns` | `Spec => ReadInTurns` | the same |

`ConsumerOnlyUnderTenure` is not inductive: a handler that starts from role `standby` with
a consumer on would keep it violated, and a re-probe in the queue would spoil it.
`StaysUndisturbed` proves the invariant `Undisturbed`, which says of every node (`Attended`)
that role, gate, belief (`running`) and the await agree (`Tenured`): a gate is on only for a
`master` that believes so, is stopping only in the await of `resigning`, a start is awaited
only by a `master`; that no re-probe is armed, queued or to come (`NoReprobe`), which is
where the assumption on conflicts is used (section 7 shows that it is needed);
and that a boot probe, if still queued, comes first and before the stop.
For each handler there is one lemma that it preserves `Tenured` and `NoReprobe`
(`OnHeartbeatSound`, `OnClaimSound`, `DispatchSound`, `OnTimerSound`, `OnSignalSound`), on top of a
lemma per transition, and one per action of the system that it preserves `Attended`.
`StopSticks` follows with `OutcomesOfStopped`: in role `stopped` no entry of the queue but
a boot or a re-probe does anything.

`HonestResign` relates a channel to the gate of its sender. The invariant `Whole` says
that every datagram reaches every node that is awake and, per channel, `Honest`: a RESIGN
at its end is said by a node whose gate is off. A step is `Candid` when it ends what it
says with something other than RESIGN, or leaves the gate off. Suspends and partitions
are excluded because the CLAIM that takes a RESIGN back may then not arrive, and the
old RESIGN is the end of the channel while the consumer has started again.

`TurnsAreTaken` is the refinement of `SurfaceTenure`. `SingleConsumer` is its hypothesis, since that rests
on timing; what is proved is that nothing else is needed: not a
step of any handler, timer or fault begins, ends or resumes a reading out of order. `StepInTurn` shows that
a step changes what the surface sees (`Seen`) of one node at most, and that in order (`Orderly`, part of
what each handler lemma states); `TurnsRefine` maps such a step to `Begin`, `Read`, `Stop`, `End` or a stutter.
A host that wakes up is excluded: its consumer goes on in the middle of a tenure that nobody saw begin.

**At most one reader.** `OneReader` is the header's invariant (`election.ts:19`) for two nodes: any builds, any number of
boots, shutdowns and withdrawals, any yields, preemptions and contested elections. It assumes

- `AtMostTwo` nodes, and `OneRanking`: both rank the two alike, having observed the same holdings;
- `Calm`: nothing is late (`Timely`, `MaxDelay` 0, `MaxStart` 0), lost, cut off, suspended, killed or
  refused, consumers stop when told, and a node boots while no other takes over (`CalmBoot`);
- `Paced`: a stop is shorter than the boot probe and the preemption grace, the window and the settling time
  together are shorter than the timeout, a boot probe is no longer than a watchdog period, and boot probe, heartbeat and
  stop together fit into the timeout. The run `handoffs` is an instance: its timing is paced, and so are the defaults (heartbeat 30, timeout 90,
  probe 3).

`SingleConsumer` says nothing of why nobody starts, and most of the reasons lie ahead of the nodes rather than in their
roles: in a datagram on its way or a closure that is queued. So the invariant, `OneAtATime`, looks at two nodes with
what is `Ahead` of each: its queue, the datagrams on their way to it, and a mark if it has been withdrawn, since it then
drops whatever arrives (`election-node.ts:305`). Of one node (`Own`): what ends its bid is armed or queued, once; an await and the watchdog
fit the role; if withdrawn, it has a stop queued, is stopping or has stopped.
Of two (`Pair`, one conjunct per reason):

- a bid about to succeed has no holder and no rival to fear (`Unrivalled`);
- a holder is heard before a bid against it succeeds, or has stopped by then (`Warned`, the heart: heartbeat in flight,
  question in flight with a stop's time to spare, or the stop itself ends first);
- the two do not arrive, elect or preempt at once (`Apart`), and of one that arrives and one that elects the worse hears the
  better (`Contested`);
- a standby's memory of the holder outlives the holder's heartbeat, its stop or the election to come (`Followed`, `Elected`);
- a RESIGN in flight is true and alone, and neither a late claim nor a late timeout surprises the
  successor (`Released`, `Spoken`, `Vacant`, `Succeeds`, `Missed`); a withdrawn node drops it, so
  it has a stop ahead and bids on only when nobody is left to surprise (`Unheard`, `ToStop`);
- a node that arrives is through before a loser bids again (`Outlasted`).

The proof has three layers. A *move* is what one item of the queue does to role, timers and what is ahead, as a relation that mentions no handler
(`MasterMove`, `ClaimMove`, ..., `TickPair`): each move keeps every conjunct, both ways round. A *view* shows that a handler's record
makes such a move (`MasterView`, `StopView`, ...). A *step* puts views and moves together for an action (`RunStep`, `ReceiveStep`, `TickStep`, ...),
with the lemmas about queues and channels. TLC checked `OneAtATime` before it was proved, on six instances of two nodes with different timings,
builds, loads and withdrawals (up to 991,000 states).

`BootProbe <= WatchdogPeriod` is not for convenience. A node answers one CLAIM per bid (`claimSentThisElection`, `election.ts:285`),
and a boot probe does not begin anew when it has answered: with a probe of 5, a heartbeat of 1 and a timeout of 6, which the settings allow,
a loser's watchdog may bid a second time within the probe, meets silence, and both become master in the same tick (section 7).

### Registry

| Theorem | States | Under |
|---|---|---|
| `TypeCorrect` | `Spec => []TypeOK` | nothing further |
| `ResignIsMeant` | `Spec => []ResignIsTrue` | nothing further |
| `NothingIsLeftReading` | `Spec => []NothingOutlivesTheManager` | nothing further |
| `SeatsAreFilled` | `Spec => []HoldsNoEmptySeat` | nothing further |
| `OrderIsKept` | `Spec => []UpFirstDownLast` | nothing further |

No theorem asks anything of the callers; what it excepts is in the property (section 5). The invariant has five layers, each
proved with those before it. `ReachOK`: a consumer that is not lost, and that an election which holds the surface
reads with or has on its list, is one the stop will find; nothing reads for an election that holds nothing; and one that
is standing down has everything it reads with on its list. That alone gives `ResignIsMeant`, and it is where a stop that finds the list of a successor, a list
spliced or a surface forgotten shows: what is unreachable is in `lost`. `KnownOK`: an election that has not stopped is the manager's, or its stop is queued,
or was missed; while the manager is on it knows an election exactly when a surface is registered. `AloneOK`: beside an election that
came up alone and is the last one no other is alive, because a role never leaves `stopped`. `SeatOK`: such an election, unless a stop
is queued or was missed, has found a consumer to start, since it is the manager's (`KnownOK`) and no other can stop it (`AloneOK`).
`OrderOK`: of two registered consumers the earlier reads if the later does, is ahead of it on a list of starts and behind it on a list of stops;
a consumer registered while the surface is held is last, and held by nobody unless it was lost. TLC
checked the layers on the instance of the run, with three wins.

### Lock

| Theorem | States | Under |
|---|---|---|
| `TypeCorrect` | `Spec => []TypeOK` | nothing further |
| `QueueAlwaysMoves` | `Spec => []QueueMoves` | nothing further |
| `MutualExclusion` | `Spec => []OneHolder` | `Orderly`: no reuse of a remembered inode, no process that stands still for `staleMs`, none that dies in a takeover |

`OneHolder` looks at `held` only. The invariant `Serialized` adds where ownership comes from:
a caller that holds, is about to after its rename, or is giving up has its own file at the path, with
its pid in it, and nobody else does (`OwnerOK`); a staged file is neither at the path nor judged by
anybody (`StagingOK`); the one that holds the ticket is the only one in a takeover (`TicketOK`); and
what a taker found stale belongs to a process that is gone, or is no longer at the path
(`VerdictOK`), which is why the rename it decides on hits nobody. Each part of `Orderly` is used in one
place, and section 7 has a counterexample without it.

`QueueAlwaysMoves` needs a queue without cycles. Its invariant `InLine` orders the callers of a process by
whom they wait for: whoever waits for a caller waits for everybody that one waits for, so the sets `ahead`
shrink strictly along the queue, and the process's tail is a caller that goes on. Among finitely many callers a least
such set exists, and it is empty.

### Review chains

| Theorem | States | Under |
|---|---|---|
| `TypeCorrect` | `Spec => []TypeOK` | nothing further |
| `OneWorkerEach` | `Spec => []EveryPhaseHasItsWorker` | nothing further |
| `OwnersAreTold` | `Spec => []OwnerKnowsTheEnd` | nothing further |
| `VerdictsAreFinal` | `Spec => VerdictIsFinal` | nothing further |
| `CountIsRight` | `Spec => []CapacityIsKept` | `CommitsOrIsolates`: every deployment has worktrees or commits by itself |
| `QueueMovesOn` | `Spec => []QueueIsServed` | the same |

A method of the controller is an operator on the record `ctl`, so the lemmas go method by method, as the code
composes them: `Kept(k)` says of a record that workers, owners, queue, gates and landings fit the
states of the chains, `Roomy(k)` that the count is right and nobody waits without need. `Loose(k)` is the same between two methods
of one handler, when a chain has ended and the queue has not been served yet. `CommitsOrIsolates` excludes the
one case in which a transition may throw after the count was lowered (section 7).

### Compound chains

| Theorem | States | Under |
|---|---|---|
| `TypeCorrect` | `Spec => []TypeOK` | nothing further |
| `IntegratesPassedParts` | `Spec => []WholeOfPassedParts` | `OnlyIntegratorFlaky`: agents of deliverables are not retried |
| `StaffsEachPart` | `Spec => []OneWorkerPerPart` | the same |

A deliverable that passed must not be opened again: the invariant `Joined` says that its agents are found
by their ids, are alone with it and work on something that has not passed (`PartsOK`, `FixesOK`), that nothing
works on the whole before the integrator is called (`WholeOK`), and that a failed chain has no agent. `deliverable_retried`
shows that the assumption is needed. `StaffsEachPart` counts: `Staffed` gives each part of the chain the one set of
agents, timers and fixes that may be at work on it, with one element or none by the state of the part, and every step moves
that element or replaces it.

### Approvals

| Theorem | States | Under |
|---|---|---|
| `TypeCorrect` | `Spec => []TypeOK` | nothing further |
| `SharesOnePrompt` | `Spec => []OnePrompt` | nothing further |
| `ForgetsNobody` | `Spec => []NobodyForgotten` | nothing further |
| `KeepsItsWord` | `Spec => []HeardIsKept` | nothing further |
| `VerdictsStand` | `Spec => VerdictStands` | nothing further |

The first two properties do not survive a restart or a landing write by themselves. Two identical asks must not both be
restored with a timer, so no map that may come to be the file has two of them open with a
deadline (`MapOK`, of the file and of every write in the queue): those are snapshots of memory, where
an open ask with a deadline has an entry (`DeadlinesHeard`) and entries are unique. And the write that ends
a caller's wait must still settle its ask when it lands, so the asks of a settling write are not open
(`QueueOK`), which no new ask can break because its id is new (`Known`).

For the other two, memory, the writes in the queue and the file are stages of one history: of every ask that is
not `spoilt`, a later stage has the verdict an earlier one has (`Stands`, `History`), and what a caller was told is in the
file or in the write of the sweep that told him (`Promised`).

### Batch jobs

| Theorem | States | Under |
|---|---|---|
| `TypeCorrect` | `Spec => []TypeOK` | nothing further |
| `PaysOnce` | `Spec => []PaidOnce` | nothing further |
| `KeepsItsWord` | `Spec => []HeardIsKept` | nothing further |
| `OutcomesStand` | `Spec => OutcomeStands` | nothing further |
| `CalledOffInTimeIsNotSent` | `Spec => CalledOffInTime` | nothing further |

All four follow from `BatchInv`: a tick holds each job once, has nothing left to send when it polls and
nothing left to do when it writes (`TickOK`); what may be sent has not been sent in this life of the process
(`SendsOK`); a copy that a tick holds is true unless the job was cancelled too late (`CopiesOK`); memory, the
write under way and the file agree on every outcome (`FileOK`); and what a write will acknowledge is in
memory and, once serialised, in what it writes (`HeardOK`). A cancellation that is repeated has no write of its own to rest on: it is in memory
and waits in `unwritten` for the file, and only a death of the process in between can undo it; that is the
exception `HeardIsKept` and `CalledOffInTime` make.

### Only model-checked

- Liveness (`SurfaceEndsUpWithOneReader`, `UnregisteredGoesQuiet`, `OrphanIsCleared`, `NobodyIsLeftWaiting`,
  `ComesToRest`, `TimedAsksEnd`, `JobsEnd`): fairness and `ENABLED` are out of the prover's reach.
- `SingleConsumer` with three nodes (`three_nodes`): a third node's claim overtakes what two owe each other, and the invariant of
  `OneReader` would have to follow every triple.
- The clocks of `SurfaceService` and `NoMessageSkipped`, which bound what the same timing makes of a fault.

## 7. Where code and documentation disagree

Two runs exhibit a counterexample each; `PROJECT.json` quotes the lines.

| Run | The code | The text |
|---|---|---|
| `queue_behind_the_gates` | A queued chain counts as work under way for the gates, and only a chain that ends frees a place: when every active chain awaits its gates while one is queued, each waits for the other for good (`wrfc-controller.ts:1420`). | "keeps the chain running until ... all quality gates pass, or until the chain fails/cancels", `docs/wrfc-constraint-propagation.md:276` |
| `deliverable_retried` | The retry of a deliverable's agent is not entered in the deliverable: its completion is taken for that of the whole chain's engineer, and the chain goes to full review without the others and without an integrator (`wrfc-controller.ts:927`). | "then spawns an integrator to merge the passed subtasks before the chain's final full-scope review", `docs/runtime-orchestration.md:125` |

The rest has no run of its own. The constants or the property named reproduce it where there are any.

### Surfaces

- Only a holder answers a PROBE; two nodes that boot within one probe both become master and read until
  a heartbeat settles it (`election.ts:262`), against "AT MOST ONE node has the consumer ... running at any
  moment" (19): `SingleConsumer` in `handoffs` with `CalmBoot` FALSE.
- After an ordered handoff the successor subscribes from now; what is published between stop and start is
  read by nobody (355), against "There is no gap" (320): `NoMessageSkipped` in `service_under_faults` with
  `Limits` `OneShutdown`.
- The closure of the re-probe does not look at the role (242). A conflict, a sleep and a departing peer get it
  to run in a `master`: role `probing`, consumer on, against "Stop first, THEN re-probe" (724):
  `ConsumerOnlyUnderTenure` with `Limits` `ConflictSleepShutdown`, `Version` `Upgrade`, timing 1, 1, 2, `MaxStop` 0.
- Registering a surface again deletes what was retiring (`surface-registry.ts:68`); the stop still to come finds only
  the new consumer, and RESIGN is said with the old one reading for good, against "this node has stopped reading" (46): `ResignIsTrue`
  without `\ lost`. If the successor has won by then, that stop also stops what the successor
  had started, which goes on as a holder that reads nothing: `HoldsNoEmptySeat` without `Alone`. The comment above the line (66) sees the re-registration,
  and not the election that is standing down.
- `forget` deletes by surface, not by election (`election-node.ts:266`): the end of an older stand-down, or a stop that returns at once because its
  election is booting, also drops what another withdrawal has put into `retiring` and its own stop has not found yet. The same instances show it.
- `stop` takes the role `stopped` of an election whose probe is still queued for one that has stopped
  (`election.ts:166`); the election outlives its withdrawal and can win beside its successor, or with nothing to start, against "holding a
  seat with nothing behind it is the starvation case" (`surface-registry.ts:93`): `HoldsNoEmptySeat` without `missed`.
- A boot probe longer than the watchdog's period answers the first CLAIM of a rival and no second (`election.ts:285`, `136`): both become
  master at once. `SingleConsumer` in `handoffs` with `BootProbe` 5, `HeartbeatPeriod` 1, `MasterTimeout` 6, `MaxStop` 0, `Version` `SameBuild`,
  `Load` `Balanced` and a budget of four boots and two shutdowns.
- A stop longer than the preemption grace is overtaken by the successor's start (`MaxStop` 4 in `handoffs`).
- `startSurface` and `stopSurface` swallow what a gate throws: a holder that reads nothing keeps
  its tenure (`StartMayFail`), and RESIGN is said over a consumer that did not stop (`StopMayFail`).
- The re-probe of a conflict that has fired into the queue before a stop revives the stopped
  election (a budget with `conflict` 1 in `handoffs`, `StopIsFinal`).
- `stop` of the manager does not wait for a withdrawn election that is standing down (`election-node.ts:156`, 261):
  `NothingOutlivesTheManager` without `withdrawn`.
- A consumer registered for a surface that is already held is not started until the surface
  is won again, and one of several that is unregistered is spliced out (`surface-registry.ts:86`) and never stopped: `ResignIsTrue` without `\ lost`.
  All these need a caller that unregisters, which `ClusterCoordinator.register` offers by returning the function. In this
  repository the supervisor of a Slack or Discord socket does so when the socket is lost (`facade-cluster-sockets.ts:186`,
  called from `facade-cluster.ts:306`) and registers a new gate after its retry delay (167, 60 s by default), whatever the election is
  at by then: it has one gate per surface, so it reaches the withdrawal of an election that boots or stands down, and the
  re-registration if a stop outlasts the delay. The other gates are registered once and kept.
- `SingleConsumer` also falls to one lost PROBE or CLAIM, to a start as long as the settling
  time of a claim, and to a RESIGN that arrives after another standby's CLAIM.
- A holder that dies and restarts quickly begins with no memory of its own tenure: it
  starts as an ordered handoff, without a replay.
- A node that concedes a CLAIM does not refresh its stamp of the holder, so its watchdog may
  contest the surface again at once.
- `ranking.ts` compares prereleases as strings, not by the rules of semantic versioning.

### Lock

- An inode number that is given again makes the comparison before the rename (`cross-process-lock.ts:197`) pass for
  another file, against the proof that it still is the same (334): `OneHolder` with `Reuse` TRUE, three
  processes, one caller each.
- The ticket of a dead taker is examined and then unlinked, two steps (211-222); a second who examined it earlier
  unlinks a third's: `OneHolder` with `TakerMayDie` TRUE, `MaxCrashes` 2, three processes.
- A process that stands still for `staleMs` in the middle of its work is taken over (54-59 says so):
  `OneHolder` with `MayFreeze` TRUE.
- A queued caller that times out takes the tail with it, and the next one overtakes those before it
  (542, against 571): `OneContender` with `QueueTimesOut` TRUE, one process.

### Review chains

- `cancelChain` (1763-1816) does not look after the chains that wait for the gates with the one it stops;
  `failChain` does, and says why ("Orphan safety", 1740): `ChainsEnd` with 2 chains, `MaxCancels` 1. `NobodyIsLeftWaiting` therefore
  excepts behaviours with a cancellation.
- `completeChainAsPassed` counts the chain off before a transition that may throw (2758): `CapacityIsKept` without
  worktrees, `autoCommit` FALSE and a cancellation while the gates run.
- With worktrees, capacity is checked before the worktree is prepared and counted afterwards
  (204-227, 1961-1972): the cap may be exceeded. `CapacityIsKept` says so.
- Chains with worktrees that wait together pass with the gates run in the worktree of one (1193).

### Approvals

- A verdict whose write fails stands in memory and nobody who waits is told (`approval-broker.ts:545`); a sweep tells
  and resolves before it writes (585-589); a caller that joined a raise whose write fails waits for ever
  (`approval-broker-raise.ts:147-153`, against 97-99); a decision made while the raise is being written is taken back with it.
  The properties except the asks concerned (`spoilt`).
- Two first calls of `start` may both load, and the later clears what was raised in between (299).
- The deadline of an ask that joins another is ignored; a claim excludes nobody.

### Batch jobs

- A job cancelled when a tick has copied it is acknowledged as cancelled and then sent or overwritten
  (`manager.ts:314`, `336`), against "a paid request the operator explicitly called off" (489-497): the property
  `CalledOffIsNotSent` in `paid_once`. The properties checked except such jobs (`tooLate`).
- A job that is cancelled already is acknowledged again at once, from memory (239). If the write of the first cancellation is still queued, or has
  failed and been reported as failed (249), a process that dies then reads the job back `queued`, and the next tick sends it: `HeardIsKept` and `CalledOffInTime` without `unwritten`.
- A creation whose write fails is refused to the client and stays queued in memory; it is sent.
- One error while polling dead-letters all jobs of a batch that is still running and paid for.
- Two first calls of `load` may both read, and the later replaces the map.
- A flush during a tick joins it without its own `force`.

## 8. What is left out

- Encoding, signatures and keys of datagrams; the peer table and its time to live; `status()`.
- Several surfaces at once: the loads of the nodes are the constant `Load`, so the ledger,
  the cooldown of yields and their convergence are not modelled.
- The growth of the conflict back-off; the upper clamps of the intervals.
- A timer of the settling period that is armed twice (the first handle is lost); the closure of
  the lost one finds the role changed or repeats the other.
- The await of a send: a datagram leaves in the step that says it.
- Versions as text; two equal hashes.
- In the registry: a restart of the manager; a gate that is registered twice; `forget` happens in the step that ends the stop.
- Lock: creation without a staging file (448-468), the sweep of old staging files (257-297), the token
  in the payload, errors of the file system other than those the algorithm answers.
- Review chains: import, resumption and storage, the reaping of zombies, a worktree that cannot be
  opened, the commit without a worktree when the project has no repository, the removal of old chains after a minute,
  `dispose`, events the owner emits early, the plan shown to the user.
- Compound chains: several at once, and with simple ones; from the gates on they are chains like any other.
- Approvals: the pruning of old records, the validation of a stored one, the choice of hunks, publication and
  listeners; the prompt on the own surface is an answer like any; the concurrent first load of section 7.
- Batch jobs: the concurrent first load, `batch.mode` off, flush, the validation of requests; submitted
  and running are one status.
- Not modelled at all: the coordinator, the spread over several surfaces, the group, payments and the scheduler, which have
  protocols and are next (section 9); and the rest of the platform, whose correctness is about data, formats and
  services rather than about steps, and which makes up most of its lines.

## 9. Plan

Done: ranking, timing, node, election, service, delivery, registry; lock; review chains, simple and compound;
approvals; batch jobs; the proofs of section 6.

Next, in this order, each with a module, a run and the theorem named:

1. `PurchaseBudget` (`payments/budget.ts`, `checkout-flow.ts`): reservations, days, the sweep, the
   journal around the click. Committed spending stays within the limit; no second submit.
   Theorem: the limit, as an invariant over reservations and records.
2. `ClusterCoordinator` and `SurfaceSpread` (`coordinator.ts`, `holdings.ts`): composition over
   `SurfaceRegistry` and several surfaces.
3. `SingleConsumer` beyond `OneReader`: with bounds on a delay and a start above zero, and with a third node that contests a handoff.
4. Stored chains: export, import and resumption of review chains over a restart.
5. `TaskScheduler`, then the group if it turns out to have a protocol worth stating.
