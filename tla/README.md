# Formal models of the agent harness

TLA+ specifications of the parts of this repository whose correctness depends on
the order of events: the agent driver, the tool-call scheduler, the session log and
its persistence and repair, the agent factory, the goal round driver, the job registry,
and the laboratory runtime. TLC checks them on small instances; TLAPS proves the most
important results for every instance.

The repository is a plugin system (Cordis contexts and services) around one loop: a
session is an append-only log of events, an agent reads messages from an inbox, runs
turns of steps against a model, executes the tools the model asks for, and appends
everything it does to the log. Other plugins observe the log and the agent, keep the
log durable, start further agents or work on laboratory devices.

## Inventory

Paths are under `src/packages/`.

| Part | State | Operations | What makes it correct |
|---|---|---|---|
| Session log (`core/session`) | events, surfaces, open append | append, fork, projections | events are appended one at a time and follow the turn and step grammar that `invariant.ts` checks |
| Inbox (`core/agent/src/inbox.ts`) | next-turn and next-step lists | splice, claim, remove, clear | a message is handed out once; a follow-up has a turn of its own |
| Agent driver (`core/agent-loop/src/agent.ts`) | phase, abort signal, latched wake | send, wake, cancel, maintenance, turn, step | no wake is lost; a cancel converges and stops the turn; the log stays well formed |
| Tool scheduler (`core/agent-loop/src/tool-calls.ts`) | group, pool, result slots | start, settle, commit, abort, skip | each call has its two events in model order; exclusive tools run alone; nothing keeps running |
| Agent factory (`core/agent-loop/src/index.ts`) | owners, draining identities | start, publish, dispose | teardown waits for everything it started and nothing more |
| Write-behind (`session/session-persistence/src/write-behind.ts`) | pending events, timer, active write, barrier | enqueue, deadline, flush | what is stored is a prefix; nothing is stranded; a flush keeps its promise |
| Persistence coordinator (`coordinator.ts`, `preparations.ts`) | live entries, prepared snapshots, reservations | prepare, load, attach, adopt, flush, retire | one writer per session; no stale snapshot is attached |
| Crash repair (`core/session/src/repair.ts`) | none | compute the closing events of a log | the repaired log follows the grammar and tells the model the truth about each call |
| Jobs (`jobs/jobs-local`) | job records, waiters | run, wait, kill, release | a job settles once; limits hold; teardown ends what is owned |
| Goals (`goal/goal`, `goal/goal-round-driver`) | goal and its activation, reserved round, driver loop | change the goal; checkpoint, reserve, fence, pause, unload | only the next round of the current goal enters; the goal is stored before its round is queued; no trigger is lost; a cancel or an unload stops the rounds |
| Schedules (`schedule/schedule`) | schedule log, dispatch record | due, dispatch, record | a due occurrence is dispatched, at most twice around a crash |
| Storage domain (`storage/storage-domain`) | operation chain | enqueue, transaction, close | operations are serial; close waits for them |
| Subagents, teams, workflows | child agents, mailboxes, workers | spawn, continue, report | every child ends or is owned |
| Laboratory runtime (`experimental/lab-runtime-local`) | experiments, plans, runs, device leases | approve, start, execute, confirm, stop, retry, restore | runs advance on evidence; gates hold; terminal runs stay as they are |

How they interact: callers `send` into the inbox and wake the driver; the driver
claims, appends to the session, asks the model, and hands tool calls to the
scheduler, which appends to the same session; the coordinator observes appends and
enqueues them behind a timer; at a restart the coordinator reads the log, appends
the closing events of the repair, and the agent resumes from the repaired log. All
of this runs on one thread: code interleaves only where it awaits, and where it
calls observers synchronously. Both kinds of point are where the hard behaviour is,
and both are explicit in the models.

## Modules

| Module | Models | Kind |
|---|---|---|
| `SessionTrace` | `core/session/src/invariant.ts`: which event may follow which | abstract specification |
| `AgentDriver`, `MCAgentDriver` | `agent.ts` with `inbox.ts` | detailed; implements `SessionTrace` |
| `AgentDriver_proofs` | the theorems about `AgentDriver` | proofs |
| `ToolScheduler` | `tool-calls.ts` inside one open step | detailed; each append is one `SessionTrace` accepts |
| `ToolScheduler_proofs` | the theorems about `ToolScheduler` | proofs |
| `DurableLog` | what a flush and a crash promise of a live session | abstract specification |
| `WriteBehind` | `write-behind.ts` with the coordinator's `flush` and `initFor` | detailed; implements `DurableLog` |
| `SessionRepair`, `MCSessionRepair` | `repair.ts` over the logs driver and scheduler write | detailed, with crashes; implements `SessionTrace` |
| `StoredLog_proofs` | the theorems about `WriteBehind` and about `SessionRepair` | proofs |
| `PersistenceCoordinator`, `MCPersistenceCoordinator` | `coordinator.ts` with `preparations.ts`, for one identity | detailed |
| `PersistenceCoordinator_proofs` | the theorems about `PersistenceCoordinator` | proofs |
| `AgentLifecycle`, `MCAgentLifecycle` | the factory in `core/agent-loop/src/index.ts`, both registries, the unloading fibers | detailed |
| `AgentLifecycle_proofs` | the theorems about `AgentLifecycle` | proofs |
| `GoalRounds` | `goal-round-driver` with the goal service and its fold, over one agent | detailed |
| `GoalRounds_proofs` | the theorems about `GoalRounds` | proofs |
| `LabRuntime`, `MCLabRuntime` | `lab-runtime-local` with its store and device lease | detailed, with crashes |
| `LabRuntime_proofs` | the theorems about `LabRuntime` | proofs |
| `Jobs` | `jobs-local` with the completion listener of `tool-jobs` | detailed |
| `Jobs_proofs` | the theorems about `Jobs` | proofs |

### AgentDriver

An action is the code between two points at which other code can run. `pc` names the
point: an await (`preStep`, `request`, `recover`, `tools`, `stopping`, and the
resumptions after them), or a window in which observers run. In the windows of an
append (`InAppend`) an observer cannot append, so only a cancel that appends nothing
passes; observers of `agent/status` and of the inbox may call anything. An operation that
an observer calls returns before the one it was called from goes on, so `stack` has what
the operations under way still have to do, the innermost first: `send` its wake (`Wake`),
with the classification it captured before its splice, `cancel` the list it has not
cleared yet (`ClearPrompts`) or the reset of the latch and the abort (`FinishCancel`), a
driver that was just started its way to the first await. An await is resumed only when
nothing synchronous is under way (`Settled`). The end of `kick()` is two actions
(`Retire`, `Replay`) because observers of the idle phase run before a
latched wake is replayed. `cause` is the reason of the current `AbortController`, which
a drained turn replaces by a fresh one. `awaited`, `owed`, `ordinary`, `delivered`
and `unsent` are history variables. A message has no content, so `MCAgentDriver` has the
messages submitted in the order of their numbers (`InOrder`), which loses no behaviour up
to renaming and, other than a symmetry set, is sound for liveness. The model and the tools settle with
any outcome.

A `cancel()` empties the inbox before it takes the latch back and aborts
(`agent.ts:136-139`), and the observers of the discarded messages run in between. A waking
`send` of theirs during maintenance is latched and taken back by line 137, while its
message stays: `NoLostWake` counts the wakes up to the end of a cancel as the cancel's to
take back, those included.

### ToolScheduler

One step with `N` calls. A group is opened under the mode of its first call, its pool
is filled up to `MaxParallel`, results settle in any order, are finalized and committed
in model order. A tool's mode is read again for every call that joins a pool, as an
arbitrary value, since a registry may change meanwhile. `signal` may be aborted at
every await and in the append windows. After an abort the remaining calls get a pair
of events without running; after an internal error the pool is drained and the step
fails. The scheduler ends, so its run does not check for deadlock.

### WriteBehind and DurableLog

Events are numbered as they are appended. A batch is detached from `pending` and is
stored or rejected as a whole; a rejected batch returns to the front. `timers` counts
armed timers rather than saying whether there is one, so that arming twice is visible.
`init` is the coordinator's promise for the session, which a flush awaits before it
drains. `DurableLog` is the promise: a prefix is stored, in order, and a resolved flush
vouches for everything submitted before it ended.

### SessionRepair

The log's writers are reduced to the grammar and to what the scheduler does with the
calls of the step's message. A crash at any event leaves the log and nothing else. The
next load scans it: `Scan` is one iteration of the loops of `interruptedTurnClosers` (an
event, or one block of a message), on what the source keeps in its locals, here `open`
(`pending` is the `Map`, in the order of its insertions). After the last event `Close`
computes the closing events and `AppendCloser` appends them one by one; a crash may come
between any two of these steps, and the next load scans again. Call identities may come
back in a later step, as provider call ids do.

`trace` folds the log with `SessionTrace`. `past` is a history variable that no action
reads: the trace to which each event was appended, so that an invariant can compare what
the scan has kept with the prefix it has read.

### PersistenceCoordinator

One stored identity: its log (`store`, with a torn tail or an open turn), the session
registered under it, the tracked state (`state`: cursor, owner), the pool's one entry
(`entry`: loading, ready, committing or reserved) and the chain that serializes
operations. An operation of the chain is one action from its start to its await of the
backend (`LoadRuns`, `CommitRuns`, `CheckRuns`, `InitRuns`, `WriteRuns`, ...), the code
after the await another. A call of `prepare`, `load` or `inspect` goes through the loop of
the source: wait for a retirement, look for a live session, join or make the pool's entry,
reserve and commit, or start over. What its caller does with a reservation (extend the
private session, publish it, give it back) is an action of the environment. A live session
is created over the identity, published from a reservation, writes batches, is disposed
and retires; the timers and barriers of its writes are `WriteBehind`'s, here a batch is
either in flight or not. `MaxFaults` bounds failed backend calls, appends by another
process, evictions by other identities and aborts together: the source says itself that
continuous external writers may delay the loops.

A call holds its entry by reference. `mine` says that it is still the one in the pool, and
`remove()` of an entry that was replaced does nothing (`Drop`, `preparations.ts:277`). A call
that is aborted while its operation waits in the chain withdraws that very operation, by its
place. An append by another process is noticed only when the log is read again, so
the properties except a log that was written to against a claim on it (`intruded`).

### AgentLifecycle

The starts are constants with their factory and their owner, which is a plugin's fiber,
the factory's own (a configured start) or the scope of another agent. `pc` names the await
a start is at: the wait for its identity, the load, the setup, the listing of the store
that follows a failed configured resume, the rollback. `stage` is the memoized disposal,
which the handle, the owner's unload and the factory's unload may all ask for; `fiber` has
the plugins, the factories and the agents' scopes, `follow` the effect by which a start
watches its owner, first for the load and then for the agent's life. Publication is one
action because it is synchronous: it enters both registries, and its listeners may veto or
abort. Whether the store holds a session is not tracked, so a load and a listing may give
either answer.

The code answers some questions differently than its documentation, and the model follows
the code. The effect of an unloading owner returns at once when somebody else has begun
the disposal (`index.ts:527`), so that unload does not wait for the agent to come to rest,
while the comments at `index.ts:494` and `525` and `core/agent-loop/README.md` have every
racing owner wait for one quiescence; `UnloadEndsStarts` therefore says of an unloaded
owner only that its starts were told to give up, and that everything is gone of an
unloaded factory, which awaits every disposal. A configured start waits for any occupant of its
identity, also a healthy one (`index.ts:434`), where the comment above it calls that a
collision; `TeardownConverges` promises an end of that wait only when the occupant leaves.

### GoalRounds

One agent, its goal, and the driver that queues the goal's rounds. `version` stands for
a goal's identity and revision together: every change has a new one. Paused and blocked are one
phase, since nothing here tells them apart. `armed` is the activation, which is not in
the log; `broken` says that the log holds a round the strict fold refuses, after which
every read of the goal throws. A checkpoint is one flush of the session: `uncovered` has
the loops whose flush began before the last change, so that its end says nothing of it.

A drive that a trigger starts runs inside the trigger, so `loops[i]` is `start` or
`begin` only while nothing else may happen (`Settled`). `slot` is `state.run`: it is
assigned when the synchronous part of the drive has returned, so a goal change made
within that part finds no loop and starts a second one (`BlockAtLimit`, and `GoIdle` by
its pause, which is followed by another request). `RetireLoop` clears `slot` whichever loop retires, as
the source does.

A turn of the agent has the points the driver depends on: `outer` (prompt assembly), `front`
(the listeners in front of the fence), `inner` (the listeners behind it),
`tail` (the listeners in front again, after their `next()`), `step`, and `closed`,
between the end of the turn and the resumption of `kick()`. `Dispatch` takes the list of
listeners, with the fence or without. `exposed` records what a round in the tail was not
protected from: that there was no fence in its list, or a change after the last look.
The agent's own guarantees (no lost wake, well-formed turns) are `AgentDriver`'s; here a
turn has one prompt and one step.

The code does several things its documentation does not say, and the model follows the
code. Two loops may run at once, although `index.ts:207` speaks of one serialized driver
and `index.ts:151` gives a change during a checkpoint its own: each takes the other's
checkpoint for its own. That a round is reserved only over a stored goal is therefore
false; `RoundsAreCovered` is what holds: a change that is not stored is being stored by a
flush that includes it, of a loop that runs beside the one that reserves, and a loop
alone reserves nothing over it. A maintenance leaves the agent's status idle: a drive
during one forgets a round that still waits in the inbox and queues a second one, and a
goal edited meanwhile is paused when the outdated round is dropped. A maintenance that is
cancelled ends without a status event and leaves `competingQueued` set, so the driver
waits for the next turn (`Parked` in `Converges`).

An unload drops the listeners first. They are registered with `ctx.on()` inside the
effect, which makes each a disposable of the fiber, and the fiber takes all its
disposables in reverse and side by side (`vendor/cordis/src/fiber.ts:675-686`): when the
close of `index.ts:425` runs they are gone (`Listening`), although the comments at
`index.ts:243-244` and `423-424` and the README of the package have the fence outlive it.
A round whose dispatch comes then, such as one that waited behind a maintenance, starts
with no fence; `FenceHolds` is about the rounds that had one in their list.

### LabRuntime

One experiment, its plan, its runs, the saved experiment, one device. A call reads the
run's view once; `executeDeviceStep` keeps that view over its four awaits (`Health`,
`Reserve`, `DeviceExecutes`, `Release`) and writes the whole run back, whatever happened
meanwhile. A call answers after `Persist`; when the save fails, the call fails and the
change stays in memory, to be saved with the next one. `Crash` drops what was not saved. Several
calls overlap because tools and web commands share the provider. The clone and the
write of a save lie within one turn of the event loop and are one step.

A gate in state `WAITING` counts as passed (`index.ts:194`: a second
`executeNextStep` passes it; the test at `provider.spec.ts:82` asks for the approval first and
never does this), and a device step writes back the view it read before its
awaits, over a stop or a completion that came meanwhile (`index.ts:495-572`). A terminal run
can therefore change, and no property says that it does not: see "Further
disagreements". What holds of every such write is `EvidenceBehind`.

### Jobs

Jobs with an owner or without, and calls of `wait()`. A producer's `done` and the
settlement it causes are two steps, and so are the end of a wait and its return,
because promise reactions run one by one: a wait whose deadline has passed still counts
until it returns, one that is aborted does not. `CancelForTeardown(S, T)` cancels the
running jobs of `S`, those in `T` with a throw. A disposal is its part up to the await
and its part after it; `captured` and `all` are what it awaits. `attached` says whether
`tool-jobs`, the controller and the listener, is loaded. `known`, `notices` and `orphan`
are history variables. The registry has no guard against a start during its own
disposal; such a job (`Late`) is dropped uncancelled, and the model has it, for as long
as a controller is attached.

## Runs

| Run | Instance | Checks |
|---|---|---|
| `AgentDriver` | 3 messages, 2 steps per turn; 1,161,000 states | handled once and in its own turn, no wake lost but by a cancel, a cancelled turn opens no step, refinement of the grammar, a cancel converges and a latched wake is served |
| `AgentDriver_lost` | 2 messages | finding: a wake between the end of the last turn and the idle phase is lost |
| `ToolScheduler` | 4 calls, pool of 2; 363,000 states | every append accepted, answers in model order and nothing left running, exclusive calls alone, abort, termination |
| `WriteBehind` | 4 events; 2,200 states | order, nothing stranded, refinement of `DurableLog`, storage and barriers end |
| `SessionRepair` | 2 call identities, messages of at most 2 calls, logs of at most 12 events; 1,038,000 states | closers accepted, balancing and final, calls answered once with the right advice |
| `LabRuntime` | 2 callers, 2 runs, an empty graph and two graphs of two steps; 2,325,000 states | evidence behind every step passed, started runs survive |
| `GoalRounds` | goal versions to 4, 2 rounds each, 1 prompt or maintenance, 3 loops; 961,000 states | a round that went by the fence is the next one of the current goal and nothing stopped it, the goal is being stored when a round is queued, no trigger is lost, an unload ends |
| `GoalRounds_log` | as above | finding: a change after the fence's last look makes the log unreadable |
| `Jobs` | 2 jobs, 1 owner next to the unowned bucket, 2 waits; 435,000 states | an end is told to somebody and not twice, disposals end and leave nothing behind |
| `PersistenceCoordinator` | 2 callers, 2 live sessions, 1 event each, 1 fault | a live owner's history covers the store, a reservation excludes other writers and is current, a repair never runs under a live session, a retirement that succeeds has stored everything |
| `PersistenceCoordinator_live` | 2 callers, 1 live session, 1 event, 1 fault | every call returns |
| `AgentLifecycle` | 2 factories, 3 starts, 1 plugin, 2 identities; 1,257,000 states | one driver per identity, unloads leave no start behind, no preparation is kept, every teardown ends |

Bounds, and why they are enough. Three messages allow one in each place (pending,
claimed, logged) and two follow-ups next to a steering message; two steps per turn give
a turn its first step, a continued one and a drained next turn. Turn numbers are bounded
by the messages, since a turn without input completes at once. Four calls with a pool of
two give a full pool, a waiting call, a second group and a skipped rest. Four events
give a batch in flight, a batch pending and events arriving behind both. Twelve log
events hold two steps with two calls each, an interrupted one and its closers. Two jobs
and two waits let a job be waited for twice and another be torn down beside it; the
limit of two is reached by both. Two callers
and two live sessions let a call hold a reservation while another joins, a session replace
one that retires, and an append come between any two; the operations of one identity never
touch another's, so one identity is enough. Three starts under two factories are the
overlapping reload: a configured start of the new factory waits for the identity of a
plugin's agent under the old one, whose scope owns the third. Four goal versions hold a
goal that is edited or paused and resumed while a round is on its way, one that runs out of rounds, and a
second goal that replaces a completed one; two rounds let a first one be followed by a
checkpoint and a last one meet the limit. Three loops are the most that occur within
these bounds, so `MayStartLoop`, the guard that names the bound, never stops a trigger
there. Two runs
and two callers are what a stale view, a retry and a stop need; three callers add only
symmetrical races. `FewFailures` bounds the saves that fail there: any while there is one
run, and with two that of a start whose run is the only thing not saved; the proofs have
every failure.

Fairness. `AgentDriver` and `ToolScheduler` assume weak fairness of the driver's and
scheduler's own steps (a resumed continuation runs) and of settlements (the model, the
tools and the maintenance job settle after an abort or by themselves, as their contracts
say). `WriteBehind` assumes that timers fire, that the backend settles every call (it may
reject any), and that continuations run. `Jobs` assumes that settlements and disposals go on
when they can, and that a producer that was told to stop does stop, which is the
contract of a job's hooks. `PersistenceCoordinator` assumes that backend operations
settle, that promise reactions run and that the holder of a reservation publishes it or gives
it back, which `using` guarantees at the caller. `GoalRounds` assumes that flushes,
listeners, steps and maintenance settle and that each loop, the agent and the unload go
on when they can. `AgentLifecycle` assumes only that its own
code goes on, that a cancelled machine comes to rest (which `AgentDriver` shows) and that a
listing of the store settles: neither loads nor setups need ever settle. Callers are never assumed to call. `LabRuntime` states no liveness.

## Findings

1. `AgentDriver_lost`: `turn()` decides that the inbox is empty, `kick()` resumes a
   microtask later; a waking `send` in between finds a running, unaborted phase and
   leaves its message to a driver that has already decided (`agent.ts:324`, against the
   comment at `agent.ts:175`).
2. `GoalRounds_log`: the fence looks at the goal for the last time at
   `goal-round-driver/src/index.ts:400-413`, but the listeners in front of it still run
   before the message is appended. A goal edited or paused in between leaves a round in
   the log that `goal/src/fold.ts:325-329` refuses, and no read or change of the goal
   succeeds any more; `goal-round-driver/src/invariant.ts:34-35` asserts that there is
   none.

### Further disagreements

Met in the models, where the code was followed; no run is devoted to them, and each is
reached by the run named.

| Run | The code | The repository says |
|---|---|---|
| `AgentDriver` | a cancel during maintenance takes back the wake that an observer of its own discarded messages has sent, and leaves the message (`agent.ts:136-137`) | a waking input after a cancel runs at convergence (`runtime-types.ts:109-111`) |
| `AgentLifecycle` | an unloading owner skips an agent whose disposal somebody else has begun (`index.ts:527`) | racing owners wait for one quiescence (`index.ts:494`, `525`, README line 15) |
| `GoalRounds` | a round dispatched while the plugin unloads meets no fence (`fiber.ts:675-686`) | the fence stays until quiescence, no later round starts (README lines 40 and 62, `index.ts:243`, `423`) |
| `GoalRounds` | a second loop reserves a round while the first one's checkpoint is under way (`index.ts:212`) | one serialized driver, a checkpoint first (`index.ts:207`, `151`, README lines 24 and 36) |
| `LabRuntime` | a device step writes its old view over a run that was stopped meanwhile (`index.ts:495-572`) | terminal runs are immutable (`provider.spec.ts:204`, README line 6) |
| `LabRuntime` | a second `executeNextStep` passes a gate that waits (`index.ts:194`) | a gated step requires approval (`provider.spec.ts:82`) |

## Proofs

`AgentDriver_proofs` proves, for every set of messages, every turn to resume from and
every step bound (from `LastTurnAssumption` and `MaxStepsAssumption` alone):

- `TypeCorrect`: `Spec => []TypeOK`;
- `DriverImplementsTrace`: `Spec => ImplementsTrace`, the refinement of `SessionTrace`;
- `WakeNeverLost`: `Spec => []NoLostWake`;
- `DisposalNeverHoldsWake`: `Spec => []DisposalLatchesNothing`;
- `CancelledTurnOpensNoStep`: `Spec => CancelStopsSteps`;
- `EveryMessageOnce`: `Spec => []HandledOnce`.

The refinement needs an inductive invariant that ties the driver's point to the trace:
`IInv` is `TypeOK`, `PhaseInv` (which phases and flags go with which point: there is a
driver exactly in the running phase, a retired one leaves no cause behind) and `TraceInv`
(at each point the trace has the turn and step open that the phase names, and the next
numbers are theirs). `TypeOK` alone does not say that a step is open when `EndStep`
appends. `WakeInv` adds that a message whose wake is awaited is no longer with its
caller, without which `Send` could award it twice, and has a wake latched or an operation
on the stack that will wake (`Waking`). Whether a frame will wake depends on the phase and
the cause of an abort, so each step that changes these is shown to latch, to start a driver
or to clear what is awaited. `HandledOnce` needs `OnceInv` (a message
is with its caller, in one list or in the claimed batch, once, and such a message was not
logged) and `TurnsInv` (a batch has at most one ordinary message, and one only if the
turn has logged none), and lemmas on
what removing, appending, splitting and concatenating does to a sequence without
repetitions. Each proof has one step per action.

`ToolScheduler_proofs` proves, for any number of calls and any pool, from `NAssumption`
and `MaxParallelAssumption` alone:

- `TypeCorrect`: `Spec => []TypeInv`;
- `AllCallsAnswered`: `Spec => []AllAnswered`;
- `ExclusiveIsBarrier`: `Spec => []ExclusiveBarrier`;
- `EveryAppendAccepted`: `Spec => AppendsAccepted`, each append is one `SessionTrace`
  accepts;
- `AbortStops`: `Spec => AbortStopsStarts`.

`AllAnswered` speaks of the whole log at the end, so its proof follows the log as it
grows: `LogInv` says that it has each started call and each committed result once, in the
order of the calls. `CountInv` orders the counters at each point, `PoolInv` says that a
started call runs or has its slot filled and that the pool is not exceeded, and
`FailureInv` which points a failed step is at. `ExclusiveInv` says that a group opened by
an exclusive call has that call alone and that no later member of a parallel group is
exclusive, although a mode is read again. `TraceInv` makes the started and uncommitted calls
the pending ones of the trace.

`LabRuntime_proofs` proves, for any approved plans, any callers and any number of runs,
from `PlansAssumption` alone:

- `TypeCorrect`: `Spec => []TypeInv`;
- `RunsHaveEvidence`: `Spec => []EvidenceBehind`;
- `AnsweredRunsSurvive`: `Spec => []StartedRunsSurvive`.

A call writes back the view it read before its awaits, so the runs are sound only if the
views in the hands of calls are: `IInv` demands `Sound` of the runs (`RunsInv`), of the
store a crash returns to (`StoreInv`) and of every view held (`CallInv`), and adds that a
call that executes a step read a run that was not terminal. `AckedInv` says that what was
answered is saved.

`GoalRounds_proofs` proves, for any number of goal changes, rounds, prompts and loops,
from the assumptions that `MaxRounds` and `MaxLoops` are positive numbers:

- `TypeCorrect`: `Spec => []TypeInv`;
- `FenceIsKept`: `Spec => FenceHolds`;
- `EveryRoundIsCovered`: `Spec => RoundsAreCovered`.

Both properties speak of one step whose grounds were laid long before. `FenceInv` says of
a round between its fence and its step that it was claimed by its reservation, that nothing
took it back, and that it is the next of the goal unless the goal changed since;
`HeldInv` that a cancel leaves a goal that is not driven, a plugin that is
gone, or a turn whose end will answer it; `TurnInv` that drives never run beside a turn.
`CheckpointInv` says that a change not stored is waited for by `needsCheckpoint` or by a
loop whose flush began after it: a loop that passes its own checkpoint and reserves can
leave only the latter.
`FreshIdType` is a pigeonhole argument: there is always an identity for the next round.

`PersistenceCoordinator_proofs` proves, for any calls, any live sessions, any number of
events and any number of faults:

- `TypeCorrect`: `Spec => []TypeOK`;
- `OwnerMatchesLog`: `Spec => []OwnerCoversStore`;
- `ReservationIsKept`: `Spec => []ReservationHolds`;
- `RetiredIsDurable`: `Spec => []RetiredDurable`;
- `RecoveryIsCold`: `Spec => RepairIsCold`.

It assumes only that the names are distinct: `None` is no call and no session
(`NoneAssumption`), a session is not named like another writer (`WritersAssumption`), and no
call is a session (`ApartAssumption`), since an operation of the chain names whom it is for.

Every one of these is decided where an operation is queued and comes true where it runs,
after whatever ran in between, so the inductive invariant `IInv` is mostly about what a
queued operation may still rely on:

| Part | Says | Needed because |
|---|---|---|
| `Types` | types, and that no session has saved or has in flight more than it holds | `TypeOK` leaves the chain and the calls open |
| `OpsInv` | whom each operation of the chain is for, and that at most one fills the pool's entry | a result is handed to the calls that wait for it |
| `RegInv` | a session being initialized has one operation, with no preparation past its read beside it | a claim is made after an await, from what was known before it |
| `LiveInv` | one batch and one release per session, in the order of its life | a retirement must follow the last batch |
| `EntryInv` | at most one call may commit the entry and at most one holds it, with no session live | otherwise a repair could run under a session |
| `RunInv` | what awaits the backend was handed the log as it is | the two halves of a repair are two steps |
| `OwnerInv` | an owner is live, and a session with work left is the owner | a cold repair needs `NothingWaits` |
| `CursorInv` | when the cursor in memory is the length of the log; an ownerless tracked log is whole | a write trusts the cursor |
| `HeldInv`, `SavedInv` | the held source is the stored log; what counts as saved is stored | `ReservationHolds`, `RetiredDurable` |

The proof is organized by effect. For each action one lemma says what it leaves of the chain,
the calls, the entry and the state; `Embeds` says of a step that the new chain holds
operations of the old one in their order, which carries every statement about the chain
except the one about a new operation. The steps that move no session (`Quiet`) then keep all
parts about sessions together, and the steps of a session are taken one by one.
`RecoveryIsCold` adds that a closer is appended only where `Closers` is not empty (`OpenEnd`)
and that the two ways of appending it, a repair and an adoption, both find nothing waiting.

The proof attempts changed this model in five places. That `remove()` and an aborted wait act
on the call's own entry and operation only had been stated more loosely, and so had the
conditions under which a call that read is settled or looks again; `WritersAssumption` and
`ApartAssumption` had been left implicit.

`AgentLifecycle_proofs` proves, for any starts, factories, owners and identities (from
`StartsAssumption`):

- `TypeCorrect`: `Spec => []TypeOK`;
- `OneDriverAlways`: `Spec => []OneDriver`;
- `PreparationsReleased`: `Spec => []NoPreparationKept`;
- `UnloadsEndStarts`: `Spec => []UnloadEndsStarts`.

`PlaceInv` says which points of a start have an agent, `FollowInv` that a start that no
longer follows its owner was told so, and `RegistryInv` that who is in a registry has an
agent that has not left it: an unload waits only for the disposals it began itself, so what
it leaves of an owner's agents depends on what the others were told before.

`Jobs_proofs` proves, for any jobs, owners and waits, from `JobsAssumption`:

- `TypeCorrect`: `Spec => []TypeOK`;
- `OutcomeNotLost`: `Spec => []OutcomeReachesSomeone`;
- `OutcomeNotRepeated`: `Spec => []NotToldTwice`;
- `DisposalLeavesNothing`: `Spec => []QuietAfterDisposal`.

The count of waits is kept apart from the waits themselves, so `CountInv` says that it is
their number. `OutcomeInv` says of a running job that its end is reported exactly when a
kill or a teardown claimed it (`RunningInv`), that a notice is sent once and with no wait
left (`NoticeInv`), and that a settlement releases every wait (`PendingInv`). `RecordInv`
and `ProducerInv` follow a job through the disposal of its owner and of the service.

`StoredLog_proofs` proves of the write-behind controller, for any number of events (from
`MaxEventsAssumption` alone):

- `TypeCorrect`: `Spec => []TypeOK`;
- `OrderKept`: `Spec => []InOrderOnce`;
- `Implements`: `Spec => ImplementsDurableLog`, the refinement of `DurableLog`;
- `NoneStranded`: `Spec => []NeverStranded`;
- `OneDeadline`: `Spec => []OneTimer`.

The order is kept because the queue, the write under way (`Flying`) and the store are always
cut from one sequence; `SlotInv` ties the barrier's coroutine to the one write there can be,
so that a continuation never overwrites a batch. `StrandInv` adds who holds the deadline
(`TimerInv`) and who will report a failure, from which `NeverStranded` follows.

Of the crash repair the same module proves (it extends both, so `SessionRepair` names its
specification `RepairSpec`), for logs of any length, any identities of calls, any number of
calls in a message and any number of crashes, from no assumption:

- `RepairInvariance`: `RepairSpec => []RepairInv`, the inductive invariant;
- `ClosersAreAccepted`: `RepairSpec => []ClosersAccepted`;
- `CallsAnsweredOnce`: `RepairSpec => []InterruptedCallsAnswered`;
- `RepairImplementsTrace`: `RepairSpec => Session!Spec`: the log with what every
  repair added to it is one history that the grammar of `SessionTrace` accepts.

The closers are a function of the whole log, and what a fold computes for every log is
out of the provers' reach; with the scan as a process, the induction is over its steps.
`RepairInv` is the invariant:

| Part | Says | Needed because |
|---|---|---|
| `PastInv` | every event was accepted by the trace in `past`, and the traces follow from each other | the scan reads events whose acceptance lies in the past |
| `LogInv` | a message is the first event of its step; in the open step a call has one result, and a recorded call without one is pending in the trace | a closer for a recorded call is accepted only if the trace has it pending |
| `ScanInv` | after k events the scan has the turn and step that were open after k events, and one entry for each call of that step without a result, which cites its record if there is one | `Knows` is what `Close` relies on |
| `ClosersInv` | the closers left are results of the open step, its end and the turn's; a closing result is the first of its call and its advice fits the log | it has to hold again after each closer, in the longer log |

`PastInv` speaks of prefixes: the open step after k events (`StepAt(k)`) does not change
when the log grows, and grows by one event or is empty when k does. One lemma for each
operation on the map (`PendFacts`, `CiteFacts`, `UnpendFacts`) says what becomes of its
entries, one for each kind of event that the scan knows the longer prefix, and one for
each writer that it keeps the log in order.

Model-checked only: liveness and fairness, which the prover cannot do (`CallsReturn` of the
coordinator, `Converges` of the goal rounds, and the like), and `LogFolds` of the goal
rounds, which is false. Every invariant and every action property that a passing run checks
is proved.

## Not modelled

Persistence backends, model providers, processes, terminals, sandboxes and transports
are input and output; the models let them settle with any outcome they may have. The
tool, scope and prompt registries are data. User interfaces are consumers. The plugin
container is vendored. In the driver: replacing or prepending pending messages, appends
that fail on invalid data. In the laboratory runtime: several experiments, reports. In
the coordinator: `create` without a session, `readFrom`, the checks of format version and
working directory, and its own teardown. In the goal round driver: listeners that take
messages out of a step or put the claimed context back, edits of the round limit, a
`followup()` that throws, the start of a session and the disposal of the agent, and what
a loop does that was not remembered when the unload ended. In the factory: failures inside a disposal, the
initiator bookkeeping, sessions without an agent. In
the jobs: listeners that call the registry while it settles a job, the isolation between sessions, listeners layered by composition, the budget
of wakes, output. The
permanent failure of a session's initialization is modelled, its consequence (the
session is never stored) is the code's.

## Plan

1. `Schedule`: dispatches around crashes.
2. `StorageDomain`, then `Subagent` continuation over `AgentLifecycle`.
3. Proofs: the bound on `loops` of `GoalRounds`, now a guard.
