# Sayiir: TLA+ models, model checking and proofs

Sayiir runs durable workflows. A workflow is a tree of tasks, delays, signal
waits, forks, branches, loops and child workflows; a *snapshot* of its progress
is saved after every step. It can be run by an engine in one process (three of
them, for Rust, for the Node and Python bindings, and for Cloudflare) or by a
fleet of pooled workers that poll a backend, claim a task under a lease, run it
and commit the result. This project models these from the source, checks them
with TLC on small instances and proves with TLAPS, for all instances, the main
safety results of the fleet, of the dispatch of its rows and of the durable engines.

## The system and its parts

| Part | Source | Modules |
|---|---|---|
| Continuation tree, what it means | `sayiir-core/src/workflow.rs`, `task_index.rs` | `Tree`, `Flow`, `Definition`, `WorkerTree` |
| Builders, registries, flows | `sayiir-core/src/builder.rs`, `continuation_builder.rs`, `registry.rs`, `sayiir-flow-js`, `sayiir-python` | `Builders`, `Building` |
| Steppers (execution without a store) | `sayiir-node/src/engine.rs`, `sayiir-cloudflare/src/engine.rs` | `Stepper`, `Building` |
| Snapshot and its operations | `sayiir-core/src/snapshot.rs` | `Snapshot` (trees), `PgPool` (chains) |
| Durable engines: runner, callback, Cloudflare | `sayiir-runtime/src/runner/`, `execution/`, `sayiir-cloudflare/src/durable.rs`, `lifecycle.rs` | `Durable`, `DurableBranch`, `Runner`, `Callback`, `CfDurable`, `Engines` |
| Pooled worker: one dispatch | `sayiir-runtime/src/worker.rs` | `PgPool` (Postgres), `WorkerTree`, `LocalPool` (in memory) |
| Pooled worker: actor loops; wake-up channel; choice of rows | `worker.rs`, `sayiir-postgres/src/wakeup.rs`, `task_claim_store.rs` | `Dispatch` |
| Postgres: claims, snapshots, signals, events | `sayiir-postgres/src/` | `PgPool` |
| In-memory backend | `sayiir-persistence/src/in_memory.rs` | `LocalPool`, `Local` |
| Client, conflict policies | `sayiir-runtime/src/client.rs`, `sayiir-persistence/src/lifecycle.rs` | `Local`; initial state and client actions of `PgPool` |
| What a client may rely on | | `Lifecycle`, implemented by `PgPool` |

How they interact: a front end builds a tree; its hash identifies it in every
checkpoint. A client saves a fresh snapshot (`submit`, `prepare_run`) and later
stores control signals (cancel, pause) or sends external events. An engine walks
the tree and checkpoints; when it parks, or its process dies, somebody calls
resume. In a fleet, a worker's poll (`find_available_tasks`, or `find_hinted_task`
from a NOTIFY hint) returns an instance with its snapshot; the worker claims its
task, checks for control signals, runs the task under a heartbeat, saves the new
snapshot behind the *claim fence* (the write goes through only while the claim
row is the worker's own and unexpired), drains a buffered event if the workflow
is now parked on a signal, releases the claim, checks for control signals again
and decides whether the workflow is complete.

`PROJECT.json` lists every part, every run, the source lines of every
definition, and the hazards at the line where they bite. Definitions marked
*Faulty variant* are not part of a model: each is a plausible bug of the
definition after it, used to show that a property can fail.

## PgPool: one instance, a fleet of workers, Postgres

`PgPool.tla` models one workflow instance whose tree is a chain of tasks, delays
and signal waits (`Chain`). `Slots` are the dispatches in flight; `WorkerOf`
gives each slot its worker.

| Variable | Code |
|---|---|
| `row` | the row of `sayiir_workflow_snapshots` with its blob: status, position kind and node, nodes with a result, attempts, and whether the awaited time has come |
| `outs` | `sayiir_workflow_tasks.output`, the sidecar |
| `claim` | the row of `sayiir_workflow_claims`; `live` is `expires_at > now()` |
| `signals`, `events` | `sayiir_workflow_signals`, `sayiir_workflow_events` |
| `hints` | wake-up hints at each worker, coalesced |
| `sender`, `sent` | a client between the probe and the transaction of `send_event`; events are numbered as sent |
| `pc`, `task`, `snap`, `hand` | where a slot is, its task, **its own copy** of the snapshot, and the event it has consumed but not saved |
| `lapsed`, `abandons` | history: the lease expired under the slot; how many slots stopped |

One action is one SQL statement or transaction with the local code up to the
next one. What makes the protocol hard is kept: a slot works from the copy it
polled *before* the claim; the release comes before the completion check; the
saves of `find_available_tasks` (elapsed delays), `drain_pending_signal` and
`determine_post_task_status` have no fence; a slot may stop at any step
(`Abandon`: a crash, a propagated backend error, a heartbeat that failed too
often); leases may lapse under a slow worker; `settle_failure` ignores the
errors of its own write. A delay is marked completed when it is *entered*, and
leaving a park always sets an `AtTask` position, as in the code. The position
stays on the last task after its commit.

Abstractions. Payloads are dropped except that events are numbered. Time is a
bit (`due`) that becomes true once. All signal nodes of a chain wait for the same
signal name, the case in which events compete. A tick of the heartbeat reads the
signal and extends the claim in one step. An unsuccessful
`pg_try_advisory_xact_lock` in the claim statement ends the dispatch just like a
claim that is taken, and is not a separate case. A terminal snapshot drops its
results; the model keeps them as history. A pending event of a finished workflow
is of no interest. `UseHints` stands for the external actor loop of the language
bindings, which dispatches straight from hints.

### What the runs show

Deadlock checking is off: a workflow that is terminal, paused or waiting for an
event really has nothing to do. Bounds: two slots (every race below is between
two dispatches, or one and a client), one crash in the safety runs and two in the
fair one, one or two retries, two events, and chains long enough for a task to
follow every node in question. Control signals and unpauses are not bounded.

| Run | Chain | Distinct states | Shows |
|---|---|---|---|
| `PgPoolTasks` | three tasks | 381 000 | with retries, cancel, pause, lapsing leases and a crash: types; leases are owned; no two slots run at once unless a lease lapsed; attempts bounded; terminal rows final; no late commit takes back a result; the whole implements `Lifecycle` |
| `PgPoolParks` | task, delay, task, signal, task | 321 000 | with two events, cancel, lapsing leases and a crash: snapshots coherent, Completed means done, inputs durable, terminal rows final; a delay is not left before it elapses; no position names a node that cannot run; an event buffered at a parked workflow has a slot about to drain it, unless a slot stopped |
| `PgPoolLive` | task, delay, task | 141 000 | under fairness, with retries, hints, cancels and two crashes: undisturbed, the workflow ends; after crashes every task is still done; a cancel that arrives while a task runs takes effect if no slot stops and no retry is scheduled |

`Lifecycle.tla` is the promise of the fleet to a client: a single sequential run.
Results appear one at a time in the order of the tasks, the workflow is Completed
only with its last result, an end is an end. The mapping is the identity on the
row's status and results. Two weaknesses of the code had to be made part of the
promise, and no more: the last task may be taken up again after its result is
recorded (and a failing second run withdraws that result), and a worker that was
running when the workflow was paused puts it back InProgress.

### Fairness

`Fairness` assumes that a slot that can work does so (`WF` of `Work(s)`: the actor
loop polls on an interval and a dispatch is a running future), that leases and
timers elapse, and that a client inside `send_event` finishes. Crashes, hints,
heartbeat ticks, signals, events and unpauses are not assumed to happen. The
fair runs set `SlowWorkers = FALSE`: the heartbeat (a quarter of the TTL) keeps a
claim alive while its slot is at work, so a lease expires only after its slot has
stopped.

### What is proved

For every chain, fleet, retry policy and bound (`PoolAssumption` only types the
constants):

* `PgPoolProofs`: `TypeCorrect`, `TerminalFinal`. `TypeOK` is inductive once
  strengthened by "a client inside `send_event` has sent something", since the
  number of an event is never 0 (`TypeInv`). `TerminalFinal` needs one fact per
  action: every write of the row goes through the guard of
  `exec_save_snapshot` or checks the status under the row lock.
  In the same module: `CoherentSnapshots`, `CompletedIsDone`, `InputsDurable`,
  `RetriesBounded` (the last for `MaxRetries > 0`; `VioZeroRetries` shows why).
  Stale copies overwrite the row, so no property of the row alone is inductive.
  `CopyInv` says the same of the row and of every copy: it is coherent with its
  position, its attempts are bounded, and (`Fed`) the sidecar holds what the node
  at its position needs; plus what each program point knows of its copy. It is
  preserved because outputs are never removed from the sidecar (`Grows`), so a
  stale copy stays a legal snapshot for ever.
* `PgPoolFleetProofs`: `LeaseOwned`, `MutualExclusion` and `FenceKeepsProgress`,
  assuming `OneSlotPerWorker` (no worker has two dispatches of the instance in
  flight; `VioSharedWorker` shows that the code needs it) and, for the last one,
  `TasksOnly` (no delays or signals: `VioDelayRollback` shows that their unfenced
  saves break it). `LeaseIsOwn` is inductive. `FenceKeepsProgress` needs
  `FenceInv`: no copy is parked, and a slot that owns the claim row and has not
  committed is at the row's own task, so that by coherence what passes the fence
  extends the row.
* `PgPoolFleetProofs`, the lifecycle: `FleetIsSequential`, the refinement of `Lifecycle`, under
  `OneSlotPerWorker` and `TasksOnly`. Besides `FenceInv` it needs `LateInv`: when
  the copy of a slot that has committed has all results, the row has ended or has
  all but perhaps the last, so that the unfenced completion is a `Complete` step or
  is refused.
* `PgPoolFleetProofs`, the parks: `NoPhantom`, for chains in which a task comes first and after
  every park (`ParksApart`; `VioPhantom` shows why). `FitInv` says of the row and
  every copy that the kind of position fits the node it names.
  `EventsDrained` proves `NoStrandedEvent` if workflows are not paused (`NoPauses`:
  an event sent to a paused workflow is buffered unseen, and its unpause does not look
  for it). `DrainInv`: a client that found no wait buffers its event only for a
  finished workflow, and a row comes to be parked on a signal only by a slot that goes
  on to drain. `LoneDelayHonoured` proves `DelayHonoured` for a chain whose one delay
  has tasks before it and some node after it (`LoneDelay`), under `OneSlotPerWorker`.
  `DelayInv` orders the copies by that delay: a copy past it means that the row is,
  and no slot that can write behind the fence is at a task before it once it is
  reached. With a second delay, a signal before the delay, or no node after it, a late
  unfenced save can move the row off the delay too early, and the property fails.

`FinalKept` (`EnginesProofs`), `DelaysWaited` (`EnginesDelayProofs`), `CapacityKept` and
`WakeupsKept` (`DispatchProofs`) are described with their components below.

Only model-checked: everything under fairness (liveness is out of the prover's
reach); `Building` and `Local`; and what `Engines` says of values and runs
(`CompletedIsRight`, `TrueRuns`, `NoRerun`). These rest on recursive
operators over trees (`Eval`, `flatten`, `hash_continuation`), and what those compute
for every tree needs induction over data, which the prover does not offer.

## Building: definitions, front ends, execution without a store

`Tree` gives the shape of a tree and how forks and routes resolve, `Flow` the walks
over it and its meaning: `Eval` runs it as the executors without a store do. A value
is the term that produced it (task *b* applied to task *a* applied to the input), so
two executions agree when their terms do, and a wrong input anywhere shows in the
output. `Definition` has what is done to a finished tree: duplicate check, node
listing, serialized form, hash and the way back through a registry. `Builders` models
the builder calls of the three languages, with the counters behind generated ids, the
registries and the merging of a child; `Stepper` the flat plan that the Node and
Cloudflare bindings step through. In `Building` a program makes calls in any order,
builds, and runs.

`Building` (737 000 states) covers every program of up to three calls, counted over
child and parent, in each language, with plain and punctuated names for steps, two
functions, metadata, routes with declared and undeclared keys, loops of up to two
iterations, forks and children, also children that define an id their parent's registry
has. Three calls are enough for a child with a step of its own beside two steps of the
parent, for two generated ids of a kind, and for a step after each kind of node. It
shows:

* a workflow with distinct ids computes what was written, in each language
  (`RunsAsWritten`). Where a child and the registry of its parent share an id, what was
  written is the rule documented at `TaskRegistry::merge`: the parent's function wins
  (`ParentWins`);
* stepper and recursive executor agree, also with repeated ids (`StepperAgrees`);
* the serialized form comes back as it was written, under the same rule, or not at all
  (`RoundTripIsExact`);
* different definitions have different hashes (`HashSeparates`). The text that is hashed
  is built as in the code, SHA-256 is taken as injective. The text is not escaped, so the
  property is for ids without its punctuation (`VioIds` has an id that collides), and
  priority and tags, which are not in the text, do not count as a difference;
* tasks run in the order of `iter_nodes` (`ListedInRunOrder`).

A program stops when its workflow has run, so deadlock is not looked for.

## Engines: durable execution in one process

`Durable` holds what the engines share, the steps of the main executor included;
`DurableBranch` the branch executors of the two runtime engines, which read and mark
a snapshot of their own; `Runner` (parallel branches), `Callback` (one branch after
the other, Node and Python) and `CfDurable` (Cloudflare) the rest. `Engines` adds
`prepare_run`, resume, finalize and the world: crash, requests, events, time. What the
engines read off a definition by recursion (its first task, its ids, its meaning) are
operator constants of `Durable`, for which `MCEngines` takes the definitions of `Flow`:
so nothing proved about the engines depends on how those walks are written.

An execution is a set of threads, each a stack of frames, one frame per call of an
execute function; one action runs up to the next await of the store or of user code.
`store` is the stored row, `mem` the running process's snapshot; `delays` are the
delays that have started and not elapsed; `ran`, `kept` and `got` are history. A
backend call is one step (in Postgres it is a transaction, D1 documents a single
Worker). At most one process works on the instance, and one that has returned an
error leaves no tasks behind when the next one starts.

`Engines` (183 000 states) runs all three engines on every tree of up to four nodes, once
undisturbed and once with a crash and a pause, and on larger trees: chains with delay,
retries and a timed task, signals, forks, a fork with a delay, routes, children, nested
forks, loops with one to three iterations under both policies, and a tree with everything
inside the branches of a fork, with up to two crashes, a pause, a cancel and failing
tasks. Of these it takes the cases in `Covered` (`MCEngines`), the scope of the properties,
which is described below. The trees are a superset of what the builders write, whose fork
branches are tasks only (`fork_with_delay_in_branch`,
sayiir-runtime/src/execution/tests.rs:1383, is one the repository's tests build by hand).
Four nodes hold every node kind inside every other with something before or after it; the
same properties were checked once on all covered trees of up to five nodes (13 000 cases).

It shows, for the covered cases: what completes is what the definition computes
(`CompletedIsRight`); tasks run only on inputs of the definition (`TrueRuns`); a stored
result is not computed again (`NoRerun`); nothing after a delay runs before it has elapsed
(`NotEarly`); an end is final (`FinishedIsFinal`); and a workflow that is resumed again and
again ends, unless it waits for an event, or at a signal inside a branch, where no engine
consumes one (`Ends`).

What `Covered` leaves out, and what goes wrong there. *Interrupted* means that a crash or a
pause may come.

| Left out | Why (all engines unless named) | Shown by |
|---|---|---|
| interrupted definitions that do not begin with a task | the resume starts at the root on the output of the task completed last (lifecycle.rs:214-231); with no task in front, the unfinished branches of a fork run on the result of a finished one | `VioResume` |
| interrupted forks with branches of several nodes | a branch counts as finished by the result of its first node (fork.rs:49) | `VioResume` |
| a delay in a branch with a crash, or, under Cloudflare, a pause | the result of the delay is saved (control_flow.rs:151) before the position of the fork (fork.rs:93-104): after a crash in between, the join does not wait; Cloudflare completes with the wrong value | `VioResume` |
| interrupted arms with a child or a route | the branch executor saves the snapshot it loaded over results stored since | `VioResume` |
| interrupted loops; parks inside loops; bodies that do not end in a task | the value for the next iteration is not stored (loop_runner.rs:166) | `VioLoopResume`, `VioLoopStuck` |
| delays in routed arms | nobody saves a position for them | `VioArmDelay` |
| children that end in a delay or a signal; under Cloudflare, parks in arms and signals in branches | the resume finds no node after the park and completes the whole workflow (helpers.rs:191-201, 246-252) | `VioParkEnd` |
| in arms, signals beside anything but tasks | the signal parks, and the resume enters the arm again on the output of the task completed last | |
| forks without a join | the builders write none; the output is that of whichever branch came last | |
| a failing task, or a park, beside a branch of several nodes | a branch with a child, a loop or a route saves the whole snapshot it loaded, also after the workflow has been marked Failed, and the in-memory `save_snapshot`, which has no guard, shows it InProgress again (Postgres refuses to overwrite a terminal row) | |

Proved: `FinalKept`, that an end is final (`FinishedIsFinal`), for all three engines,
every tree, any number of threads, crashes, requests, events and failures, and whatever
the operator constants are. Its one assumption, `PlainBranches`, is the last exclusion of
the table: under the runner, the branches of a fork hold tasks, delays, signals and forks
only. No action looks at the row before it overwrites it, so the proof has to show that
whoever may still write agrees with the row. The inductive invariant is `Inv`. `LiveInv`:
as long as the main thread has frames to run or a result to finalize, the row and the
process's snapshot are both InProgress. `StackOK`: a frame of a branch executor on the
main thread (a routed arm, a child, a branch of the callback engine) holds an InProgress
snapshot from its load on, and only the frame on top may still have to load it.
`ThreadsOK`: the threads of fork branches, which may outlive the main one, run nodes
that only mark single results, and that is refused on a finished row. `EnginesMainProofs`
has the invariant and the steps of the main thread, `EnginesProofs` the branches, the
resume, the world and the theorem, one lemma per action. `Inv` was first checked with
TLC on the cases of the run that meet `PlainBranches`.

Proved as well: `DelaysWaited`, that no delay is cut short (`NotEarly`), for every
definition whose delays stand outside the branches of forks and, unless only Cloudflare
runs, outside routed arms (`DelaysOnSpine`; delays inside child workflows and loops are
covered, at any depth). `VioArmDelay` shows why arms are excluded, and `VioResume` why
branches are: after a crash between the result of the delay and the position of the fork
the join does not wait. On the spine more is true and this is what is
proved: while a delay is on, no task runs at all. Nothing in the process keeps it so. The
delay is held up only by the position of the row, which the next resume reads
(`prepare_resume`), and by nobody being left who runs on or writes the row. The inductive
invariant is `DInv`. `AtRest`: while a delay is on, the main thread has parked or is gone,
no thread of a fork branch is left, and a row that is open is parked at that delay.
`StackD`: above a frame that is a fork running its branches, or inside something without
delays, there are only nodes without delays, so the wait of a delay is never caught by a
fork that goes on with the next branch. `Family`: a thread that has branch threads below
it is at its join or has failed, so when the main thread parks none are left over.
`EnginesDelayMainProofs` has the invariant and the main executors, `EnginesDelayProofs`
the rest and the theorem; `DInv` was first checked with TLC on the cases of the run that
meet `DelaysOnSpine`. `EnginesBaseProofs` has the lemmas about stacks, paths and snapshots
that both proofs use.

Fairness: the process runs on, time passes, and somebody resumes what is neither
finished nor paused, and unpauses what is paused, as the guides ask of an operator.
Deadlock is not looked for: a workflow that waits for an event has nothing to do.

## Local: pooled workers on the in-memory backend

`WorkerTree` has the walks by which a worker, which runs one task per dispatch, finds
its place in any tree: input of a join, position after a task, finished loops, the
end. `LocalPool` is a dispatch on `InMemoryBackend`, one action per section under a
lock, so that a client's call can fall between two sections of a worker's; `Local`
adds the clients: submission under a conflict policy, cancel, pause, unpause, events.
Fenced saves are plain saves there (the trait's default), claims are kept per task.

`Local` (151 000 states, deadlock looked for) covers one worker on chains, parks, forks,
loops, routes and children with two pauses, a cancel, two events, failing tasks and a
lapsing claim; submissions again under each policy, with another input than the first, so
that results of the old instance show in the new one; and two workers on chains of tasks,
with cancel and pause, with failures and lapsing claims, with a submission anew, and on a
fork. It shows:

* outputs and inputs are the definition's (`CompletedIsRight`, `TrueRuns`) for chains of
  tasks, delays and signals under one worker, and for chains of tasks under two. Each
  instance is held against its own input: what is stored never mixes an instance with the
  one that replaced it;
* a join sees the last result of every branch (`JoinSeesBranches`), with one or two workers;
* with one worker, no stored result is computed again (`NoRerun`), and an end is final
  unless the instance is submitted anew under TerminateExisting (`FinishedIsFinal`);
* with one worker, a cancel request is dropped only with its effect, unless the instance is
  replaced between the sections of `check_and_cancel` (`CancelKept`);
* with one worker, a workflow of tasks, delays, signals and forks ends (`Ends`).

These restrictions are the code's. Two workers that have both collected a parked instance
both advance it, the second with an empty value over the first, and a worker's plain save
takes a cancelled row back to InProgress: `VioTwoWorkers` has the same statements without
the restriction (`OutputAsDefined`, `RunsAsDefined`, `CancelKeptAnyhow`, `EndsAnyhow`), each
violated. A worker that still runs a task of a replaced instance saves the old one over the
new one (`SubmissionKept`, under `VioClients`). Forks under a pooled worker give the
branches wrong inputs (`VioWorkerFork`). Routes, loops that repeat and children never
complete under a pooled worker; `Ends` does not speak of them.

Fairness: workers go on, the clock moves and the submission is made. A task that is asked
again and again by its heartbeat ends at last (strong fairness of `execute_with_deadline`:
the heartbeat's two sections interrupt it for ever otherwise).

## Dispatch: several rows, hints, slots and shutdown

`Dispatch` models how rows reach the workers of one process: the NOTIFY listener with
its pending set and bounded queue, each worker's actor loop (ticks, hints, batches,
free slots, shutdown) in both forms, in process and external, and the scan: two arms,
aging score, soft affinity, cut to the batch, then the filters. A task in flight is claimed,
ends and saves the row, gives the claim back and, after the last task, marks the workflow
completed, one step each: the save notifies while the row is still claimed, so a worker may
be woken too early and find nothing, and a dispatch fetched before the last commit may claim
the row once more after the release. What else lies between claim and end `PgPool` models;
leases do not lapse here, parked rows are left out, and one scan is one step (it skips rows
that are locked). A *dead* row is one between the commit of the last task and the
completion; it stays dead if its worker stops there. A cancelled row is over with the save:
its pending signal hides it from every scan until it is.

`Dispatch` (120 000 states, queue of one hint) covers: two workers sharing hints, more
rows than queue with errors and a broken connection, two slots with batches of one,
a tagged row and workers, and rows nobody can run. It shows: slots are never exceeded
(`WithinCapacity`); no wake-up is lost while the listener is connected and has room
(`NoLostWakeup`); every row a worker may take is served, provided fewer rows than its
batch are ones it can never run (`AllServed`); a shutdown ends the loop with nothing
claimed left behind (`ShutdownDrains`). Without the proviso, `VioStarved`. Fairness:
loops and tasks go on and backoffs pass; no notification is assumed to arrive.
Deadlock is not looked for: after a shutdown there is nothing to do.

Proved in `DispatchProofs`, for any rows, workers, tags, batch and queue sizes
(`DispatchAssumption` types the constants): `CapacityKept` (`WithinCapacity`) and
`WakeupsKept` (`NoLostWakeup`). Neither is inductive alone; `WakeInv` adds `LoopInv`, that
a worker holds a hint only between taking it and acting on it and then has a free slot,
and that no task of a fetched batch has been started; and `PendingInv`, that a key is
pending only while its hint is queued, about to be, or taken by a worker that has yet to
give the key back. Hence a notification dropped as a duplicate has a twin nobody has
acted on.

## Where the code departs from its documentation

Each of these runs checks one statement of the repository's own documentation or
comments; TLC gives a schedule that breaks it. Quotations and code lines are under
`findings` in `PROJECT.json`.

| Run | Property | What the code does |
|---|---|---|
| `VioReexecution` | `NoReexecution` | the last task is run again by a dispatch polled before its commit |
| `VioLoopResume` | `NoRerun` | a loop resumed after a crash is fed its first input again |
| `VioArmDelay` | `NotEarly` | a delay inside a routed arm is over with the next resume |
| `VioWorkerFork` | `RunsAsDefined` | a pooled worker gives a branch the output of the branch before it |
| `VioStarved` | `NeverStarved` | rows no worker can run fill every scan |

Further configurations of the same form are kept beside them; TLC finds each
property violated (where one configuration has several, it stops at the first: leave
the others out to see each). They show what the assumptions of the passing runs and of the theorems are
for, or corner cases.

| Configuration (module) | Property | What the code does |
|---|---|---|
| `VioPause` (`MCPgPool`) | `PauseSticks` | a commit from a stale copy un-pauses the workflow |
| `VioZeroRetries` (`MCPgPool`) | `AttemptsBounded` | `max_retries = 0` still retries once |
| `VioDelayRollback` (`MCPgPool`) | `ProgressKept` | the unfenced advance of a delay takes back a result |
| `VioPhantom` (`MCPgPool`) | `NoPhantomTask` | a delay in front of a signal wait leaves a position no dispatch can run |
| `VioEventLost` (`MCPgPool`) | `NoEventLost` | draining and sending race, and an event is lost |
| `VioLastTaskCrash` (`MCPgPool`) | `Terminates` | a crash after the last commit leaves the workflow InProgress for ever |
| `VioIdleCancel` (`MCPgPool`) | `CancelApplied` | a cancel of a workflow no slot is working on is never applied |
| `VioSignalTimeout` (`MCPgPool`) | `SignalTimeoutFires` | the timeout of a signal wait never fires in the fleet |
| `VioSharedWorker` (`MCPgPool`) | `LeaseIsOwn` | two dispatches of one worker share a claim row, which carries no token |
| `VioLoopStuck` (`MCEngines`) | `Ends` | a loop behind a task never ends after a crash |
| `VioResume` (`MCEngines`) | `CompletedIsRight`, `TrueRuns`, `NotEarly`, `NoRerun` | a resume in the middle of a fork, or of an arm with a child: see the table under Engines |
| `VioParkEnd` (`MCEngines`) | `CompletedIsRight` | a delay or a signal at the end of a child completes the whole workflow |
| `VioIds` (`Building`) | `DuplicatesRejected` | the JavaScript and Python front ends accept repeated ids, although composing-workflows.mdx:254 says that the build fails |
| `VioIds` (`Building`) | `HashSeparatesAnyIds` | an id that holds the punctuation of the hashed text makes two definitions collide |
| `VioTwoWorkers` (`MCLocal`) | `OutputAsDefined`, `RunsAsDefined`, `CancelKeptAnyhow`, `EndsAnyhow` | two workers advance one park twice, and one saves over the other's cancel |
| `VioClients` (`MCLocal`) | `PauseKept` | a second pause request is dropped with the first |
| `VioClients` (`MCLocal`) | `FinishedIsFinal` | two submissions under Fail both start, the later over a finished instance |
| `VioClients` (`MCLocal`) | `SubmissionKept` | the commit of a replaced instance lands on its successor |

## Not modelled

* Codecs, the binary snapshot format, tracing, connection handling and migrations,
  error types, macros, the conversion of values in the language bindings, benchmarks
  and the site: no protocol state.
* The floating-point backoff delay: a backoff is a bit that becomes true once.
* Row-lock deadlocks: a transaction is one step; Postgres aborts a deadlocked one,
  which a slot's `Abandon` covers.
* The statements inside one call of the D1 backend, whose comments rule out
  concurrent access; the order in which `resumeAll` takes parked instances.
* Trees other than chains over Postgres: `PgPool` has the claims and stale copies,
  `Local` the trees; the product of the two is too large to check, and what the worker
  does with a tree does not depend on the backend.
* The history table, listing and deletion of snapshots: nothing reads them back into
  the protocol, except deletion under TerminateExisting, which `Local` models.
