# Verification of the veryfront runtime

This directory holds TLA+ models of the parts of `veryfront-code` whose
correctness rests on concurrency, failure or time: the durable workflow runtime
(`src/workflow/`), the pool of render generations and the hosted executor
session. TLC checks the models on small instances; TLAPS proves every safety property the
runs check for every instance, some of them under conditions that section 5
names. Paths below are relative to the repository.

## 1. Inventory

### 1.1 What the repository is

`veryfront-code` is a full-stack TypeScript framework: an HTTP server with
rendering, transforms, caches and platform adapters; an agent runtime over model
providers, tools, MCP and OAuth integrations; a CLI; extensions; and a durable
workflow runtime. Most of it maps requests to responses or wraps external
services. The workflow runtime is the part whose correctness rests on a
protocol between processes that crash, sleep, race and retry, so it is modelled
first and in most detail (1.2 to 1.4). Around it there are parts that keep state
across awaits and are stopped, cancelled or recovered while they work; two of
them are modelled (1.5). `PROJECT.json` lists the other parts as `not_modelled`,
each with its reason.

### 1.2 Parts of the workflow runtime

| part | source | state it keeps | operations |
|---|---|---|---|
| run control | `runtime/workflow-run-control.ts` | none of its own between calls; per execution: lock token, abort reason, heartbeat in flight, "paused for waiting" | claim, execute (acquire, admit, activate, heartbeat, complete / park / fail, unlock), reconcile a decision, an event, an execution failure |
| executor | `executor/workflow-executor.ts` | `activeRunControllers`, `cancellationUpdates` of the process | start, resume, resumeChildRuns, retry, cancel |
| backend | `backends/memory.ts`, `backends/redis/` | run records, locks, stalled claims, checkpoints, approvals, event waits, mailbox, queue | conditional updates, snapshot restore, acquire / extend / release lock, claim stalled run |
| run manager | `worker/run-manager.ts` | `activeExecutions` | poll, claim, create an isolated execution, sync |
| workflow worker | `worker/workflow-worker.ts` | `activeResumes`, one worker id | poll, claim a stalled run, resume it in process |
| isolated entry point | `worker/run-entrypoint.ts`, `worker/shared.ts`, `worker/executors/` | process, exit code | resume the run, report a failure |
| DAG executor | `executor/dag/` | node states, ready set, parked waits | schedule, publish node states, checkpoint |
| step executor | `executor/step-executor.ts` | attempt, timers | run, retry with backoff, time out |
| checkpoints | `executor/checkpoint-manager.ts` | saved snapshots | save, find the latest, prepare a resume |
| approvals | `runtime/approval-manager.ts` | pending approvals, decision claims | request, decide, expire, reconcile |
| event waits | `runtime/event-wait-manager.ts` | waits, mailbox, delivery claims, receipts | register, publish, drain, time out |
| client, HTTP, hooks | `api/`, `http/`, `react/` | timers | map calls onto the above |

### 1.3 How the parts interact

All parts meet in the run record of the backend. Each execution has a worker id
(`run-execution:<id>`; a manager in the middle of a claim `mgr:<id>`; a
workflow worker its own id). Writes of an execution are conditional updates on
the status *and* on the worker id: the fence. Independently of the fence, the
graph runs only under the run's lock, a lease of 30 s that a heartbeat renews
every 10 s; the same heartbeat keeps `heartbeatAt` younger than the 60 s after
which a manager or a worker may claim the run as stalled. Between any two
`await`s of one actor, every other actor may act.

### 1.4 What is hard here, and what correct means

- *Exclusion*: start, resume, retry, and recovery all end in `acquireLock`. Two
  executions must never work on one run together (`SoleExecution`), and a run
  must not be taken away from an owner at work (`NotDisowned`).
- *Late processes*: a process may sleep for longer than its lease and its
  heartbeat. What it then writes must not count (`FencedCompletion`), and it
  must not drop the lock of its successor (`LockRespectsHolder`).
- *Races for the terminal status*: cancellation, completion, failure, a rejected
  approval, retry and its rollback (`ImplementsLifecycle`).
- *Deaths and failed calls*: any process may die between any two writes; a
  backend call may fail after it was applied. A run must still settle
  (`RunSettles`) and its lock must come free (`LockComesFree`).
- *Outcomes from outside*: an event, a decision or a deadline is written onto a
  wait node while executions work on older copies of the graph, publish by key,
  park, and put checkpoints back (`OutcomeKept`, `CausallyClosed`, `OneGraph`).
- *Mail*: an accepted event is in the mailbox, claimed for a wait or the output
  of a node, whichever process dies (`MailConserved`, `DeliveredOnce`,
  `MailInOrder`, `OutcomeStable`, `EventLands`, `DeadlineApplies`), and what a
  publisher is told is true (`DeliveredTruthfully`).
- *Decisions*: a round of a loop goes on with its own decision only, two
  approvers cannot both win, and an accepted decision survives crashes and
  retries (`OwnDecision`, `RejectionStops`, `DecisionKept`).

`PROJECT.json` lists each hazard at the line where it bites, with the property
that covers it or the reason why none does yet.

### 1.5 Parts outside the workflow runtime

| part | source | state it keeps | what is hard | modelled |
|---|---|---|---|---|
| render generation pool | `rendering/render-generation-pool.ts`, `rendering/render-generation.ts` | owners, counts of owners and requests | retirement and close while renders read artifacts, cleanup that fails | yes |
| executor session | `agent/hosted/executor-session.ts` | allocation, attachment, owned work | late, lost and failed answers of the allocator | yes |
| session pool | `agent/hosted/executor-session-pool.ts` | sessions, shutdown report | factories that reenter the pool | no |
| embedding store lock | `embedding/local-json-store-lock.ts`, `embedding/rag-store.ts` | a lock directory with owner, lease and temporary file | processes die, sleep, and move each other's directories | no |
| token manager, permit semaphore | `proxy/token-manager.ts`, `utils/permit-semaphore.ts` | cached tokens, producers, generations | a token fetched while its key is invalidated | no |
| circuit breaker | `utils/circuit-breaker.ts` | state, counters | operations end in another state than they began in | no |
| bundle admission | `server/shared/browser-module-bundler.ts` | lanes, flights, three semaphores | a deadline answers the caller while the work goes on | no |
| process owner | `server/production-shutdown-coordinator.ts` | server handle, shutdown, deadline | the server appears in the middle of its own shutdown | no |

The two that are modelled call neither each other nor the workflow runtime. What
makes them correct: an owner stays counted until it is clean and is cleaned in
the end (`OwnersBounded`, `CountsExact`, `ArtifactsOutliveRenders`,
`ClosedClean`, `CloseCleans`); a session reports only what it knows, gives up
what arrives late, and closes whatever the other side does (`ReleaseTruthful`,
`StoppedWithdrawn`, `KnownBindingReleased`, `SettledQuiet`, `AlwaysCloses`).

## 2. Modules

```
module                                 extended for TLC     extended for TLAPS
RunBackend <- RunControl               MCRunControl         RunControlProofs
              | INSTANCE RunLifecycle                       <- RunOwnershipProofs
                (abstract specification)                    <- RunLifecycleProofs
NodeOutcomes                           MCNodeOutcomes       NodeOutcomesProofs
EventMailbox <- EventWaits             MCEventWaits         EventWaitsProofs
Approvals                              MCApprovals          ApprovalsProofs
RenderPool                             MCRenderPool         RenderPoolProofs
ExecutorSession                        MCExecutorSession    ExecutorSessionProofs
```

In every module an action is the code between two awaits that another actor can
observe; a label of a program counter names the call that is about to be made.

### 2.1 Control of a run

**RunBackend** is the store of one run: `status`, `owner` (`run.workerId`),
`fresh` (the heartbeat is younger than the stalled threshold), `stalledClaim`,
`lock` and `lockLive`. One operator per atomic backend call. The memory backend
runs each call in one synchronous turn of the event loop, the redis backend in
one script; the actors interleave between calls, never inside one. Clocks are
abstracted to the comparisons the code makes with them.

**RunControl** adds the actors. An execution has a program counter that stops
at every `await` which another actor can observe, and remembers what the code
keeps in local variables: its fence (`ident`), its lock token, why its
controller was aborted, why it parks, whether the catch block rethrows, and
whether a heartbeat is between its two calls. The labels follow the code:

| labels | code |
|---|---|
| `retryCas`, `reconcile` | `retry` |
| `resume`, `restore`, `load` | `resume`, `resumeRun`, `executeAsync` |
| `acquire`, `admit`, `activate`, `dag` | `executeWorkflowRunControl` up to the graph |
| `completeRead`, `completeCas` | `completeRun` |
| `pauseRead`, `pauseCas`, `announce`, `unlock`, `recheck` | `pauseRun`, durable wait records, `releaseWaitingLock`, the re-read after it |
| `failRead`, `failCas`, `catch`, `finally` | `failRun`, the catch and finally blocks |
| `failExec` | `failRunExecution` of the isolated entry point |

A manager's labels follow `claimWorkflowRunControl` and `failClaim` the same
way. `controller` and `cancelling` are the two maps of the executor,
`tracked` is the manager's `activeExecutions`. `committer` and `stale` are
history variables: nothing reads them but the properties.

The graph is a single step (`DagSettles`) with every result the code branches
on: completed, failed, parked on waits, stuck behind a parked wait, paused on
request, thrown. An abort always ends in the catch block. Hooks that may throw
(`onComplete`, `onError`, persisting a wait) are a choice of the next label.

**RunLifecycle** is what a run promises its callers: a status and an owner, no
locks, no processes. A completed or cancelled run never changes; a failed one is
only reopened by a retry that becomes its owner, or put back when the retry is
withdrawn; only the present owner completes a run, from an execution that was
not superseded. `RunControl!ImplementsLifecycle` instantiates it with
`completion <- committer`.

Abstractions to keep in mind:

- One run. Runs share nothing but the concurrency limits of managers and
  workers, which are not modelled.
- `ResumeReconciled` stands for a reconciled approval or event and for the
  public `client.resume`: both resume under the worker id just read. It is
  enabled in every active status, which allows more resumes than the wait
  records would. `Reject` is the rejected approval, which fails the run by the
  same patch that records the decision.
- Whether `prepareResume` finds a checkpoint is a free choice for a pending or
  running run. An explicit `fromCheckpoint` is not modelled.
- A client has at most one cancellation in flight. When its update fails, every
  execution of that process that awaits it may receive the error
  (`UpdateRejects`); one that has already passed the await does not.
- The backend supports locks, ownership and stalled claims, as both built-in
  backends do. The fallbacks for third-party backends are not modelled.
- A crashed manager starts again with nothing in hand. A crashed client may go
  on as a new process of the same name.

### 2.2 Node states (NodeOutcomes)

The persisted node states of one flat graph of steps and waits (`node`), the
saved checkpoint, the wait records (`rec`) and the outcomes of waits. The actors
are the start of the run, one delivery per wait (`reconcileNodeOutcome` and the
resume it ends in) and a worker that recovers a stalled run. A client that
resumes the run whenever it likes is a step of `NudgedSpec`, which the proofs are
about (every behaviour of `Spec` is one of it). Two history variables tell what
a property must allow for: `restored`, a checkpoint was put back, and `raced`, an
execution got the lock with a copy that the persisted state has moved past
(`Follows`). An execution reads the run, takes the lock, works on its copy
(`executor/dag/index.ts`: interrupted and exhausted steps, ready nodes, admission
of a batch), publishes by key (`Patched`), saves checkpoints, parks, announces
its waits and, when nothing moved, decides whether the graph is stuck
(`workflow-run-control.ts:1100-1240`). A delivery claims the record, patches the
node, resumes, and looks again when the resume was refused (`CommittedResume`,
`event-wait-manager.ts:1040-1065`). `ClearWait` removes the records of a
cancelled run. The ownership protocol is that of RunControl reduced to two
owners, without sleeping processes.

Left out: composites (loops, branches, maps, sub-workflows), skipped nodes, pause
requests, failing steps, the concurrency limit of a batch. Waits are generic:
event, decision and delay are delivered the same way.

### 2.3 Events (EventMailbox, EventWaits)

EventMailbox has one operator per backend call: registering a wait, buffering an
event, claiming an event for a wait, leasing, restoring and finalizing a claim,
with the retention rules of `event-wait-retention.ts`. EventWaits adds the
actors of `event-wait-manager.ts`: calls of `publishEvent` and background
activities (`Keepers`: drains after parking, deadline timers, sweeps, retry
timers) in several processes, with crashes, calls that fail before or after
their effect (`MaxFaults`), and changes of the run's owner (`Churn`).

Abstractions: one event name; one common deadline; the statuses pending, running
and waiting are one status "active"; buffered and delivery-failed events are
"kept"; a list of claims is read once per sweep; a background activity runs in
any live process; the effect of a resume is that the run may go on. An event
published in the very millisecond of a deadline, a missing run, and backends
without event-wait support are left out.

### 2.4 Approvals

A run that loops over one approval wait (`Rounds`), the approval records of the
backend, and managers that decide, expire, apply and recover decisions
(`approval-manager.ts`, `reconcileApprovalDecision`), plus `retry` with
`reconcileApprovalDecisionClaimsBeforeRetry`. `Overtakes` lets recovery lease a
claim whose manager is still at work; it is off in the run, where a manager is
assumed to apply a decision within the recovery delay. No checkpoints here; approver
authorisation, response schemas and notifications are left out.

### 2.5 The other parts

**RenderPool**: requests, entries and owners of the pool, and the drain, stop
and release of each owner, with failures. An entry is named by the request that
made it, so an identity can be constructed again while the old owner is alive.
What a render computes is left out; it starts, ends or is cancelled.

**ExecutorSession**: one session with its allocation, monitor, attachment, owned
work, stop, release and settlement. The allocator is external: a call changes
its state at some moment and answers then, later, with an error, or never. The
times of a lease are abstracted to a timer that may fire whenever the session is
active.

## 3. Runs

The MC modules add the symmetry of interchangeable names; it is not used where a
liveness property is checked. Deadlock is not checked: a finished run, a closed
pool or a closed session rightly stops. State counts are distinct states.

### 3.1 Control of a run

These runs use `MCRunControl`. Bounds: `MaxRetries`, `MaxFaults` (deaths and failed calls
together), the number of execution ids, and one run.

| run | instance | shows |
|---|---|---|
| `exclusion` | 3 executions, 1 manager, 1 client that starts, resumes and rejects, 1 fault, renewals in time; 568 K states | `SoleExecution`, `NotDisowned` |
| `fencing` | 2 executions, 1 manager, 1 worker, 1 client that resumes and retries once, processes that sleep for any time; 722 K states | `TypeOK`, `FencedCompletion`, `LockRespectsHolder` |
| `lifecycle` | 2 executions, 1 manager, 1 client that resumes, rejects, cancels and retries once, 2 faults, renewals in time; 407 K states | `ImplementsLifecycle` |
| `recovery` | 3 executions, 2 managers, 1 client, 1 fault, fairness; 184 K states | `RunSettles`, `LockComesFree` |

Why the bounds are enough to be interesting: every hazard of section 1.4 needs
an execution, a second one that competes with it or takes over, and at most one
fault. Three execution ids allow a start, a recovery and a resume that overlap;
with two, a process that wakes up late meets its successor. Two managers race
for one claim in `recovery`; `lifecycle` has two faults because failing an
assignment of a run that a crash left behind takes two. Larger instances pass as
well but do not fit a routine run: `exclusion` with a cancelling client (3.2 M
states), `fencing` with `ImplementsLifecycle` and a cancelling client (3.1 M),
`recovery` with a cancelling client (574 K), with four executions, and with two
faults and one manager.

`Async` chooses what time may do. With `Async = FALSE` a live holder renews its
lease and a live owner its heartbeat, and a heartbeat grows old only when the
lock is gone (60 s against 30 s): the assumption under which the code promises
exclusion. With `Async = TRUE` leases and heartbeats may expire under a live
process. `SoleExecution` does not hold then, by design: the fence is what is
left, and `fencing` checks it in that setting.

**Fairness** (`LiveSpec`, run `recovery`). Weak fairness of: each step of a live
execution and its heartbeat write (promises settle, the event loop turns, and
the graph is assumed to settle: steps have timeouts); the settlement of a
cancellation update; each manager's next step (`scheduleNextPoll` reschedules in
a finally block, so a failed poll does not end the loop); expiry of a lease,
ageing of a heartbeat and expiry of a stalled claim, which are the passage of
time. No fairness for any call of a client, for process deaths, or for workflow
workers.

### 3.2 Node states, events, approvals

| run | instance | shows |
|---|---|---|
| `node_kept` | a checkpointed step, behind it two waits, behind the first wait a step; 2 crashes, cancellation; 1.47 M | `TypeOK`, `CausallyClosed`, `OneGraph`, `OutcomeKept` |
| `node_raced` | two waits side by side and a third behind the first; violated | `DeliveryNeverDestroyed` |
| `event_delivery` | 2 waits, 2 publishers, 2 processes, 1 crash, failure, cancellation; 1.81 M | `MailConserved`, `DeliveredOnce`, `MailInOrder` |
| `event_faults` | a timed wait, 2 publishers and room for one event, 1 call that fails before or after its effect, claims that age under their holder, owner changes, failure, 1 retry; 963 K | `TypeOK`, `MailConserved`, `OutcomeStable` |
| `event_progress` | a timed event wait and a delay, 1 publisher, 2 processes, 1 crash, fairness; 73 K | `EventLands`, `DeadlineApplies`, `DeliveredTruthfully` |
| `approval_rounds` | 2 rounds, 3 approvals, 2 managers, expiry, 1 crash, 1 retry; 985 K | `TypeOK`, `OwnDecision`, `RejectionStops`, `DecisionKept` |

The races need two actors and one crash or fault: two deliveries, or a delivery
and a recovery, or an event and a deadline. Two waits are the least for one
execution to park behind an outcome that has landed, two rounds the least for an
old decision to meet a new wait, two events the least for an order. The second
crash of `node_kept` uses up the attempts of a step. Each wait is begun once
(`MaxInstances = 1`): an execution that would begin it again stops there; with
two instances and one crash the properties hold as well (3.6 M states). Larger
instances that pass but do not fit a routine run: `event_faults` with
cancellation (2.8 M), `approval_rounds` with one round and overtaking
recovery (172 K, without `OwnDecision`).

### 3.3 The other parts

| run | instance | shows |
|---|---|---|
| `pool_owners` | 3 requests, 2 identities, 2 owners, 2 renders of which 1 per owner, 1 retirement, 2 failures, fairness; 130 K | `TypeOK`, `OwnersBounded`, `CountsExact`, `ArtifactsOutliveRenders`, `ClosedClean`, `CloseCleans` |
| `session_ends` | one session, fairness; 3 K | `TypeOK`, `ReleaseTruthful`, `StoppedWithdrawn`, `KnownBindingReleased`, `SettledQuiet`, `AlwaysCloses` |

The limits of the pool are below the number of requests, so that each is
reached, and an identity is used again while its old owner is being cleaned. The
session has no bound but itself.

### 3.4 Fairness of these runs

- `event_progress`: weak fairness of the steps of an activity or a publisher;
  strong fairness of the ageing of claims, of sweeps, and of deadline timers. The
  timers recur, but the model allows only `Keepers` activities at a time, so one
  of them is enabled again and again, not for good. Crashes are never fair.
- `pool_owners`: reactions run, `stop` and `releaseArtifacts` settle, and whoever
  closes the pool calls `close` again after a failure; failures are bounded.
  Renders need not end: after the grace period closing gives them up.
- `session_ends`: timers fire and the session's own reactions run. Nothing is
  assumed of the allocator, of the connection or of the owned work.

### 3.5 Mutants

Each property of a passing run has a seeded fault in the code it depends on, such
as a lock overwritten while held, a copy published whole instead of by key, an
event restored without its mark, a claim finalized without a look at the node,
an owner dropped when its cleanup starts, a release believed before it is
confirmed. TLC finds the property violated under it.

## 4. What was found

### 4.1 The violated run

`node_raced`: `executeAsync` reads the run (`workflow-executor.ts:701`) before
`executeWorkflowRunControl` asks for the lock (`workflow-run-control.ts:851`).
When two waits get their outcomes together, the resume of the second delivery
may read the run, be overtaken by the resume of the first, which begins,
announces and parks the wait behind it, and get the lock after an outcome was
delivered to that wait. In its copy the wait has not started, so it starts it,
and publishes it as running over the outcome. A comment at
`workflow-run-control.ts:1134-1137` names this loss and avoids it in one place:
"rewriting them from this re-execution's stale copy would overwrite a delivery or
approval decision that landed between the durable-record check below and this
write, leaving the run waiting on a node whose outcome was just destroyed."
`workflow/README.md:171` says "Distributed locking prevents duplicate execution".
The race was found by a failed proof: the inductive invariant for `OutcomeKept`
asked for a copy at least as new as the store at `acquire`, which nothing
provides. `raced` records exactly that, and `OutcomesKept` (section 5) proves
that outcomes are lost in no other way, whoever resumes the run.

### 4.2 Behaviours the models reach and no property forbids

Each of these follows from the actions of the modules; where a property would
contradict one, its statement says so (`restored`, `retries = 0`, a failed run).

- `resumeRun` puts the latest checkpoint back (`workflow-executor.ts:630`) before
  it has the lock, under the worker id it has just read, so it can roll back the
  state of a run at work and retire the record of the wait that the working
  execution is about to park on; that execution then takes the graph for stuck
  and fails the run. `docs/architecture/08-workflow-runtime.md:30` says "The
  backend lock prevents two executions from resuming it."
- The verdict that a graph is stuck is read after the lock was released and
  written with a comparison of the status only: a run that was woken and parked
  again in between is failed (`workflow-run-control.ts:1232`).
- A committed outcome is finalized because the run is running, while that
  execution, whose copy is older, is about to park behind it; the run stays parked
  until somebody resumes it (`event-wait-manager.ts:1057`).
- A process that dies between the admission of a wait and its parking leaves a
  wait that nobody can announce, and the run fails (`dag/index.ts:1842`).
- After a resume that was refused because the owner changed, the next attempt
  takes its own outcome for a stale wait and puts the event back
  (`event-wait-manager.ts:916`). It is delivered again if another wait asks for
  it. `workflow-run-control.ts:517` marks a rejected patch as uncertain "so callers
  never restore a durable event over a landed node"; this path restores it.
  `DeliveredOnce` is checked with `Churn = FALSE` only.
- Recovery leases a claim whose process is at work on it for longer than the
  recovery delay (`memory.ts:1740`). With two waits and two events the event can
  be delivered to both waits, or the node gets one and then the other.
  `DeliveredOnce` is checked with `Async = FALSE` only.
- The lease does not compare the age of the claim with the one the recovery
  listed: between the two calls another process may give the claim back and a
  third, or the same, claim the event again. The recovery then gives back a
  claim that is being delivered. It takes three processes and one death.
- After a patch that was rejected without being applied, a timer remembers the
  wait and the event. When recovery gave the claim back, the event was claimed for
  another wait and the wait completed with another event, the timer finds a
  completed node and finalizes the claim by the id of the event alone
  (`event-wait-manager.ts:1057`, `memory.ts:1805`): the
  event is lost. `event_faults` has one wait, so its `MailConserved` holds.
- A publisher is told "delivered" when the node of the claim it read has
  completed (`hasCommittedEventDelivery`), though since that read the claim may
  have been given back, by recovery or because the run failed, and the node
  completed with another event after a retry. The comment at
  `event-wait-manager.ts:556-560` names the consequence. `DeliveredTruthfully`
  is checked with one publisher only.
- A publisher can be told "run-terminal" for an event that was delivered, when the
  run completes with it before the publisher looks (`event-wait-manager.ts:579`).
- After a retry an old decision, whose second attempt follows a refused resume,
  is written onto the next round's wait (`workflow-run-control.ts:604`);
  `reconcileEventDelivery` has an `isApplicable` check there, decisions do not.

Hazards without a property, with the reason at each in `PROJECT.json`: a client
that resumes between `claimStalledRun` and the assignment, the one id of a
workflow worker for all its claims, a parked run without a record, and the second,
third and fourth of the list above.

## 5. Proofs

Every theorem is for any sets of processes, nodes, requests and so on, and any
bounds. An invariant below is inductive; TLC checked it on instances like those
of section 3 before it was proved.

**Run control** (`RunControlProofs`, `RunOwnershipProofs`, `RunLifecycleProofs`),
from `ControlAssumption`: the kinds of ids are disjoint, the bounds naturals.

- `TypeCorrect`: `Spec => []TypeOK`. One step per action; lemmas give the type
  of every record an action stores.
- `Exclusion`: `~Async` implies `Spec => []SoleExecution`. `SoleExecution` is
  not inductive: it says nothing about an execution on its way to the graph or
  about one that has left it with the lock in hand. `LockInv` says that an
  execution between `acquire` and `unlock` has a token, and that whoever has a
  token is alive and the live lock in the store is its own. `~Async` is used
  once, in the step `LockExpires`: only a dead holder's lease runs out.
- `Fencing`: `Spec => []FencedCompletion`, for both values of `Async`. The
  inductive invariant `FenceInv` has three more parts: an id nobody has used is
  unknown to the store and to every execution (`UnspentInv`); the id a manager
  is about to assign is unused and nobody else's (`ReservedInv`); an execution
  that is past its read of the run and was superseded since does not match its
  fence any more, or the run is over (`DisownedInv`). The argument is that every
  change of owner is to an id that is new or not an execution's, so an owner
  never comes back, except by the rollback of a retry, which also ends the run.
- `Refinement`: `Spec => ImplementsLifecycle`, that is, `Init` maps to an initial
  state of RunLifecycle and every step to one of its steps or to a stutter.
  Besides `FenceInv` (the completion of an execution that was not superseded is
  the owner's) it takes `LifeInv`: a run that exists has an owner, an execution
  under way a fence, a retry the owner before it.
- `LockKeeping`: `Spec => LockRespectsHolder`, for both values of `Async`, from
  `HeldInv`: whoever is about to release the lock of its execution knows the
  token, so a late release that no longer matches does nothing.
- `WorkUndisturbed`: `~Async` implies `Spec => NotDisowned`. `WorkInv` says that a
  run whose owner is at work is not pending and its heartbeat is young: no claim
  finds it stalled, no retry finds it failed.

**Node states** (`NodeOutcomesProofs`), for every graph, from `GraphAssumption`
(waits and steps are distinct, dependencies are nodes, the actors are distinct)
and for `NudgedSpec`, so with a client that resumes at any time.

- `NodeTypeCorrect`, `OneGraphAtATime`: the latter from `LockInv`, whoever is
  between `acquire` and `unlock` is the one the lock names.
- `StatesCausallyClosed` and `OutcomesKept`: until a checkpoint is put back or an
  execution gets the lock with an outdated copy. The invariant is `SoundInv`,
  which says of the copy of the execution that holds the lock what the state
  says of itself, and that the store has moved past that copy only by outcomes
  of waits that were parked: so publication by key, parking and completion write
  nothing older than what is there. `UndisturbedRun` states both for `Spec`.

**Approvals** (`ApprovalsProofs`), from `ApprovalsAssumption`.

- `ApprovalsTypeCorrect` and `ApprovalTakesEffect`: `Spec => []TypeOK` and
  `Spec => []DecisionKept`, with or without `Overtakes`, any number of crashes
  and retries. `DecisionKept` is about the moment a claim is given up; `ActInv`
  carries the reason from the step that found it (the wait is over, the run has
  ended, the approval is a rejection) to the step that gives the claim up, and
  says that none of these reasons is ever taken back.
- `EachRoundDecided` and `RejectedStays`: `~Overtakes` implies
  `Spec => []OwnDecision` and `Spec => []RejectionStops`. `RoundInv`, for a run
  nobody has retried: approvals are numbered like the rounds they are about,
  each decision has one manager that applies it (`HolderInv`), rounds before this
  one were approved and a run goes on only from a wait that is over (`LoopInv`),
  and a manager between its read and its resume is about this round (`ApplyInv`).
  `~Overtakes` is used once, in `Reserve`: a claim somebody attends to is not
  taken. Both properties are about `retries = 0` because they fail after a retry
  (section 4.2).

**Events** (`EventWaitsProofs`), from `MailboxAssumption`, `NoneAssumption` and
`WaitsAssumption` (the sets of actors are disjoint, publishers and processes
finite, the bounds naturals).

- `EventWaitsType`: `Spec => []TypeOK`, whatever `Async`, `Churn` and the bounds
  on faults and deaths are. `TypeInv` adds what the label of an actor says of the
  rest of its state (`TaskOK`), and that instances and publication orders are
  bounded by retries and publications (`CountInv`).
- `MailboxOrdered`: `Spec => []MailInOrder`, as generally. `MailInv` adds that
  publication orders are distinct and a claimed event is not in the mailbox; the
  work is in the positions at which `PutBack` inserts and `Without` removes.
- `EventsKept`, `EventsDeliveredOnce`, `OutcomesFinal`: `[]MailConserved`,
  `[]DeliveredOnce` and `OutcomeStable` follow from `Spec` under `Orderly`: no
  claim ages while its holder is at work, the owner of the run does not change,
  no call is rejected, and either no process dies or there are at most two. The
  run may fail, be retried, cancelled and completed, and deadlines pass, at any
  time. None of the four conditions can be dropped: for each TLC finds one of the
  three properties violated without it, by the behaviours in section 4.2.
  The properties say nothing of what an actor is about to do, so none of them is
  inductive. `OrderlyInv` says who has a claim in hand and nobody else has it
  (`SoleInv`); that its claim and record are there and its node is open or has
  completed with this very event (`HandInv`, `ClaimInv`); that an event is the
  output of one node and then not in the mailbox (`GotInv`); and that a claim
  nobody has in hand was left by a process that died, so that a recovery lists
  it when no other one is under way, and a wait it has listed is not opened
  again before it comes to it (`RecoverInv`). One lemma per action.
- `ReceiptsTruthful`: under `Orderly`, what a drain reports and a durable receipt
  records is the output of a node (`GotInv`).
- `AnswersTruthful`: `Spec => []DeliveredTruthfully` under `Orderly`, for one
  publication, or for any number of them when no process dies and the run fails
  neither by itself nor at a deadline. `Succ` says what an actor has behind it
  when its state changes. With one publication, whatever completed a node is this
  event (`AloneInv`). Without failures a claim a publisher has read is there until
  its event is the output of the node or the run is over (`CalmInv`).

**Render pool** (`RenderPoolProofs`), from `RenderPoolAssumption`:
`PoolTypeCorrect`, `ExactCounts`, `BoundedOwners`, `ArtifactsLast` and
`CloseIsFinal`, from one invariant: `EntryInv` (an entry that is under
construction or alive is registered under its identity, and nothing else is),
`OwnerInv` (the order drain, stop, release), `CountInv` (each counter is the
cardinality of the set it counts, through the cardinality theorems of the
library) and `CloseInv` (what `close` waits for). Steps are first reduced to the
few kinds of change they make (`Kind`).

**Executor session** (`ExecutorSessionProofs`), from `SessionAssumption` (`None` is
no report): `SessionTypeCorrect`, `ReleaseReported`, `NothingKeptOpen`,
`BindingGivenBack` and `QuietWhenSettled`, from `SessionInv`: cleanup begins with
the stop (`StopInv`), the channel comes after the connection (`AttachInv`), what
the session takes for released is released (`RemoteInv`), and cleanup that is over
has seen every task end (`CleanupInv`).

Only model-checked:

- The liveness properties `RunSettles`, `LockComesFree`, `EventLands`,
  `DeadlineApplies`, `CloseCleans` and `AlwaysCloses`: reasoning under fairness
  needs `ENABLED`, which is out of this prover's reach.
- `MailConserved` and `OutcomeStable` with ageing claims, owner changes and a
  failing call, for one wait (`event_faults`). They fail for two (section 4.2), so
  a proof would be about one wait only.

## 6. Plan

Proofs: every safety property of a passing run has its theorem. What is left is to
widen `Orderly`: calls that fail before their effect only, which need no timer, and
owner changes that a delivery notices before its patch.

Models, where there is room: the session pool over ExecutorSession, the store
lock, the token manager on the permit semaphore, bundle admission, the circuit
breaker and the process owner (1.5), in this order. No module is planned for step
retries: an attempt, its backoff and its timeout are local to one execution, and
NodeOutcomes keeps the attempt count, which is all that is persisted.

## 7. Not modelled

In the workflow runtime: the fallbacks for backends without conditional updates,
`stop()` and concurrency limits of managers and workers, explicit checkpoint
resumes, child runs, composites of the DSL, the inside of a step, retention, the
queue, observers, redis scripts, blobs, serialization, HTTP and UI.

Outside it: what maps a request or a file to an output (routing, rendering,
transforms, build, MCP and OAuth clients, integrations, CLI), generated data and
contracts, configuration loading and code analysis, and wrappers around external
services. These are by far most of the repository's lines: they keep no state
that two actors share, so there is nothing for interleavings to break, and their
correctness is in data formats that a model would only repeat. The agent
runtime's loop over models and tools, the cache tiers, the release asset builder
and the unmodelled parts of 1.5 do keep state and are candidates for further
modules.

## 8. Running

```
tlc -workers 2 -config Exclusion.cfg MCRunControl
tlc -workers 2 -config NodeKept.cfg MCNodeOutcomes
tlc -workers 2 -config NodeRaced.cfg MCNodeOutcomes
tlapm RunControlProofs.tla
tlapm RunOwnershipProofs.tla
tlapm RunLifecycleProofs.tla
tlapm NodeOutcomesProofs.tla
tlapm EventWaitsProofs.tla
tlapm ApprovalsProofs.tla
tlapm RenderPoolProofs.tla
tlapm ExecutorSessionProofs.tla
```
