# REDDO: models, checks and proofs

REDDO runs workflow DAGs and sagas without a central scheduler. A Go gateway
accepts a DAG, writes its rows to PostgreSQL and publishes the root tasks to
RabbitMQ; Java brokers and Node.js workers take tasks from one queue each,
execute them, evaluate the DAG themselves after every task and publish what is
ready next, or the compensations of what has to be undone. This directory holds
TLA+ modules of that engine, the TLC configurations that check them, and TLAPS
proofs. Paths below are relative to `src/`.

## 1. The system

| Component | State it keeps | Operations | Talks to |
|---|---|---|---|
| API gateway, submission (`gate/internal/handlers/workflow.go`, `gate/internal/mq/rabbit.go`) | none of its own; rows `workflow_instances`, `task_executions` | `SubmitWorkflow`: validate, one SQL transaction, publish roots, reply | PostgreSQL, RabbitMQ |
| API gateway, validation (`gate/internal/dag/kahn.go`) | in-degrees, queue, sorted list | `ValidateDAG` | called by submission |
| API gateway, migrations (`gate/internal/db/migrate.go`) | `schema_migrations` | `RunMigrations` at start, in up to two replicas | PostgreSQL |
| Broker (`broker/.../SagaOrchestrator.java`, `TaskListener.java`) | listener thread, Redisson lock per task execution | `processTask`, `completeTaskAndProgress`, `progressDAG`, `handleTaskFailure` | RabbitMQ (`java-tasks`), PostgreSQL, Redis |
| Business services (`broker/.../SagaBusinessService.java`) | orders, accounts | create/cancel order, charge/refund | PostgreSQL, one transaction per call |
| Worker (`worker/src/mq.ts`, `db.ts`, `chaos.ts`, `index.ts`) | one message, one SQL transaction, channel and pool | consumer callback, `completeTaskAndProgress`, `progressDAG`, `handleTaskFailure`; `bootstrap`, `shutdown` | RabbitMQ (`node-tasks`), PostgreSQL |
| Chaos cannon (`cannon/cmd/cannon/main.go`) | `Blaster`: status, timer, cancel function, counters | fire, stop, status, timer callback, `runBlast` | gateway |
| Probe (`probe/main.go`) | per client: the pods it tails and a bounded log channel | log and telemetry event streams | Kubernetes, RabbitMQ's management API |
| Dashboard (`probe/web/src/App.tsx`) | what was last polled or streamed, the address of the cannon | poll, fire, stop, two event streams | cannon and probe, through port forwards |
| Platform script (`scripts/manage_infra.js`) | none | start, stop, restart of infrastructure and applications | Kubernetes |
| Port forwards (`scripts/port_forward.js`) | one child per service | spawn, report exits, shut down | Kubernetes |

What is hard in it:

* **Interleaving.** `progressDAG` exists twice. The worker holds
  `SELECT ... FOR UPDATE` on the workflow row while it evaluates the DAG; the
  broker does not. The `@Transactional` methods of `SagaOrchestrator` are called
  through `this`, past the Spring proxy, so each of their repository calls
  commits alone and writes back an entity that was read earlier.
* **Publish before commit.** The worker publishes inside its transaction: a
  message can be executed before the row says RUNNING, or survive a rollback.
* **Redelivery.** Manual acks, connections that drop, pods that die, a lock that
  outlives its owner until the watchdog lease ends, Redis without persistence.
* **Failure of one step of several.** Every write and publish may throw; catch
  blocks then fail the task or the workflow.
* **Death in the middle.** Pods get SIGTERM while a callback runs, and the
  script scales services away under each other; at boot everybody waits for
  somebody else's service, schema or queue and dies if it is not there.
* **Late answers.** The dashboard's polls overlap and are never cancelled, its
  buttons obey what was shown last, and the probe's scans and tailers go on
  after their client has left.
* **Termination.** When is a workflow COMPLETED, when has a saga been undone:
  both are decided from rows that others are changing.

What makes each component correct: a task runs only when its dependencies have
run, a compensation only when there is something to undo, an outcome is reported
only when it is backed by what happened, work in progress is never lost, and
sagas end (engine); accepted DAGs are acyclic and acyclic ones are accepted
(validation); each patch takes effect once and in order before anybody serves
(migrations); at most one blast is sending and the status tells the truth
(cannon); no update of a balance is lost and a FAILED workflow has given the
money back (business services); whatever the boot order, a start ends with
everything serving (deployment); the panel ends up showing the truth and the log
of a pod reaches the page, once per line read (dashboard, probe).

## 2. Modules

| Module | Models | State and actions |
|---|---|---|
| `SagaStore` | rows, queues, row locks and the rules both executors apply to the rows | `wf`, `st` are the status columns; `queue` the two work queues; `txLocks` the row locks of worker transactions; `DepsMet`, `AllSettled`, `CompensationsActive`, `Compensable` are the loops of `progressDAG` and `handleTaskFailure`. `runs`, `faulted`, `faults` are history |
| `Gate` | `SubmitWorkflow` after validation | `GateSubmit` is the committed transaction, `GatePublish` one publish, `GateCrash` death after COMMIT |
| `Broker` | one listener thread per replica | one action per repository, Redis and publish call, named after the method (`BrokerLock`, `BrokerCheck`, `BrokerMarkRunning`, `BrokerExecute`, `BrokerComplete`, `BrokerReadWorkflow`, ...); `jwf`, `jtodo`, `jcur` are the Java objects that go stale |
| `Worker` | one consumer callback per pod | one action per statement that waits for a lock, per publish and per COMMIT; `nrows`, `nwf` are the uncommitted writes |
| `WorkerPod` | the worker's process around the callback | `link` is the state of channel and pool; `PodSignal` SIGTERM, `PodEndPool` the end of the pool, `PodGoesOn` what the callback still gets done, `PodThrow` the first throw, `PodGone` the end of the process |
| `Reddo` | the composition, its properties and its fairness | `Next` interleaves gateway, brokers and pods |
| `Ledger` | `SagaBusinessService`: the account and the order behind the Java bodies | `LedgerRead` is `findById`, whose result goes stale; `LedgerCommit` joins the write to the step of `Reddo` that ends the body. `PaymentsOrdered` with `LedgerInv` and `BooksBalance` with `OrderInv` are what the proofs need |
| `DagRun` | what the submitter may rely on | abstract specification; `Reddo!Promise` is the refinement mapping |
| `ReddoInvariant` | the inductive invariant `IInv` | conjuncts `InvRuns`, `InvRows`, `InvQueues`, `InvBroker`, `InvWorker`, `InvOutcome` |
| `ReddoDelivery` | the conditions under which no work is lost or done twice, and the invariants that hold under them | `LoseNothing` with `CoverInv`, `TakeTurns` with `TurnsInv` and `FaultsTold`, `SagaInLine` with `UndoInv`, `Finishes` with `SettleInv`, `AllHomed`, `FirstInv` |
| `ReddoSafetyProofs`, `ReddoRefinement`, `ReddoDeliveryProofs`, `LedgerProofs`, `KahnProofs`, `ClusterProofs`, `BlasterProofs`, `LogStreamProofs` | proofs | see section 5 |
| `Kahn` | `ValidateDAG` | `Prepare` is steps 1 and 2, `Dequeue` one turn of step 3, `Decide` step 4; Go's map order is left free |
| `Migrations` | `RunMigrations` in several replicas | one action per statement; PostgreSQL's waits as guards |
| `Blaster` | fire, stop, timer and worker pool of the cannon | a blast is named by its request; workers are counted |
| `Cluster` | `manage_infra.js` and the boots of gateway, broker and worker; extends `Migrations` | `script` are the kubectl calls still to make; `pods`, `doomed`, `up`, `want` what Kubernetes has; `conn` each pod's RabbitMQ connection; `declared` the topology |
| `PortForward` | `port_forward.js` | a forward exits, all are shut down, the script is run again |
| `Console` | the chaos console of `App.tsx`; extends `Blaster` and `PortForward` | `polls` and `firing` count requests in flight; `shown`, `cannonOk` what the panel says |
| `LogStream` | `handleLogsStream`, `tailPodLogs` and the page's log terminal; extends `PortForward` | per connection: `handler`, `ticking`, `scan`, `tailingPods`, `tailer`, `logChan` |
| `MCReddo`, `MCLedger`, `MCOrderSaga`, `MCKahn`, `MCCluster`, `MCConsole` | instances for TLC | DAGs reduced from `insomnia/`, the cannon's templates and `kahn_test.go`; the script's command lines; blasts now and later |

`Ledger` extends `Reddo` by conjunction: every step of the engine happens as in
`Reddo`, and its variables are those of `Reddo` with three more. `Console` and
`Cluster` contain `Blaster` and `Migrations` in the same way, and sections 3 and 5
check and prove the contained component's properties in the composition.

One workflow instance is modelled. Two instances share queues and executors but
no row, so they interact by delay only, except through account balances
(section 6).
Definitions whose name ends in `Lax`, `None`, `Silent`, `Once` and the like stand
before the definition they vary: they are the plausible bugs each property is
tested against.

Data is abstracted to what control depends on: `input_data` is `key` (which
business function), `refusable` (the tables may turn it down) and `chaos`; ids,
outputs, messages and timestamps are left out. `runs` counts executions of a body
up to 2 ("more than once").

## 3. Runs

| Run | Instance | What it shows |
|---|---|---|
| `engine_faults` | diamond over both languages, two brokers, one worker, one fault of kinds gate/crash/error/redeliver/publish | types, dependency order, COMPLETED only when everything was attempted, exclusion by the Redisson lock, refinement of `DagRun` |
| `saga_faults` | an order that may be refused and is cancelled when the reservation fails, with its ledger; two brokers, one worker, two faults of all kinds, SIGTERM and Redis restarts included | `IInv`; in particular nothing is cancelled that was not made |
| `order_saga` | charge (Java), pick, pack and label in parallel, ship (Node.js, fails), compensations of both executors; two brokers, two workers, the account, one redelivery | the worker's row lock makes the join start once; nothing runs twice, no started task and no update of the balance is lost, COMPLETED never restarts, no silent stop, FAILED only when all is undone and the money is back, and it is undone eventually |
| `node_faults` | two workers, a pod-killing task, an unknown worker type, a timeout, one crash or SIGTERM | rollbacks, the catch-all failure handler, deadlock victims and a channel closed under the callback never start an unjustified compensation and never forget a task nobody has executed |
| `kahn` | all DAGs of at most 3 tasks, lists of at most 2 entries, a key that is no task | accepted = listed in topological order; called cyclic = has a cycle |
| `cluster` | the manifests applied, one command line of five at any moment, one trouble, one crash while migrating, two patches | each patch once and in order and nobody serves early, although old and new gateways overlap; a cold start and a restart end with everything serving, a stop with nothing left |
| `console` | two clicks on Fire, now or later, cancels anywhere, two polls in flight, one outage of the forward, one edit of the address | one live blast, truthful status, every run ends, the panel converges |
| `log_stream` | one pod, two lines, two connections, a channel of one line, two streams that end or scans that fail | one tail per pod and client, tailers leave, the page catches up |
| `join_runs_twice`, `orphan_lock`, `outcome_flips`, `compensating_forever` | small instances | the code does not do what it says: see section 6 |

**Bounds.** `Consumers` and `Nodes` have at most two members because `hpa.yaml`
gives every deployment at most two replicas, and two are what a race needs.
`MaxFaults` bounds faults of all kinds together: one fault against a full
interleaving, or two against a smaller DAG, so that a fault can meet the
consequences of another (a crash, then the orphaned lock of the redelivery).
`MaxCrashes` is the same for migrations; failures that follow from a race are
not bounded. In `cluster` one command meets the first start at every point of it,
so boots, terminations and scaling overlap in every order; restart is itself six
calls. In `console` two requests make one of them stale when the other arrives
(the proofs cover any number), and two polls in flight are what it takes to
overtake. In `log_stream` the channel's 500 lines are one, so that it is full, and
the 50 of a new tail are one, so that a line can be missed; two connections are
one that leaves and one that follows. `Unread` is any number no balance reaches.
The DAGs have a
chain, a fork, a join, parallel failures, one and two compensations, which are
all the cases `progressDAG` and `handleTaskFailure` distinguish; Kahn's three
tasks include self-loops, two- and three-cycles, doubled edges and tasks
downstream of a cycle.

Every engine run sets `CHECK_DEADLOCK FALSE` because a workflow that has ended
stops (as do `Kahn`, and `Cluster` when all commands are given); `log_stream` sets
it because nobody has to restart a dead forward. That the engine does not stop
earlier is the property `NoStall`. `console` is checked for deadlock.

**Fairness.** `FairSpec` gives weak fairness to each process's own steps: a
goroutine, a listener thread and the Node.js event loop keep running, RabbitMQ
delivers what is queued to an idle consumer, and a Redis lease runs out.
`LockExpire` is part of it because the watchdog stops with its owner. Faults are
never owed. `LedgerFairSpec` assumes less, that somebody of the engine goes on;
it is enough because every step of a saga without endless faults leads to its
end. In `Cluster` the script goes on, Kubernetes starts and ends pods and restarts
containers (`GateStep` includes `Restart`), and each process takes its boot steps;
commands and troubles are not owed. In `Console` the 5 s client timeout ends every
request, timers fire, the interval ticks and requests arrive or fail; nobody has
to click. In `LogStream` goroutines run, the ticker ticks and the browser
reconnects; no pod has to write and no stream to end. The one strong fairness is
`StopTicking`: Go's select chooses uniformly among the cases that are ready, so a
ticker goroutine whose `done` stays closed takes that branch although ticks keep
coming.

## 4. The engine's invariant

`DependencyOrder` and `CompensationJustified` speak of bodies that have run, and a
body runs because a message said so. They are inductive only together with the
claim that wherever a message is (in a queue, in an executor's hands, on the list
of a process about to publish it) its task may run, `Good`; that rests on rows
that report nothing that has not happened, `InvRows`; and that on what a thread
between two statements has already done (`BrokerOK`, `WorkerOK`). The crucial
point is monotonicity: `HasRun`, `faulted` and `faults` only grow, so what was
allowed when a message was made is allowed when it is executed, however late.
Outcomes need the same for statuses read and not yet written (`Backed`).

## 5. Proofs

TLAPS checks every step; nothing is assumed but the named ASSUMEs of the modules,
which TLC evaluates on every instance. They leave the DAG (any task keys,
dependencies, cycles included, compensations and worker types), the numbers of
brokers, workers, replicas, blasts and faults and the kinds of faults open.

| Theorem | Module | Says |
|---|---|---|
| `TypeCorrect` | `ReddoSafetyProofs` | `TypeOK` holds throughout |
| `Invariance` | `ReddoSafetyProofs` | `IInv` does |
| `OrderKept`, `OnlyJustified`, `CompletedIsBacked` | `ReddoSafetyProofs` | so do `DependencyOrder`, `CompensationJustified`, `CompletedMeansAttempted` |
| `LocksExclude` | `ReddoSafetyProofs` | `LockExclusion`, if Redis never loses its keys |
| `Implements` | `ReddoRefinement` | Reddo implements `DagRun` |
| `WorkIsNotLost` | `ReddoDeliveryProofs` | `NoLostWork`, under `LoseNothing` |
| `NothingTwice`, `NothingStartsOver` | `ReddoDeliveryProofs` | `AtMostOnce` and `NoRegression`, under `TakeTurns` |
| `NothingMissing` | `ReddoDeliveryProofs` | `NoLostTask`, under `TakeTurns` while the gateway lives |
| `NothingStalls` | `ReddoDeliveryProofs` | `NoStall`, under `Finishes` |
| `FailedIsUndone` | `ReddoDeliveryProofs` | `FailedMeansUndone`, under `SagaInLine` |
| `JavaStaysJava` | `LedgerProofs` | `AllHomed`: no message for a task of the brokers gets to a pod |
| `FirstTasksRunOnce` | `LedgerProofs` | root tasks of the brokers run at most once, unless an executor dies, a query fails or Redis loses its keys |
| `LedgerDrivesEngine` | `LedgerProofs` | `Ledger` implements `Reddo` |
| `NoUpdateIsLost` | `LedgerProofs` | `AtMostOnce => NoLostUpdate`, under `PaymentsOrdered` |
| `NoPaymentIsLost` | `LedgerProofs` | `NoLostUpdate`, under `PaymentsOrdered` and `TakeTurns` |
| `BooksRestored` | `LedgerProofs` | `Restored`, under `BooksBalance` |
| `KahnSorts`, `KahnRefusesCycles` | `KahnProofs` | `SortedIsTopological`, `CyclicHasCycle` |
| `OneBlast`, `StatusIsTrue` | `BlasterProofs` | `OneLiveRun`, `StatusTruthful` |
| `ConsoleDrivesBlaster`, `OneBlastBehindConsole` | `BlasterProofs` | `Console` implements `Blaster`; so `OneLiveRun` holds behind the panel |
| `PatchesApplyOnce`, `ServeOnFullSchema` | `ClusterProofs` | `AppliedOnce`, `ServesMigrated` of `Migrations` |
| `ClusterTyped`, `ClusterAppliesOnce`, `ClusterServesMigrated` | `ClusterProofs` | `ClusterTypeOK`, and the same two in the deployment |
| `OneTailPerPod` | `LogStreamProofs` | `TailedOnce` |

*The engine.* `TypeOK` is inductive by itself. For `IInv`, `MonoStep` shows once
that every step only adds to what has happened (`Mono`), and `AllowedMono`,
`GoodMono` and `BackedMono` that what was justified stays so. `BrokerAlone` and
`WorkerAlone` show that an executor's step leaves the others' control state
alone, so those need monotonicity only (`BrokerMono`, `WorkerMono`). What is
left is one case per action: where a message is made (`TriggersGood` from the
rows that `progressDAG` read, `CompensationsGood` from those the failure handler
read) and where an outcome is (`SettledAttempted`).

*The lock.* `LockHeld` (a thread that executes or progresses a task holds its
lock) is inductive given `IInv`: `BrokerLock` wants a free lock, only the owner's
finally block or death gives one up, only an orphan expires. It needs
`FailurePoints => jsaga` and "an idle thread is in no failure handler" of `IInv`,
because after a failed `tryLock` the handler runs without the lock: that is why
`Executing` leaves it out.

*The refinement.* `QuietStep`, `EffectStep`, `FailStep` and `ReportStep` say which
changes of the rows make which step of `DagRun`; each action is then shown to be
of one of these sorts, its guard coming from `IInv`.

*Nothing is lost.* What a task needs is that its turn has come or will come,
`Covered`; `AllCovered` asks it of every task that any process has begun with,
because a row says RUNNING only after the fact. Two more facts keep it: whoever
finds the lock of a task taken may drop the message, since the holder is still
working on it (`HolderWorks`, `NoOrphans`); and whatever goes back to a queue or
on to one finds a queue that exists (`Routed`). Each hypothesis of `LoseNothing`
excludes a step that does lose work: the gateway's death after COMMIT, a publish
that fails after RUNNING was saved, the lock a dead broker leaves behind (finding
`orphan_lock`), a worker type nobody serves, whose message goes nowhere. SIGTERM,
failing queries, redelivery and lost Redis keys are all allowed, and pods may die
where no broker does.
`node_faults` and `order_saga` are instances.

*Nothing is done twice.* The invariant is `TurnsInv`, in four parts. `NodeInv` says
that there is one message for a task of the pods, in one place (`OneMessage`,
`NoTwins`); that one transaction publishes at a time, since it holds the workflow's
row (`OneTransaction`), so what another listed as PENDING cannot be listed again;
and what the row of a task says at every point of the callback (`RowsTell`,
`HandsTell`). The hard case is a message that overtakes the transaction it was
published in: the receiver finds PENDING, and its UPDATE waits for the publisher's
COMMIT, so that RUNNING is never written over COMPLETED. Compensations come from
`HandledOnce`: if one of them has been touched then the one task that can fail has
been handled, and will not be again.

A broker's message may exist twice, so there the lock and the status check have to
do it, and `BrokersTell` says what the row reports at every point of the thread: a
broker that hears of a task finds it RUNNING or COMPLETED, or committed so by the
publisher whose lock its UPDATE waits for. What the brokers lack is the workflow's
row lock, so `NodeInv` survives only if no broker lists a task while a pod may.
`Turns` says it: either it is the turn of one leading Java task, with no other task
begun, no pod at work and one thread at most past the check (`Opening`); or all
leading tasks are behind and no thread publishes any more, because the Java tasks
that are left are compensations, after which nothing is `Ready` (`Opened`).
`Opening` and `Opened` need each other at the hand-over, and both need `InOrder`,
the closure of what has begun under dependencies.

`TakeTurns` asks for that: the Java tasks that can be reached at all come first, one
after the other, and cannot fail; what brokers undo can be undone, and by then
nothing else is left to start; one task at most can fail if anything is to be
undone. The hypotheses are needed: with a broker in a join the join starts twice
(finding `join_runs_twice`); after a crash, a failed query or a closed channel the
body runs again by design; two failing tasks both start the same compensation
(`db.ts:283`); a Redis restart takes the brokers' locks, and is allowed where pods
have the DAG to themselves. `PackedOrder` of `order_saga` takes turns, and so does
every DAG of Node.js tasks in which one can fail and each task has a compensation
of its own.

For `NoLostTask` a RUNNING row must have a message, a publisher or an executor.
`CoverInv` leaves a way out, that the task was executed or given up, and here it is
closed: a body that ran has its row COMPLETED or its outcome still to be written
(`NodeInv`), and whoever gives a task up lets its row say so (`FaultsTold`). A
gateway that dies before its last publish breaks it.

*FAILED means undone.* The workflow becomes FAILED in two places: the failure handler
that finds nothing to undo, and the last compensation's `progressDAG`. For the
second, no compensation is PENDING or RUNNING, none can have failed
(`OnlyThoseFail`), so all are COMPLETED. For the first, `DoneBefore` shows that
whatever can be undone is COMPLETED when a task fails that depends on it: the
tasks COMPLETED so far are closed under dependencies (`InOrder`), so they contain
whatever `Precedes` the failing one. The hypothesis is needed: a parallel branch
that completes after the handler has read the rows is never undone, since
the handler reads them once (`db.ts:283`). A broker makes the workflow FAILED only
in `progressDAG`, after the compensation it has executed, and what it read may be
old; but a compensation's status does not change back, so `UndoInv` keeps what the
thread is about to write with what it rests on.

*The end is seen.* `SettleInv` has one part for each status of an open workflow. While
it is RUNNING (`Attended`) everything that is ready is `Announced`: an executor that
has settled a row has yet to read them all, or has read and will publish, or has
published and will commit. A commit makes nothing ready, because it turns rows to
RUNNING; only a COMPLETED does, and whoever writes it goes on to read. While it is
COMPENSATING (`Undoing`) no compensation is PENDING: the failure handler listed them
all, because all that can be undone precedes what can fail (`AllCalled`, by the
argument above), and turned the workflow and the rows over in one commit. In both
cases whoever settles the last row is to see it (`Closing`). What a broker has read of
the workflow may be old, so `Closing` counts it only if it agrees with the row as to
COMPENSATING, and it is never ahead of the row (`Reading`).

So when all is quiet `NoLostTask` leaves no row RUNNING, a COMPENSATING workflow would
have one that is, and of the visible tasks PENDING in a RUNNING one a first would be
ready: that ValidateDAG refuses cycles (`KahnRefusesCycles`) is a hypothesis of
`Finishes`. Tasks that fail, hang or kill their pod are allowed, sentinels too, but
where tasks wait for a failure one of the others is to fail: without a failure they
stay PENDING and the workflow stays open, and a task that fails itself leaves its own
compensation PENDING (finding `compensating_forever`). Acyclic DAGs of Node.js tasks
without sentinels satisfy it, and so does `PackedOrder`: TLC evaluates `Finishes` and
`BooksBalance` for it in `order_saga`.

*The account.* A message for a task of the brokers reaches no pod: each publisher
routes by the worker of the task or, for a compensation, by that of the task it
undoes or its own, and a task in `JavaTasks` is Java in all three. A thread holds
the lock of its task from `tryLock` to its finally block (`LockedThroughout`), so
nobody else writes the row of a first task and the status check cannot go stale
(`FirstInv`). `NoUpdateIsLost` needs no lock: what a payment has read is still the
balance when it writes (`ReadIsFresh`), because of two payments one is a dependency
of the other, or its compensation, and so has run before the other begins
(`PaymentsApart`, from `IInv`). `PaymentsOrdered` is what the DAG must say for
that; the orders of `order_saga` and `saga_faults` do. `AtMostOnce` is a premise
inside the box because two executions of one payment that overlap do lose an
update, and TLC finds it when the lock is taken out. `NothingTwice` discharges it
where brokers and pods take turns (`NoPaymentIsLost`).

*The books.* `Restored` joins all of the above. `BooksBalance` asks that every charge
has a refund of its own and every order a cancellation, that no refund is without a
charge, and that the saga is in line. When FAILED is reported all is undone, so the
refunds that ran are, one for one, those of the charges that ran (`ChargesRefunded`
gives the bijection; a refund needs its charge by `IInv`, and both ran once); the
balance shows every payment once; and an order still PENDING would be one whose
cancellation has not run (`OrderInv`), which there is not. `MCOrderSaga` has TLC
evaluate `BooksBalance` for the saga of `order_saga`. That saga has payments and no
order row, so what `Restored` says of orders rests on the proof. It does fail
outside its hypotheses: in the instance of `saga_faults` a query that fails in
`progressDAG` makes the broker report FAILED with nothing undone
(`SagaOrchestrator.java:361`), and the order stays PENDING.

*Validation.* The in-degree of a task is the number of its edges from tasks not
yet dequeued, and the sorted list followed by the queue names each task at most
once. So a task is listed after all it depends on, a full list is a bijection, and
the tasks missing from a short one all wait for each other.

*The others.* `BlasterIInv` adds that a blast which does not run yet is not
cancelled and that while one is scheduled there is nothing to cancel, which is
what saves `OneLiveRun` when two stale timers fire. `MigrationsIInv` adds that
two replicas are never inside the same patch and that one whose row insert
succeeded is the first to insert it.

*The deployment.* `ClusterInductive` shows that `MigrationsIInv` survives the
steps `Migrations` does not have: a pod terminated at any point of a patch
(`GoneKeeps`), a database that goes away under it (`FailKeeps`), and everything
that leaves the migration's variables alone. `Cluster` is not a refinement of
`Migrations`, since terminations are not bounded by `MaxCrashes`; the invariant is
what they share.

*The panel.* Every step of `Console` is one of `Blaster` or leaves its variables
alone, so `OneBlast` carries over.

*The log stream.* `TailedOnce` needs that a live tailer's pod is in `tailingPods`
and that of the two tailers of a pod one lives at most; both are kept together,
because returning forgets the pod.

Only model-checked: everything under fairness (`EventuallyUndone`, `ComesUp`,
`StopsAll`, `RunsEnd`, `PanelConverges`, `TailersLeave`, `PageCatchesUp`), because
TLAPS does not reason about ENABLED; and every safety property outside the hypotheses
of its theorem, such as a DAG in which two Java branches run in parallel.
No module uses RECURSIVE operators, so that every one of them can be proved about.

## 6. Where code and words differ

Found by a run (the trace is TLC's):

* **`join_runs_twice`**: a Java and a Node.js branch finish together, both find
  the join ready, both publish it; the second delivery can overwrite COMPLETED
  with RUNNING (`SagaOrchestrator.java:244` reads without the lock that
  `db.ts:114` takes). `README.md:164` promises idempotency.
* **`orphan_lock`**: after a crash the redelivered message meets the dead
  broker's lock, gives up after 5 s and is acknowledged; its task stays RUNNING
  (`TaskListener.java:26`).
* **`outcome_flips`**: a workflow reported FAILED becomes COMPLETED when its other
  branch ends (`SagaOrchestrator.java:354`).
* **`compensating_forever`**: the compensation of a step that never completed stays
  PENDING and keeps the saga COMPENSATING (`SagaOrchestrator.java:279`).

Seen while modelling, without a run of their own:

* The same join can leave the workflow RUNNING for ever with empty queues: both
  evaluations see the other's row RUNNING.
* `README.md:166` promises reverse topological order of compensations; both
  failure handlers publish all of them at once.
* `README.md:175` promises no infinite requeue loops; FATAL_CRASH exits before the
  ack (`chaos.ts:28`) and the message kills one pod after another.
* The broker routes a compensation by the worker of the task it undoes
  (`SagaOrchestrator.java:218`), the worker by the compensation's own.
* `completeTaskAndProgress` "Runs in a standard transaction block"
  (`SagaOrchestrator.java:150`), but a crash between its halves strands a ready
  successor.
* A compensation hidden behind `__SAGA_FAIL__` stays PENDING when nothing fails
  and keeps the workflow RUNNING (`SagaOrchestrator.java:314`).
* Two failure handlers one after the other each start the same compensation
  (`db.ts:283`); a task that took effect and is marked FAILED because
  `progressDAG` failed is never compensated (`db.ts:88`); a crash between the
  business commit and COMPLETED runs the body again.
* `kahn.go:71` reports "which tasks are part of the cycle" but lists the tasks
  downstream of it too; the "Saga Compensation" sample of `insomnia/` is refused
  as an orphan, because its sentinel is no task.
* Balances are read, changed and written back without a version
  (`SagaBusinessService.java:66`): two workflows on one account, or two payments in
  parallel branches, lose an update. `NoLostUpdate` holds of one payment at a time,
  because the lock, the status check and the DAG keep executions apart.
* SIGTERM closes the channel under a running callback (`mq.ts:174`). The message
  goes to another pod, which may execute the task a second time; the first pod's
  ack throws, so that its COMPLETED task is marked FAILED and its saga is
  compensated; and a task that this rollback leaves RUNNING after it was executed
  has no message any more. `index.ts:24` calls it graceful.
* `rabbit.go:62` says "If RabbitMQ is reset or starts fresh, this ensures the
  required topology is restored." It runs once, when the gateway boots. After a
  reset under a running gateway the queues are missing, a broker that reconnects
  stops listening while its TCP probes succeed, and the gateway's `/health` stays
  UP with a dead connection; only restarting the gateway and then the broker heals
  it (`ComesUp` asks it of `restart`).
* `manage_infra.js`: `run` (line 50) swallows a failed kubectl call, and lines 95 to
  113 print success anyway; "Always stop app first so it doesn't error trying to
  reach infra" (line 170) holds only if the pods have gone within 3 s; restart
  ignores the group; line 189 announces a restart of HPAs and restarts every
  application pod; `README.md:95` says it waits 5 s, it waits 8.
* The end of a cancelled run shows IDLE while its successor runs, so the panel
  disables its Cancel button (`App.tsx:402`) while requests are being sent.
* `tailPodLogs` (`probe/main.go:318`) does not look at the HTTP status: an error of
  the API server is shown as log lines. A tail that starts again repeats the last
  50 lines. A pod of no known prefix is labelled "infra", which the page's infra
  filter (`App.tsx:282`) does not show. A forward that exits is never started
  again.
* The end of a superseded run writes IDLE over the status of its successor
  (`cannon/cmd/cannon/main.go:335`): a scheduled blast is then dropped silently. A
  timer that had already fired may start the next schedule early. Workers of a
  cancelled run add to the counters of the new one.

## 7. Not modelled

* Several workflow instances on one account: see section 6, the lost update is
  evident in the code and nothing keeps it apart.
* Telemetry (`scrapeTelemetry` and the charts of `App.tsx`): stateless reads once a
  second for each client, drawn and never read back. The headline it computes
  uses the status of the panel, which `Console` has.
* The counters of the cannon, its payloads and its seeded shuffle: written and
  shown only.
* Request parsing and field checks of the gateway, the form's checks in the
  dashboard; messages that no component of the system sends.
* Configuration, logging, manifests: environment variables, formatting and data.
* PostgreSQL, RabbitMQ, Redis, Kubernetes and the browser themselves: modelled by
  how the code uses them (READ COMMITTED with row locks, queues with manual acks
  and prefetch 1, locks with a lease, replica counts and restarts).

## 8. Plan

Done:

1. `SagaStore`, `Gate`, `Broker`, `Worker`, `Reddo`, abstract `DagRun`; `IInv` and
   its consequences, `LockExclusion` and the refinement proved.
2. `Kahn`, `Migrations`, `Blaster`, all three proved.
3. `WorkerPod` (SIGTERM, boot), `Ledger`, `Cluster`, `PortForward`, `Console`,
   `LogStream`; the safety of `Cluster`, `Console` and `LogStream` proved.
4. The conditions under which nothing is lost, done twice, started over or left
   open, a FAILED saga is undone, and the account, proved.
5. The same for brokers and pods in one DAG that take turns; the balance without a
   premise, and the books of a FAILED saga, proved. Every safety property that a
   passing run checks is now also a theorem, and `NoLostTask` and `NoStall` are proved
   for the DAGs that both executors share.

Open, the most valuable first:

1. Two workflow instances over one account in `Ledger`.
2. Java tasks that can fail, within `TakeTurns`: the list of what to undo that a
   broker's failure handler has read would have to enter the invariant.
