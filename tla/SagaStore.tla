------------------------------ MODULE SagaStore ------------------------------
(***************************************************************************)
(* What the services of REDDO share while one workflow instance executes:  *)
(* its row in workflow_instances, its rows in task_executions (PostgreSQL) *)
(* and the two RabbitMQ work queues.  The module also holds the rules that *)
(* broker (Java) and worker (Node.js) both apply to the task rows, because *)
(* progressDAG and handleTaskFailure exist once in each language.          *)
(*                                                                         *)
(* runs records the business data the tasks leave behind (a task whose     *)
(* body never ran left none); faulted and faults are history variables.    *)
(***************************************************************************)
EXTENDS Naturals, Sequences, FiniteSets

CONSTANTS
  Dag,         \* dag.tasks: task key -> TaskDefinition
  SagaFail,    \* the task key "__SAGA_FAIL__"
  NoTask,      \* "this task names no compensation"
  Nodes,       \* Node.js worker pods, the owners of SQL transactions
  FaultKinds,  \* faults that may happen: see Fault
  MaxFaults    \* bound on their number

Tasks    == DOMAIN Dag
Deps(t)  == Dag[t].dependencies
Comp(t)  == Dag[t].compensation

Queues   == {"java", "node"}
Status   == {"NONE", "PENDING", "RUNNING", "COMPLETED", "FAILED"}
WfStatus == {"NONE", "RUNNING", "COMPLETED", "COMPENSATING", "FAILED"}
WfRow    == "workflow_instances"
Rows     == Tasks \cup {WfRow}

\* input_data of a definition, as far as the executors look at it: refusable
\* inputs may be turned down by the business service (unknown account,
\* insufficient funds, missing field); chaos is the fault instruction.
TaskDefinition ==
  [worker       : Queues \cup {"other"},
   dependencies : SUBSET Tasks,
   compensation : Tasks \cup {NoTask},
   key          : {"create_order", "cancel_order", "charge_payment",
                   "refund_payment", "unknown"},
   chaos        : {"none", "fail", "hang", "crash"},
   refusable    : BOOLEAN]

\* A compensation that names no task of the DAG has no row: both services
\* log it and go on, as if there were none.

\* The payload on a queue: which task runs, whose input_data it gets, and
\* the queue its publisher routes it to ("other": no such worker type).
Message == [task : Tasks, input : Tasks, queue : Queues \cup {"other"}]

ASSUME DagAssumption ==
  /\ Dag \in [Tasks -> TaskDefinition]
  /\ NoTask \notin Tasks
  /\ WfRow \notin Tasks

ASSUME FaultAssumption ==
  /\ FaultKinds \subseteq
       {"gate", "crash", "close", "error", "publish", "redeliver", "redis"}
  /\ MaxFaults \in Nat

VARIABLES
  wf,       \* status of the workflow_instances row ("NONE": no such row yet)
  st,       \* task key -> status of its task_executions row
  queue,    \* queue -> messages not delivered, oldest first
  txLocks,  \* worker pod -> rows its open SQL transaction has locked
  runs,     \* task key -> successful executions of its body: 0, 1 or 2 (many)
  faulted,  \* tasks for which some executor entered its failure handler
  faults    \* faults injected so far

storeVars == <<wf, st, queue, txLocks, runs, faulted, faults>>

StoreInit ==
  /\ wf = "NONE"
  /\ st = [t \in Tasks |-> "NONE"]
  /\ queue = [q \in Queues |-> <<>>]
  /\ txLocks = [n \in Nodes |-> {}]
  /\ runs = [t \in Tasks |-> 0]
  /\ faulted = {}
  /\ faults = 0

StoreTypeOK ==
  /\ wf \in WfStatus
  /\ st \in [Tasks -> Status]
  /\ queue \in [Queues -> Seq(Message)]
  /\ txLocks \in [Nodes -> SUBSET Rows]
  /\ runs \in [Tasks -> 0 .. 2]
  /\ faulted \in SUBSET Tasks
  /\ faults \in Nat

-----------------------------------------------------------------------------
(* Rules over a snapshot s of the task rows. *)

Roots == {t \in Tasks : Deps(t) = {}}

\* A task guarded by the sentinel is never ready, whatever its other rows say.
DepsMetLax(t, s) == \A d \in Deps(t) : s[d] \in {"RUNNING", "COMPLETED"}
DepsMetUnguarded(t, s) == \A d \in Deps(t) : s[d] = "COMPLETED"
DepsMet(t, s) ==
  /\ SagaFail \notin Deps(t)
  /\ \A d \in Deps(t) : s[d] = "COMPLETED"

Ready(s) == {t \in Tasks : s[t] = "PENDING" /\ DepsMet(t, s)}

AllSettledLax(s) == \A t \in Tasks : s[t] # "RUNNING"
AllSettled(s) == \A t \in Tasks : s[t] \notin {"RUNNING", "PENDING"}

CompensationKeys == {Comp(t) : t \in Tasks} \ {NoTask}

CompensationsActiveLax(s) == \E k \in CompensationKeys : s[k] = "PENDING"
CompensationsActive(s) ==
  \E k \in CompensationKeys : s[k] \in {"RUNNING", "PENDING"}

CompensableLax(s) == {t \in Tasks : s[t] # "FAILED" /\ Comp(t) # NoTask}
Compensable(s) == {t \in Tasks : s[t] = "COMPLETED" /\ Comp(t) # NoTask}

TaskMessage(t) == [task |-> t, input |-> t, queue |-> Dag[t].worker]
NoMessage == [task |-> NoTask, input |-> NoTask, queue |-> "other"]

Terminal(status) == status \in {"COMPLETED", "FAILED"}

-----------------------------------------------------------------------------
(* Operations on the queues and the rows. *)

Send(m) ==
  queue' = IF m.queue \in Queues
             THEN [queue EXCEPT ![m.queue] = Append(@, m)]
             ELSE queue

\* RabbitMQ puts a message whose delivery failed back at the head.
Requeue(m) == queue' = [queue EXCEPT ![m.queue] = <<m>> \o @]

LockedByOther(r, n) == \E k \in Nodes \ {n} : r \in txLocks[k]

\* An autocommitted UPDATE waits until no open transaction holds the row.
Unlocked(r) == \A n \in Nodes : r \notin txLocks[n]

UpdateTask(t, status) ==
  /\ Unlocked(t)
  /\ st' = [st EXCEPT ![t] = status]

Ran(t) == runs' = [runs EXCEPT ![t] = IF @ < 2 THEN @ + 1 ELSE @]

\* gate: the gateway dies.  crash: an executor dies.  close: a Node.js pod is
\* told to stop.  error: a database or
\* Redis call throws.  publish: RabbitMQ refuses a message.  redeliver: a
\* consumer's connection drops and its unacknowledged message is delivered
\* again.  redis: Redis loses its keys.
Fault(kind) ==
  /\ kind \in FaultKinds
  /\ faults < MaxFaults
  /\ faults' = faults + 1
=============================================================================
