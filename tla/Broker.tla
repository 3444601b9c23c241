------------------------------- MODULE Broker -------------------------------
(***************************************************************************)
(* The Java broker: one listener thread per replica takes a message from   *)
(* the java queue (prefetch 1, manual ack) and runs                        *)
(* SagaOrchestrator.processTask under a Redisson lock per task execution.  *)
(*                                                                         *)
(* The @Transactional methods of SagaOrchestrator are called through       *)
(* `this`, past the Spring proxy, so every repository call commits on its  *)
(* own and entities read earlier are merged back as they were read: one    *)
(* step per repository call, per publish and per Redis call.  The methods  *)
(* of SagaBusinessService do run in a transaction: one step each.          *)
(***************************************************************************)
EXTENDS SagaStore

CONSTANTS
  Consumers,   \* listener threads, one per broker replica
  Free,        \* no Redisson lock for this task execution
  Orphan       \* the lock of a dead replica, until the watchdog lease ends

ASSUME BrokerAssumption ==
  Free \notin Consumers /\ Orphan \notin Consumers /\ Free # Orphan

VARIABLES
  jpc,     \* consumer -> control point
  jmsg,    \* consumer -> the message it processes
  jheld,   \* consumer -> its delivery can still be acknowledged
  jsaga,   \* consumer -> it is inside handleTaskFailure
  jwf,     \* consumer -> status in the WorkflowInstance object it read
  jtodo,   \* consumer -> messages of the tasks it has yet to trigger
  jcur,    \* consumer -> message of the task it has marked RUNNING
  rlock    \* task -> holder of lock:task-exec:<id>

delivery   == <<jmsg, jheld>>
work       == <<jsaga, jwf, jtodo, jcur>>
brokerVars == <<jpc, delivery, work, rlock>>

ProcessPoints == {"lock", "check", "run", "exec", "complete", "readwf",
                  "readtasks"}
FailurePoints == {"fail", "failwf", "compensate"}
TriggerPoints == {"trigger", "publish", "savewf", "rescue"}
JavaPoints == {"idle", "finish"} \cup ProcessPoints \cup FailurePoints
                \cup TriggerPoints

BrokerInit ==
  /\ jpc = [c \in Consumers |-> "idle"]
  /\ jmsg = [c \in Consumers |-> NoMessage]
  /\ jheld = [c \in Consumers |-> FALSE]
  /\ jsaga = [c \in Consumers |-> FALSE]
  /\ jwf = [c \in Consumers |-> "NONE"]
  /\ jtodo = [c \in Consumers |-> {}]
  /\ jcur = [c \in Consumers |-> NoMessage]
  /\ rlock = [t \in Tasks |-> Free]

BrokerTypeOK ==
  /\ jpc \in [Consumers -> JavaPoints]
  /\ jmsg \in [Consumers -> Message \cup {NoMessage}]
  /\ \A c \in Consumers : jpc[c] # "idle" => jmsg[c] \in Message
  /\ jheld \in [Consumers -> BOOLEAN]
  /\ jsaga \in [Consumers -> BOOLEAN]
  /\ jwf \in [Consumers -> WfStatus]
  /\ jtodo \in [Consumers -> SUBSET Message]
  /\ jcur \in [Consumers -> Message \cup {NoMessage}]
  /\ rlock \in [Tasks -> Consumers \cup {Free, Orphan}]

-----------------------------------------------------------------------------
Own(c) == jmsg[c].task

Goto(c, point) == jpc' = [jpc EXCEPT ![c] = point]

\* save() of a detached entity.  Writing RUNNING over RUNNING changes nothing
\* and issues no UPDATE; the other statuses come with an output or a message.
SaveTask(t, status) ==
  /\ (status = "RUNNING" /\ st[t] = "RUNNING") \/ Unlocked(t)
  /\ st' = [st EXCEPT ![t] = status]

SaveWorkflow(status) ==
  /\ wf = status \/ Unlocked(WfRow)
  /\ wf' = status

OrderExists == \E t \in Tasks : Dag[t].key = "create_order" /\ runs[t] > 0

\* executeBusinessTask: what the input and the business tables allow.  Only
\* charge_payment looks at the fail flag; unknown keys are no-ops.
CanSucceed(m) ==
  CASE Dag[m.task].key = "cancel_order"   -> OrderExists
    [] Dag[m.task].key = "charge_payment" -> Dag[m.input].chaos # "fail"
    [] OTHER -> TRUE

CanBeRefused(m) ==
  CASE Dag[m.task].key = "cancel_order"   -> ~OrderExists
    [] Dag[m.task].key = "charge_payment" ->
         Dag[m.input].refusable \/ Dag[m.input].chaos = "fail"
    [] Dag[m.task].key = "unknown" -> FALSE
    [] OTHER -> Dag[m.input].refusable

\* handleTaskFailure sends a compensation to the worker of the ORIGINAL task.
CompensationMessage(o) ==
  [task |-> Comp(o), input |-> o, queue |-> Dag[o].worker]

-----------------------------------------------------------------------------
(* The message and the lock. *)

BrokerDeliver(c) ==
  /\ jpc[c] = "idle"
  /\ queue["java"] # <<>>
  /\ jmsg' = [jmsg EXCEPT ![c] = Head(queue["java"])]
  /\ queue' = [queue EXCEPT !["java"] = Tail(@)]
  /\ jheld' = [jheld EXCEPT ![c] = TRUE]
  /\ Goto(c, "lock")
  /\ UNCHANGED <<wf, st, txLocks, runs, faulted, faults, work, rlock>>

BrokerLockNone(c) ==
  /\ jpc[c] = "lock"
  /\ Goto(c, "check")
  /\ UNCHANGED <<storeVars, delivery, work, rlock>>
BrokerLock(c) ==
  /\ jpc[c] = "lock"
  /\ rlock[Own(c)] = Free
  /\ rlock' = [rlock EXCEPT ![Own(c)] = c]
  /\ Goto(c, "check")
  /\ UNCHANGED <<storeVars, delivery, work>>

\* tryLock gave up after 5 seconds: "duplicate message", acknowledged.
BrokerLockTimeout(c) ==
  /\ jpc[c] = "lock"
  /\ rlock[Own(c)] # Free
  /\ Goto(c, "finish")
  /\ UNCHANGED <<storeVars, delivery, work, rlock>>

BrokerCheckNone(c) ==
  /\ jpc[c] = "check"
  /\ Goto(c, "run")
  /\ UNCHANGED <<storeVars, delivery, work, rlock>>
BrokerCheck(c) ==
  /\ jpc[c] = "check"
  /\ Goto(c, IF Terminal(st[Own(c)]) THEN "finish" ELSE "run")
  /\ UNCHANGED <<storeVars, delivery, work, rlock>>

\* The thread forgets its message.
Reset(c) ==
  /\ jpc' = [jpc EXCEPT ![c] = "idle"]
  /\ jmsg' = [jmsg EXCEPT ![c] = NoMessage]
  /\ jheld' = [jheld EXCEPT ![c] = FALSE]
  /\ jsaga' = [jsaga EXCEPT ![c] = FALSE]
  /\ jwf' = [jwf EXCEPT ![c] = "NONE"]
  /\ jtodo' = [jtodo EXCEPT ![c] = {}]
  /\ jcur' = [jcur EXCEPT ![c] = NoMessage]

\* Its lock, if it holds one, passes to next.
PassLock(c, next) ==
  rlock' = [t \in Tasks |->
              IF t = Own(c) /\ rlock[t] = c THEN next ELSE rlock[t]]

\* finally: unlock if this thread is still the holder; then the listener acks
\* (or nacks without requeue).  The message is gone in both cases.
BrokerFinish(c) ==
  /\ jpc[c] = "finish"
  /\ PassLock(c, Free)
  /\ Reset(c)
  /\ UNCHANGED storeVars

-----------------------------------------------------------------------------
(* The task itself, and progressDAG. *)

BrokerMarkRunning(c) ==
  /\ jpc[c] = "run"
  /\ SaveTask(Own(c), "RUNNING")
  /\ Goto(c, "exec")
  /\ UNCHANGED <<wf, queue, txLocks, runs, faulted, faults, delivery, work,
                 rlock>>

BrokerExecute(c) ==
  /\ jpc[c] = "exec"
  /\ CanSucceed(jmsg[c])
  /\ Ran(Own(c))
  /\ Goto(c, "complete")
  /\ UNCHANGED <<wf, st, queue, txLocks, faulted, faults, delivery, work, rlock>>

\* catch (Exception e): enter handleTaskFailure.
EnterFailure(c) ==
  /\ Goto(c, "fail")
  /\ jsaga' = [jsaga EXCEPT ![c] = TRUE]
  /\ jtodo' = [jtodo EXCEPT ![c] = {}]
  /\ jcur' = [jcur EXCEPT ![c] = NoMessage]
  /\ faulted' = faulted \cup {Own(c)}

BrokerRefuse(c) ==
  /\ jpc[c] = "exec"
  /\ CanBeRefused(jmsg[c])
  /\ EnterFailure(c)
  /\ UNCHANGED <<wf, st, queue, txLocks, runs, faults, delivery, jwf, rlock>>

BrokerComplete(c) ==
  /\ jpc[c] = "complete"
  /\ SaveTask(Own(c), "COMPLETED")
  /\ Goto(c, "readwf")
  /\ UNCHANGED <<wf, queue, txLocks, runs, faulted, faults, delivery, work,
                 rlock>>

BrokerReadWorkflow(c) ==
  /\ jpc[c] = "readwf"
  /\ jwf' = [jwf EXCEPT ![c] = wf]
  /\ Goto(c, "readtasks")
  /\ UNCHANGED <<storeVars, delivery, jsaga, jtodo, jcur, rlock>>

\* The task rows are read once; every decision rests on that list and on the
\* workflow status read before.
BrokerReadTasks(c) ==
  /\ jpc[c] = "readtasks"
  /\ \/ /\ jwf[c] = "COMPENSATING"
        /\ CompensationsActive(st)
        /\ Goto(c, "finish")
        /\ UNCHANGED <<jwf, jtodo>>
     \/ /\ jwf[c] = "COMPENSATING"
        /\ ~CompensationsActive(st)
        /\ Goto(c, "savewf")
        /\ jwf' = [jwf EXCEPT ![c] = "FAILED"]
        /\ UNCHANGED jtodo
     \/ /\ jwf[c] # "COMPENSATING"
        /\ Ready(st) # {}
        /\ Goto(c, "trigger")
        /\ jtodo' = [jtodo EXCEPT ![c] = {TaskMessage(t) : t \in Ready(st)}]
        /\ UNCHANGED jwf
     \/ /\ jwf[c] # "COMPENSATING"
        /\ Ready(st) = {}
        /\ AllSettled(st)
        /\ Goto(c, "savewf")
        /\ jwf' = [jwf EXCEPT ![c] = "COMPLETED"]
        /\ UNCHANGED jtodo
     \/ /\ jwf[c] # "COMPENSATING"
        /\ Ready(st) = {}
        /\ ~AllSettled(st)
        /\ Goto(c, "finish")
        /\ UNCHANGED <<jwf, jtodo>>
  /\ UNCHANGED <<storeVars, delivery, jsaga, jcur, rlock>>

\* One iteration of the trigger loop, of progressDAG or handleTaskFailure:
\* save RUNNING, then publish.
BrokerTrigger(c) ==
  /\ jpc[c] = "trigger"
  /\ \E m \in jtodo[c] :
       /\ SaveTask(m.task, "RUNNING")
       /\ jcur' = [jcur EXCEPT ![c] = m]
       /\ jtodo' = [jtodo EXCEPT ![c] = @ \ {m}]
  /\ Goto(c, "publish")
  /\ UNCHANGED <<wf, queue, txLocks, runs, faulted, faults, delivery, jsaga, jwf,
                 rlock>>

BrokerPublish(c) ==
  /\ jpc[c] = "publish"
  /\ Send(jcur[c])
  /\ jcur' = [jcur EXCEPT ![c] = NoMessage]
  /\ Goto(c, IF jtodo[c] = {} THEN "finish" ELSE "trigger")
  /\ UNCHANGED <<wf, st, txLocks, runs, faulted, faults, delivery, jsaga, jwf,
                 jtodo, rlock>>

BrokerSaveWorkflow(c) ==
  /\ jpc[c] \in {"savewf", "rescue"}
  /\ SaveWorkflow(jwf[c])
  /\ Goto(c, "finish")
  /\ UNCHANGED <<st, queue, txLocks, runs, faulted, faults, delivery, work,
                 rlock>>

-----------------------------------------------------------------------------
(* handleTaskFailure. *)

BrokerFailTask(c) ==
  /\ jpc[c] = "fail"
  /\ SaveTask(Own(c), "FAILED")
  /\ Goto(c, "failwf")
  /\ UNCHANGED <<wf, queue, txLocks, runs, faulted, faults, delivery, work,
                 rlock>>

BrokerFailWorkflow(c) ==
  /\ jpc[c] = "failwf"
  /\ SaveWorkflow("COMPENSATING")
  /\ jwf' = [jwf EXCEPT ![c] = "COMPENSATING"]
  /\ Goto(c, "compensate")
  /\ UNCHANGED <<st, queue, txLocks, runs, faulted, faults, delivery, jsaga,
                 jtodo, jcur, rlock>>

BrokerCompensate(c) ==
  /\ jpc[c] = "compensate"
  /\ jtodo' = [jtodo EXCEPT
                 ![c] = {CompensationMessage(o) : o \in Compensable(st)}]
  /\ \/ /\ Compensable(st) = {}
        /\ jwf' = [jwf EXCEPT ![c] = "FAILED"]
        /\ Goto(c, "savewf")
     \/ /\ Compensable(st) # {}
        /\ UNCHANGED jwf
        /\ Goto(c, "trigger")
  /\ UNCHANGED <<storeVars, delivery, jsaga, jcur, rlock>>

-----------------------------------------------------------------------------
(* Faults. *)

\* A catch block of progressDAG or handleTaskFailure fails the workflow.
EnterRescue(c) ==
  /\ Goto(c, "rescue")
  /\ jwf' = [jwf EXCEPT ![c] = "FAILED"]
  /\ jtodo' = [jtodo EXCEPT ![c] = {}]
  /\ jcur' = [jcur EXCEPT ![c] = NoMessage]

\* A repository or Redis call throws: processTask catches it, the inner catch
\* blocks do, or it leaves the failure handler and the message is dropped.
BrokerError(c) ==
  /\ Fault("error")
  /\ \/ /\ \/ jpc[c] \in ProcessPoints
           \/ jpc[c] = "rescue" /\ ~jsaga[c]
        /\ EnterFailure(c)
        /\ UNCHANGED jwf
     \/ /\ jpc[c] \in {"trigger", "savewf"}
        /\ EnterRescue(c)
        /\ UNCHANGED <<jsaga, faulted>>
     \/ /\ \/ jpc[c] \in FailurePoints
           \/ jpc[c] = "rescue" /\ jsaga[c]
        /\ Goto(c, "finish")
        /\ UNCHANGED <<work, faulted>>
  /\ UNCHANGED <<wf, st, queue, txLocks, runs, delivery, rlock>>

BrokerPublishFails(c) ==
  /\ jpc[c] = "publish"
  /\ Fault("publish")
  /\ EnterRescue(c)
  /\ UNCHANGED <<wf, st, queue, txLocks, runs, faulted, delivery, jsaga, rlock>>

\* The replica dies.  Its message goes back; its lock stays until it expires.
BrokerCrash(c) ==
  /\ jpc[c] # "idle"
  /\ Fault("crash")
  /\ PassLock(c, Orphan)
  /\ Reset(c)
  /\ IF jheld[c] THEN Requeue(jmsg[c]) ELSE UNCHANGED queue
  /\ UNCHANGED <<wf, st, txLocks, runs, faulted>>

\* The connection drops: the message is delivered again while the thread that
\* has it goes on.
BrokerRedeliver(c) ==
  /\ jheld[c]
  /\ Fault("redeliver")
  /\ Requeue(jmsg[c])
  /\ jheld' = [jheld EXCEPT ![c] = FALSE]
  /\ UNCHANGED <<wf, st, txLocks, runs, faulted, jpc, jmsg, work, rlock>>

LockExpire(t) ==
  /\ rlock[t] = Orphan
  /\ rlock' = [rlock EXCEPT ![t] = Free]
  /\ UNCHANGED <<storeVars, jpc, delivery, work>>

\* Redis runs without persistence.
RedisRestart ==
  /\ \E t \in Tasks : rlock[t] # Free
  /\ Fault("redis")
  /\ rlock' = [t \in Tasks |-> Free]
  /\ UNCHANGED <<wf, st, queue, txLocks, runs, faulted, jpc, delivery, work>>

-----------------------------------------------------------------------------
BrokerStep(c) ==
  \/ BrokerDeliver(c) \/ BrokerLock(c) \/ BrokerLockTimeout(c)
  \/ BrokerCheck(c) \/ BrokerMarkRunning(c)
  \/ BrokerExecute(c) \/ BrokerRefuse(c)
  \/ BrokerComplete(c) \/ BrokerReadWorkflow(c) \/ BrokerReadTasks(c)
  \/ BrokerTrigger(c) \/ BrokerPublish(c) \/ BrokerSaveWorkflow(c)
  \/ BrokerFailTask(c) \/ BrokerFailWorkflow(c) \/ BrokerCompensate(c)
  \/ BrokerFinish(c)

BrokerFault(c) ==
  BrokerError(c) \/ BrokerPublishFails(c) \/ BrokerCrash(c) \/ BrokerRedeliver(c)

BrokerNext ==
  \/ \E c \in Consumers : BrokerStep(c) \/ BrokerFault(c)
  \/ \E t \in Tasks : LockExpire(t)
  \/ RedisRestart
=============================================================================
