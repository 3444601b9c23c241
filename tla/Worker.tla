------------------------------- MODULE Worker -------------------------------
(***************************************************************************)
(* The Node.js worker: each pod takes one message at a time from the node  *)
(* queue and runs the async consumer callback of mq.ts.  completeTask-     *)
(* AndProgress commits COMPLETED first and evaluates the DAG in a second   *)
(* transaction; handleTaskFailure is one transaction.  Transactions are    *)
(* READ COMMITTED: row writes stay private and their rows locked until     *)
(* COMMIT, while a published message is visible at once.                   *)
(***************************************************************************)
EXTENDS SagaStore

VARIABLES
  npc,     \* pod -> control point
  nmsg,    \* pod -> the message it processes
  nsaga,   \* pod -> it is inside handleTaskFailure
  ntodo,   \* pod -> messages its transaction has yet to publish
  nrows,   \* pod -> rows its transaction sets to RUNNING
  nwf      \* pod -> status its transaction gives the workflow ("NONE": none)

txData       == <<nsaga, ntodo, nrows, nwf>>
callbackVars == <<npc, nmsg, txData>>

WorkerPoints == {"idle", "check", "run", "exec", "complete", "readdag",
                 "publish", "fail", "failwf", "ack"}

WorkerInit ==
  /\ npc = [n \in Nodes |-> "idle"]
  /\ nmsg = [n \in Nodes |-> NoMessage]
  /\ nsaga = [n \in Nodes |-> FALSE]
  /\ ntodo = [n \in Nodes |-> {}]
  /\ nrows = [n \in Nodes |-> {}]
  /\ nwf = [n \in Nodes |-> "NONE"]

WorkerTypeOK ==
  /\ npc \in [Nodes -> WorkerPoints]
  /\ nmsg \in [Nodes -> Message \cup {NoMessage}]
  /\ \A n \in Nodes : npc[n] # "idle" => nmsg[n] \in Message
  /\ nsaga \in [Nodes -> BOOLEAN]
  /\ ntodo \in [Nodes -> SUBSET Message]
  /\ nrows \in [Nodes -> SUBSET Tasks]
  /\ nwf \in [Nodes -> WfStatus]

-----------------------------------------------------------------------------
Mine(n) == nmsg[n].task

At(n, point) == npc' = [npc EXCEPT ![n] = point]

\* Open a transaction with its first statements' row locks, or widen it.
LockRowsNone(n, rows) == UNCHANGED txLocks
LockRows(n, rows) ==
  /\ \A r \in rows : ~LockedByOther(r, n)
  /\ txLocks' = [txLocks EXCEPT ![n] = @ \cup rows]

\* handleTaskFailure here looks up the worker of the COMPENSATION task.
WorkerCompensation(o) ==
  [task |-> Comp(o), input |-> o, queue |-> Dag[Comp(o)].worker]

ResetWorker(n) ==
  /\ npc' = [npc EXCEPT ![n] = "idle"]
  /\ nmsg' = [nmsg EXCEPT ![n] = NoMessage]
  /\ nsaga' = [nsaga EXCEPT ![n] = FALSE]
  /\ ntodo' = [ntodo EXCEPT ![n] = {}]
  /\ nrows' = [nrows EXCEPT ![n] = {}]
  /\ nwf' = [nwf EXCEPT ![n] = "NONE"]

-----------------------------------------------------------------------------
(* The consumer callback up to the end of the task body. *)

WorkerDeliver(n) ==
  /\ npc[n] = "idle"
  /\ queue["node"] # <<>>
  /\ nmsg' = [nmsg EXCEPT ![n] = Head(queue["node"])]
  /\ queue' = [queue EXCEPT !["node"] = Tail(@)]
  /\ At(n, "check")
  /\ UNCHANGED <<wf, st, txLocks, runs, faulted, faults, txData>>

WorkerCheck(n) ==
  /\ npc[n] = "check"
  /\ At(n, IF Terminal(st[Mine(n)]) THEN "ack" ELSE "run")
  /\ UNCHANGED <<storeVars, nmsg, txData>>

WorkerMarkRunning(n) ==
  /\ npc[n] = "run"
  /\ UpdateTask(Mine(n), "RUNNING")
  /\ At(n, "exec")
  /\ UNCHANGED <<wf, queue, txLocks, runs, faulted, faults, nmsg, txData>>

WorkerExecute(n) ==
  /\ npc[n] = "exec"
  /\ Dag[nmsg[n].input].chaos = "none"
  /\ Ran(Mine(n))
  /\ At(n, "complete")
  /\ UNCHANGED <<wf, st, queue, txLocks, faulted, faults, nmsg, txData>>

\* fail throws at once; ZOMBIE_HANG loses the race with the 10 s timeout.
WorkerExecuteFails(n) ==
  /\ npc[n] = "exec"
  /\ Dag[nmsg[n].input].chaos \in {"fail", "hang"}
  /\ At(n, "fail")
  /\ nsaga' = [nsaga EXCEPT ![n] = TRUE]
  /\ faulted' = faulted \cup {Mine(n)}
  /\ UNCHANGED <<wf, st, queue, txLocks, runs, faults, nmsg, ntodo, nrows, nwf>>

\* FATAL_CRASH: process.exit, and RabbitMQ takes the message back.
WorkerFatalCrash(n) ==
  /\ npc[n] = "exec"
  /\ Dag[nmsg[n].input].chaos = "crash"
  /\ Requeue(nmsg[n])
  /\ ResetWorker(n)
  /\ UNCHANGED <<wf, st, txLocks, runs, faulted, faults>>

-----------------------------------------------------------------------------
(* completeTaskAndProgress and handleTaskFailure. *)

\* First transaction, committed before progressDAG opens its own.
WorkerComplete(n) ==
  /\ npc[n] = "complete"
  /\ UpdateTask(Mine(n), "COMPLETED")
  /\ At(n, "readdag")
  /\ UNCHANGED <<wf, queue, txLocks, runs, faulted, faults, nmsg, txData>>

\* SELECT ... FOR UPDATE of the workflow, then the rows: what this transaction
\* will publish, and the status it will give the workflow.
WorkerReadDag(n) ==
  /\ npc[n] = "readdag"
  /\ LockRows(n, {WfRow})
  /\ ntodo' = [ntodo EXCEPT
                ![n] = IF wf = "COMPENSATING" THEN {}
                         ELSE {TaskMessage(t) : t \in Ready(st)}]
  /\ nwf' = [nwf EXCEPT
              ![n] = CASE wf = "COMPENSATING" /\ ~CompensationsActive(st) -> "FAILED"
                       [] wf # "COMPENSATING" /\ AllSettled(st) -> "COMPLETED"
                       [] OTHER -> "NONE"]
  /\ At(n, "publish")
  /\ UNCHANGED <<wf, st, queue, runs, faulted, faults, nmsg, nsaga, nrows>>

\* handleTaskFailure locks its own row, then the workflow's, and only then
\* reads the rows.
WorkerFailTask(n) ==
  /\ npc[n] = "fail"
  /\ LockRows(n, {Mine(n)})
  /\ At(n, "failwf")
  /\ UNCHANGED <<wf, st, queue, runs, faulted, faults, nmsg, txData>>

WorkerFailWorkflow(n) ==
  LET seen == [st EXCEPT ![Mine(n)] = "FAILED"]
  IN  /\ npc[n] = "failwf"
      /\ LockRows(n, {WfRow})
      /\ ntodo' = [ntodo EXCEPT
                    ![n] = {WorkerCompensation(o) : o \in Compensable(seen)}]
      /\ nwf' = [nwf EXCEPT
                  ![n] = IF Compensable(seen) = {} THEN "FAILED"
                           ELSE "COMPENSATING"]
      /\ At(n, "publish")
      /\ UNCHANGED <<wf, st, queue, runs, faulted, faults, nmsg, nsaga, nrows>>

\* UPDATE one task to RUNNING and publish it; the commit comes later.
WorkerPublishSilent(n) ==
  /\ npc[n] = "publish"
  /\ \E m \in ntodo[n] :
       /\ m.queue # "other"
       /\ LockRows(n, {m.task})
       /\ ntodo' = [ntodo EXCEPT ![n] = @ \ {m}]
       /\ nrows' = [nrows EXCEPT ![n] = @ \cup {m.task}]
  /\ UNCHANGED <<wf, st, queue, runs, faulted, faults, npc, nmsg, nsaga, nwf>>
WorkerPublish(n) ==
  /\ npc[n] = "publish"
  /\ \E m \in ntodo[n] :
       /\ m.queue # "other"
       /\ LockRows(n, {m.task})
       /\ Send(m)
       /\ ntodo' = [ntodo EXCEPT ![n] = @ \ {m}]
       /\ nrows' = [nrows EXCEPT ![n] = @ \cup {m.task}]
  /\ UNCHANGED <<wf, st, runs, faulted, faults, npc, nmsg, nsaga, nwf>>

WorkerCommit(n) ==
  /\ npc[n] = "publish"
  /\ ntodo[n] = {}
  /\ st' = [t \in Tasks |->
              CASE t \in nrows[n] -> "RUNNING"
                [] t \notin nrows[n] /\ nsaga[n] /\ t = Mine(n) -> "FAILED"
                [] OTHER -> st[t]]
  /\ wf' = IF nwf[n] = "NONE" THEN wf ELSE nwf[n]
  /\ txLocks' = [txLocks EXCEPT ![n] = {}]
  /\ At(n, "ack")
  /\ UNCHANGED <<queue, runs, faulted, faults, nmsg, txData>>

\* ack, or nack without requeue after a handled failure.
WorkerAck(n) ==
  /\ npc[n] = "ack"
  /\ ResetWorker(n)
  /\ UNCHANGED storeVars

-----------------------------------------------------------------------------
(* Errors. *)

\* ROLLBACK and throw.  The callback then enters handleTaskFailure; an error
\* inside handleTaskFailure gives the message back to the queue.
RollbackAndThrow(n) ==
  /\ txLocks' = [txLocks EXCEPT ![n] = {}]
  /\ \/ /\ nsaga[n]
        /\ Requeue(nmsg[n])
        /\ ResetWorker(n)
        /\ UNCHANGED faulted
     \/ /\ ~nsaga[n]
        /\ At(n, "fail")
        /\ nsaga' = [nsaga EXCEPT ![n] = TRUE]
        /\ ntodo' = [ntodo EXCEPT ![n] = {}]
        /\ nrows' = [nrows EXCEPT ![n] = {}]
        /\ nwf' = [nwf EXCEPT ![n] = "NONE"]
        /\ faulted' = faulted \cup {Mine(n)}
        /\ UNCHANGED <<queue, nmsg>>

\* publishTaskMessage throws for a worker type it does not know.
WorkerUnsupported(n) ==
  /\ npc[n] = "publish"
  /\ \E m \in ntodo[n] : m.queue = "other"
  /\ RollbackAndThrow(n)
  /\ UNCHANGED <<wf, st, runs, faults>>

\* Two transactions wait for a row of each other; PostgreSQL aborts one.
Wanted(n) ==
  CASE npc[n] = "failwf"  -> {WfRow}
    [] npc[n] = "publish" -> {m.task : m \in ntodo[n]}
    [] OTHER -> {}

WaitsFor(n, k) == Wanted(n) \cap txLocks[k] # {}

Victim(n) == \E k \in Nodes \ {n} : WaitsFor(n, k) /\ WaitsFor(k, n)

WorkerDeadlockVictim(n) ==
  /\ Victim(n)
  /\ RollbackAndThrow(n)
  /\ UNCHANGED <<wf, st, runs, faults>>

\* A query fails.
WorkerError(n) ==
  /\ npc[n] \notin {"idle", "exec", "ack"}
  /\ Fault("error")
  /\ RollbackAndThrow(n)
  /\ UNCHANGED <<wf, st, runs>>

WorkerPublishFails(n) ==
  /\ npc[n] = "publish"
  /\ ntodo[n] # {}
  /\ Fault("publish")
  /\ RollbackAndThrow(n)
  /\ UNCHANGED <<wf, st, runs>>

\* The pod dies: its transaction is rolled back, its messages stay published.
WorkerCrash(n) ==
  /\ npc[n] # "idle"
  /\ Fault("crash")
  /\ txLocks' = [txLocks EXCEPT ![n] = {}]
  /\ Requeue(nmsg[n])
  /\ ResetWorker(n)
  /\ UNCHANGED <<wf, st, runs, faulted>>

-----------------------------------------------------------------------------
WorkerStep(n) ==
  \/ WorkerDeliver(n) \/ WorkerCheck(n) \/ WorkerMarkRunning(n)
  \/ WorkerExecute(n) \/ WorkerExecuteFails(n) \/ WorkerFatalCrash(n)
  \/ WorkerComplete(n) \/ WorkerReadDag(n)
  \/ WorkerFailTask(n) \/ WorkerFailWorkflow(n)
  \/ WorkerPublish(n) \/ WorkerCommit(n) \/ WorkerAck(n)
  \/ WorkerUnsupported(n) \/ WorkerDeadlockVictim(n)

WorkerFault(n) == WorkerError(n) \/ WorkerPublishFails(n) \/ WorkerCrash(n)
=============================================================================
