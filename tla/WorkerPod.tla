------------------------------ MODULE WorkerPod ------------------------------
(***************************************************************************)
(* The life of a Node.js pod around its consumer callback.  Kubernetes     *)
(* ends a pod with SIGTERM; shutdown() of index.ts closes the RabbitMQ     *)
(* channel and then ends the PostgreSQL pool, and waits for neither the    *)
(* callback nor its message: RabbitMQ takes the message back at once while *)
(* the callback goes on, and whatever it asks of a closed channel or of an *)
(* ended pool throws into its catch blocks.                                *)
(***************************************************************************)
EXTENDS Worker

VARIABLE
  link  \* pod -> "open", "closing" (no channel), "ended" (no pool), "down"

workerVars == <<callbackVars, link>>

PodInit == link = [n \in Nodes |-> "open"]

PodTypeOK == link \in [Nodes -> {"open", "closing", "ended", "down"}]

Becomes(n, state) == link' = [link EXCEPT ![n] = state]

-----------------------------------------------------------------------------
\* SIGTERM: the channel closes, and the delivery in progress is requeued.
PodSignalKeeps(n) ==
  /\ link[n] = "open"
  /\ Fault("close")
  /\ Becomes(n, "closing")
  /\ UNCHANGED <<wf, st, queue, txLocks, runs, faulted, callbackVars>>
PodSignal(n) ==
  /\ link[n] = "open"
  /\ Fault("close")
  /\ Becomes(n, "closing")
  /\ IF npc[n] = "idle" THEN UNCHANGED queue ELSE Requeue(nmsg[n])
  /\ UNCHANGED <<wf, st, txLocks, runs, faulted, callbackVars>>

\* pool.end: a client that is checked out works on, connect() rejects.
PodEndPool(n) ==
  /\ link[n] = "closing"
  /\ Becomes(n, "ended")
  /\ UNCHANGED <<storeVars, callbackVars>>

\* What the callback still gets done without a channel, or without a pool.
PodGoesOn(n) ==
  /\ \/ /\ link[n] \in {"closing", "ended"}
        /\ \/ WorkerExecute(n) \/ WorkerExecuteFails(n)
           \/ WorkerFailWorkflow(n) \/ WorkerCommit(n)
     \/ /\ link[n] = "closing"
        /\ \/ WorkerCheck(n) \/ WorkerMarkRunning(n) \/ WorkerComplete(n)
           \/ WorkerReadDag(n) \/ WorkerFailTask(n)
  /\ UNCHANGED link

\* ack, nack and publish throw without a channel, connect() without a pool.
Breaks(n) ==
  \/ /\ \/ npc[n] = "ack"
        \/ npc[n] = "publish" /\ ntodo[n] # {}
        \/ Victim(n)
        \/ /\ link[n] = "ended"
           /\ npc[n] \in {"check", "run", "complete", "readdag", "fail"}
     /\ UNCHANGED faults
  \/ npc[n] \notin {"idle", "exec", "ack"} /\ Fault("error")

\* The first throw leads into handleTaskFailure, even when only the ack of a
\* task that is COMPLETED threw.
PodThrow(n) ==
  /\ link[n] \in {"closing", "ended"}
  /\ ~nsaga[n]
  /\ Breaks(n)
  /\ RollbackAndThrow(n)
  /\ UNCHANGED <<wf, st, runs, link>>

\* The process ends: a throw inside the failure handler makes the nack throw,
\* which nobody catches; or FATAL_CRASH; or exit(0) once pool.end has got every
\* client back; or the grace period is over.  Nothing is left to requeue.
PodGone(n) ==
  /\ link[n] \in {"closing", "ended"}
  /\ \/ nsaga[n] /\ Breaks(n)
     \/ npc[n] = "exec" /\ Dag[nmsg[n].input].chaos = "crash" /\ UNCHANGED faults
     \/ /\ link[n] = "ended"
        /\ npc[n] \notin {"readdag", "publish", "failwf"}
        /\ UNCHANGED faults
     \/ Fault("crash")
  /\ txLocks' = [txLocks EXCEPT ![n] = {}]
  /\ ResetWorker(n)
  /\ Becomes(n, "down")
  /\ UNCHANGED <<wf, st, queue, runs, faulted>>

\* bootstrap of a new pod: SELECT 1, then connectRabbitMQ and consume.
PodBoot(n) ==
  /\ link[n] = "down"
  /\ Becomes(n, "open")
  /\ UNCHANGED <<storeVars, callbackVars>>

-----------------------------------------------------------------------------
\* The callback of a pod that nobody has told to stop.
PodWorks(n) == link[n] = "open" /\ WorkerStep(n) /\ UNCHANGED link
PodFails(n) == link[n] = "open" /\ WorkerFault(n) /\ UNCHANGED link

PodShutdown(n) ==
  PodSignal(n) \/ PodEndPool(n) \/ PodThrow(n) \/ PodGone(n) \/ PodBoot(n)

PodNext ==
  \E n \in Nodes : PodWorks(n) \/ PodFails(n) \/ PodGoesOn(n) \/ PodShutdown(n)
=============================================================================
