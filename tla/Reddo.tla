-------------------------------- MODULE Reddo --------------------------------
(***************************************************************************)
(* The whole engine on one workflow instance: the gateway submits it, the  *)
(* Java brokers and the Node.js workers execute it, each reading and       *)
(* writing the same rows and the same queues.  With Nodes = {} or          *)
(* Consumers = {} it is a deployment with one kind of executor only.       *)
(***************************************************************************)
EXTENDS Gate, Broker, WorkerPod

vars == <<storeVars, gateVars, brokerVars, workerVars>>

Init == StoreInit /\ GateInit /\ BrokerInit /\ WorkerInit /\ PodInit

Next ==
  \/ GateNext /\ UNCHANGED <<brokerVars, workerVars>>
  \/ BrokerNext /\ UNCHANGED <<gateVars, workerVars>>
  \/ PodNext /\ UNCHANGED <<gateVars, brokerVars>>

Spec == Init /\ [][Next]_vars

\* Every process keeps taking its own steps; faults are never owed.  The lock
\* of a dead replica runs out.
Fairness ==
  /\ WF_vars(GateStep /\ UNCHANGED <<brokerVars, workerVars>>)
  /\ \A c \in Consumers :
       WF_vars(BrokerStep(c) /\ UNCHANGED <<gateVars, workerVars>>)
  /\ \A n \in Nodes :
       WF_vars(PodWorks(n) /\ UNCHANGED <<gateVars, brokerVars>>)
  /\ WF_vars(/\ \E t \in Tasks : LockExpire(t)
             /\ UNCHANGED <<gateVars, workerVars>>)

FairSpec == Spec /\ Fairness

TypeOK == StoreTypeOK /\ GateTypeOK /\ BrokerTypeOK /\ WorkerTypeOK
          /\ PodTypeOK

-----------------------------------------------------------------------------
(* Where a task can be. *)

HasRun(t) == runs[t] > 0

\* o is the task that t compensates, and t was called for.
CalledFor(t) == \E o \in Tasks : Comp(o) = t /\ HasRun(o) /\ faulted # {}

Queued(t) ==
  \E q \in Queues : \E i \in 1 .. Len(queue[q]) : queue[q][i].task = t

\* Some process is bound to publish a message for t.
BeingPublished(t) ==
  \/ \E m \in gtodo : m.task = t
  \/ \E c \in Consumers : jcur[c].task = t \/ \E m \in jtodo[c] : m.task = t
  \/ \E n \in Nodes : \E m \in ntodo[n] : m.task = t

\* Some executor holds t and has yet to write its outcome.
InHands(t) ==
  \/ \E c \in Consumers :
       /\ Own(c) = t
       /\ jpc[c] \in {"lock", "check", "run", "exec", "complete", "fail"}
  \/ \E n \in Nodes :
       /\ Mine(n) = t
       /\ \/ npc[n] \in {"check", "run", "exec", "complete", "fail", "failwf"}
          \/ npc[n] = "publish" /\ nsaga[n]

Executing(c) ==
  \/ jpc[c] \in ProcessPoints \ {"lock"}
  \/ jpc[c] \in TriggerPoints /\ ~jsaga[c]

Quiet ==
  /\ gpc = "replied"
  /\ \A q \in Queues : queue[q] = <<>>
  /\ \A c \in Consumers : jpc[c] = "idle"
  /\ \A n \in Nodes : npc[n] = "idle"

Closed == wf \in {"COMPLETED", "FAILED"}

-----------------------------------------------------------------------------
(* Safety. *)

\* A task body runs only after the body of every dependency has run; a task
\* hidden behind __SAGA_FAIL__, or named as a compensation, may also run
\* because it was called for.  About progressDAG in both languages together
\* with the root selection of the gateway.
DependencyOrder ==
  \A t \in Tasks :
    HasRun(t) => \/ SagaFail \notin Deps(t) /\ \A d \in Deps(t) : HasRun(d)
                 \/ CalledFor(t)

\* A hidden compensation runs only if the task it undoes has taken effect and
\* some task has failed.  About the COMPLETED test of handleTaskFailure.
CompensationJustified ==
  \A t \in Tasks : HasRun(t) /\ SagaFail \in Deps(t) => CalledFor(t)

\* A workflow reported COMPLETED has no task that nobody tried to execute.
\* About the anyTaskRunning / anyTaskPending decision at the end of progressDAG.
CompletedMeansAttempted ==
  wf = "COMPLETED" => \A t \in Tasks : HasRun(t) \/ t \in faulted

\* Two broker replicas never execute or progress the same task at once, unless
\* Redis has lost its keys.  About the Redisson lock, its orphans included;
\* handleTaskFailure is left out because a failing tryLock leads into it.
LockExclusion ==
  \A c, d \in Consumers :
    c # d /\ Executing(c) /\ Executing(d) => Own(c) # Own(d)

\* A RUNNING task has a message, an executor, or a process that is about to
\* publish it.  About the order "mark RUNNING, then publish" and the acks.
NoLostTask ==
  \A t \in Tasks :
    st[t] = "RUNNING" => Queued(t) \/ BeingPublished(t) \/ InHands(t)

\* However pods are stopped and killed, a task that nobody has executed or given
\* up is not forgotten: its message waits, or will be published, or is with an
\* executor that can still hand it back.  About the requeue of an
\* unacknowledged message when a channel closes under the callback.
NoLostWork ==
  \A t \in Tasks :
    st[t] = "RUNNING" /\ ~HasRun(t) /\ t \notin faulted =>
      \/ Queued(t)
      \/ BeingPublished(t)
      \/ \E c \in Consumers : jpc[c] # "idle" /\ Own(c) = t
      \/ \E n \in Nodes : npc[n] # "idle" /\ Mine(n) = t /\ link[n] = "open"

\* When nothing is left to deliver and nobody works, the workflow is closed.
\* About every exit of the two consumers that acknowledges a message.
NoStall == Quiet => Closed

\* The compensation of every task that took effect has taken effect, or has
\* itself failed.
Undone ==
  \A t \in Tasks :
    HasRun(t) /\ Comp(t) # NoTask => HasRun(Comp(t)) \/ Comp(t) \in faulted

\* A workflow is not reported FAILED while something is still to be undone.
\* About compensationTriggered in handleTaskFailure and compensationsActive in
\* progressDAG.
FailedMeansUndone == wf = "FAILED" => Undone

\* The body of a task takes effect at most once.  About the status check, the
\* lock and the row locks that are to make redelivery harmless.
AtMostOnce == \A t \in Tasks : runs[t] <= 1

-----------------------------------------------------------------------------
(* Action properties. *)

\* A message leaves the queue for good only once its task has an outcome.
\* About the acknowledgement after a failed tryLock.
AckedMeansSettled ==
  [][\A c \in Consumers :
       jpc[c] = "finish" /\ jheld[c] /\ jpc'[c] = "idle" /\ faults' = faults
         => Terminal(st[Own(c)])]_vars

\* A workflow that was reported as ended is not reported otherwise later.
OutcomeIsFinal == [][Closed => UNCHANGED wf]_wf

\* A task that has been COMPLETED never starts over.
NoRegression ==
  [][\A t \in Tasks : st[t] = "COMPLETED" => st'[t] # "RUNNING"]_st

-----------------------------------------------------------------------------
(* The promise. *)

Promise == INSTANCE DagRun WITH
  Task      <- Tasks,
  Needs     <- [t \in Tasks |-> Deps(t)],
  Hidden    <- {t \in Tasks : SagaFail \in Deps(t)},
  UndoOf    <- [t \in Tasks |-> {o \in Tasks : Comp(o) = t}],
  ran       <- {t \in Tasks : HasRun(t)},
  failed    <- faulted,
  disturbed <- faults > 0,
  outcome   <- wf

\* The engine implements DagRun, whatever the faults.
ImplementsDagRun == Promise!DagSpec

-----------------------------------------------------------------------------
(* Liveness. *)

\* The saga ends: the workflow is FAILED and all of it undone.
EventuallyUndone == <>[](wf = "FAILED" /\ Undone)

\* The workflow ends one way or the other.
EventuallyClosed == <>[]Closed
=============================================================================
