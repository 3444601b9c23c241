-------------------------- MODULE ReddoSafetyProofs --------------------------
(***************************************************************************)
(* Type correctness of Reddo, IInv, and what follows from it, for every    *)
(* DAG, any executors and any faults.                                      *)
(***************************************************************************)
EXTENDS ReddoInvariant, SequenceTheorems, TLAPS

(* Queues and messages. *)

LEMMA TaskMessageType ==
  ASSUME NEW t \in Tasks PROVE TaskMessage(t) \in Message
BY DagAssumption DEF TaskMessage, Message, Tasks, TaskDefinition

LEMMA CompensationType ==
  ASSUME NEW o \in Tasks, Comp(o) # NoTask
  PROVE  /\ CompensationMessage(o) \in Message
         /\ WorkerCompensation(o) \in Message
BY DagAssumption DEF CompensationMessage, WorkerCompensation, Comp, Message, Tasks,
                     TaskDefinition

LEMMA NoMessageQueue == NoMessage.queue \notin Queues
BY DEF NoMessage, Queues

LEMMA MessageTask ==
  /\ \A m \in Message : m.task \in Tasks /\ m.input \in Tasks
  /\ NoMessage.task = NoTask /\ NoTask \notin Tasks /\ NoMessage \notin Message
BY DagAssumption DEF Message, NoMessage

LEMMA SendType ==
  ASSUME queue \in [Queues -> Seq(Message)], NEW m \in Message \cup {NoMessage},
         Send(m)
  PROVE  queue' \in [Queues -> Seq(Message)]
<1>1. CASE m.queue \in Queues
  <2>1. m \in Message
    BY <1>1, NoMessageQueue
  <2>2. Append(queue[m.queue], m) \in Seq(Message)
    BY <1>1, <2>1, AppendProperties
  <2>. QED BY <1>1, <2>2 DEF Send
<1>2. CASE m.queue \notin Queues
  BY <1>2 DEF Send
<1>. QED BY <1>1, <1>2

LEMMA RequeueType ==
  ASSUME queue \in [Queues -> Seq(Message)], NEW m \in Message \cup {NoMessage},
         Requeue(m)
  PROVE  queue' \in [Queues -> Seq(Message)]
<1>1. CASE m.queue \in Queues
  <2>1. m \in Message
    BY <1>1, NoMessageQueue
  <2>2. <<m>> \o queue[m.queue] \in Seq(Message)
    <3>1. <<m>> \in Seq(Message)
      BY <2>1
    <3>. QED BY <1>1, <3>1, ConcatProperties
  <2>. QED BY <1>1, <2>2 DEF Requeue
<1>2. CASE m.queue \notin Queues
  BY <1>2 DEF Requeue
<1>. QED BY <1>1, <1>2

LEMMA TakeType ==
  ASSUME queue \in [Queues -> Seq(Message)], NEW q \in Queues, queue[q] # <<>>
  PROVE  /\ Head(queue[q]) \in Message
         /\ [queue EXCEPT ![q] = Tail(@)] \in [Queues -> Seq(Message)]
<1>1. queue[q] \in Seq(Message)
  OBVIOUS
<1>2. Head(queue[q]) \in Message /\ Tail(queue[q]) \in Seq(Message)
  BY <1>1, HeadTailProperties
<1>. QED BY <1>2

---------------------------------------------------------------------------
(* Type correctness. *)

LEMMA InitType == Init => TypeOK
BY DagAssumption, FaultAssumption
   DEF Init, StoreInit, GateInit, BrokerInit, WorkerInit, PodInit, TypeOK,
       StoreTypeOK, GateTypeOK, BrokerTypeOK, WorkerTypeOK, PodTypeOK, WfStatus,
       Status, JavaPoints, WorkerPoints

LEMMA GateType ==
  ASSUME TypeOK, GateNext, UNCHANGED <<brokerVars, workerVars>>
  PROVE  TypeOK'
<1>. USE DEF TypeOK, gateVars, brokerVars, delivery, work, workerVars, callbackVars,
             txData, BrokerTypeOK, WorkerTypeOK, PodTypeOK
<1>1. CASE GateSubmit
  <2>1. gtodo' \in SUBSET Message
    BY <1>1, TaskMessageType DEF GateSubmit, Roots
  <2>. QED
    BY <1>1, <2>1 DEF GateSubmit, StoreTypeOK, GateTypeOK, WfStatus, Status
<1>2. CASE GatePublish
  <2>1. queue' \in [Queues -> Seq(Message)]
    BY <1>2, SendType DEF GatePublish, StoreTypeOK, GateTypeOK
  <2>. QED
    BY <1>2, <2>1 DEF GatePublish, StoreTypeOK, GateTypeOK
<1>3. CASE GateReply
  BY <1>3 DEF GateReply, storeVars, StoreTypeOK, GateTypeOK
<1>4. CASE GatePublishFails
  BY <1>4 DEF GatePublishFails, Fault, StoreTypeOK, GateTypeOK
<1>5. CASE GateCrash
  BY <1>5 DEF GateCrash, Fault, StoreTypeOK, GateTypeOK
<1>. QED BY <1>1, <1>2, <1>3, <1>4, <1>5 DEF GateNext, GateStep

LEMMA RanType ==
  ASSUME runs \in [Tasks -> 0 .. 2], NEW t, Ran(t)
  PROVE  runs' \in [Tasks -> 0 .. 2]
<1>1. CASE t \in Tasks
  <2>1. runs[t] \in 0 .. 2
    BY <1>1
  <2>2. (IF runs[t] < 2 THEN runs[t] + 1 ELSE runs[t]) \in 0 .. 2
    BY <2>1
  <2>. QED BY <2>2 DEF Ran
<1>2. CASE t \notin Tasks
  BY <1>2 DEF Ran
<1>. QED BY <1>1, <1>2

LEMMA BrokerStepType ==
  ASSUME TypeOK, NEW c \in Consumers, BrokerStep(c),
         UNCHANGED <<gateVars, workerVars>>
  PROVE  TypeOK'
<1>. USE DEF TypeOK, gateVars, workerVars, callbackVars, txData, GateTypeOK,
             WorkerTypeOK, PodTypeOK,
             delivery, work, storeVars, Goto
<1>1. CASE BrokerDeliver(c)
  <2>1. queue["java"] # <<>> /\ "java" \in Queues
    BY <1>1 DEF BrokerDeliver, Queues
  <2>2. Head(queue["java"]) \in Message /\ queue' \in [Queues -> Seq(Message)]
    BY <1>1, <2>1, TakeType DEF BrokerDeliver, StoreTypeOK
  <2>. QED
    BY <1>1, <2>2 DEF BrokerDeliver, StoreTypeOK, BrokerTypeOK, JavaPoints,
                      ProcessPoints
<1>2. CASE BrokerLock(c)
  BY <1>2 DEF BrokerLock, StoreTypeOK, BrokerTypeOK, JavaPoints, ProcessPoints
<1>13. CASE BrokerLockTimeout(c) \/ BrokerCheck(c)
  BY <1>13 DEF BrokerLockTimeout, BrokerCheck, StoreTypeOK, BrokerTypeOK,
               JavaPoints, ProcessPoints
<1>3. CASE BrokerMarkRunning(c) \/ BrokerComplete(c) \/ BrokerFailTask(c)
  BY <1>3 DEF BrokerMarkRunning, BrokerComplete, BrokerFailTask, SaveTask,
              StoreTypeOK, BrokerTypeOK, Status, JavaPoints, ProcessPoints,
              FailurePoints
<1>4. CASE BrokerExecute(c)
  BY <1>4, RanType DEF BrokerExecute, StoreTypeOK, BrokerTypeOK, JavaPoints,
                       ProcessPoints
<1>5. CASE BrokerRefuse(c)
  <2>1. Own(c) \in Tasks
    BY <1>5, MessageTask DEF BrokerRefuse, Own, BrokerTypeOK
  <2>. QED
    BY <1>5, <2>1 DEF BrokerRefuse, EnterFailure, StoreTypeOK, BrokerTypeOK,
                      JavaPoints, FailurePoints
<1>6. CASE BrokerReadWorkflow(c)
  BY <1>6 DEF BrokerReadWorkflow, StoreTypeOK, BrokerTypeOK, JavaPoints,
              ProcessPoints
<1>7. CASE BrokerReadTasks(c)
  <2>1. {TaskMessage(t) : t \in Ready(st)} \subseteq Message
    BY TaskMessageType DEF Ready
  <2>2. /\ jpc' \in [Consumers -> JavaPoints]
        /\ jwf' \in [Consumers -> WfStatus]
        /\ jtodo' \in [Consumers -> SUBSET Message]
    BY <1>7, <2>1 DEF BrokerReadTasks, BrokerTypeOK, JavaPoints, TriggerPoints,
                      WfStatus
  <2>3. \A d \in Consumers : jpc'[d] # "idle" => jmsg'[d] \in Message
    BY <1>7 DEF BrokerReadTasks, BrokerTypeOK
  <2>. QED
    BY <1>7, <2>2, <2>3 DEF BrokerReadTasks, StoreTypeOK, BrokerTypeOK
<1>8. CASE BrokerTrigger(c)
  <2>1. PICK m \in jtodo[c] : /\ SaveTask(m.task, "RUNNING")
                              /\ jcur' = [jcur EXCEPT ![c] = m]
                              /\ jtodo' = [jtodo EXCEPT ![c] = @ \ {m}]
    BY <1>8 DEF BrokerTrigger
  <2>2. m \in Message /\ jtodo[c] \ {m} \subseteq Message
    BY <2>1 DEF BrokerTypeOK
  <2>3. /\ st' \in [Tasks -> Status]
        /\ jcur' \in [Consumers -> Message \cup {NoMessage}]
        /\ jtodo' \in [Consumers -> SUBSET Message]
    BY <2>1, <2>2 DEF SaveTask, StoreTypeOK, BrokerTypeOK, Status
  <2>. QED
    BY <1>8, <2>3 DEF BrokerTrigger, StoreTypeOK, BrokerTypeOK, JavaPoints,
                      TriggerPoints
<1>9. CASE BrokerPublish(c)
  <2>1. queue' \in [Queues -> Seq(Message)]
    BY <1>9, SendType DEF BrokerPublish, StoreTypeOK, BrokerTypeOK
  <2>. QED
    BY <1>9, <2>1 DEF BrokerPublish, StoreTypeOK, BrokerTypeOK, JavaPoints,
                      TriggerPoints
<1>10. CASE BrokerSaveWorkflow(c) \/ BrokerFailWorkflow(c)
  BY <1>10 DEF BrokerSaveWorkflow, BrokerFailWorkflow, SaveWorkflow, StoreTypeOK,
               BrokerTypeOK, JavaPoints, FailurePoints, WfStatus
<1>11. CASE BrokerCompensate(c)
  <2>1. {CompensationMessage(o) : o \in Compensable(st)} \subseteq Message
    BY CompensationType DEF Compensable
  <2>. QED
    BY <1>11, <2>1 DEF BrokerCompensate, StoreTypeOK, BrokerTypeOK, JavaPoints,
                       TriggerPoints, WfStatus
<1>12. CASE BrokerFinish(c)
  BY <1>12 DEF BrokerFinish, Reset, PassLock, StoreTypeOK, BrokerTypeOK, JavaPoints,
               WfStatus
<1>. QED
  BY <1>1, <1>2, <1>3, <1>4, <1>5, <1>6, <1>7, <1>8, <1>9, <1>10, <1>11, <1>12,
     <1>13
     DEF BrokerStep

LEMMA BrokerFaultType ==
  ASSUME TypeOK, NEW c \in Consumers, BrokerFault(c),
         UNCHANGED <<gateVars, workerVars>>
  PROVE  TypeOK'
<1>. USE DEF TypeOK, gateVars, workerVars, callbackVars, txData, GateTypeOK,
             WorkerTypeOK, PodTypeOK,
             delivery, work, storeVars, Goto, Fault
<1>1. CASE BrokerError(c)
  <2>1. jpc[c] # "idle"
    BY <1>1 DEF BrokerError, ProcessPoints, FailurePoints
  <2>2. Own(c) \in Tasks
    BY <2>1, MessageTask DEF Own, BrokerTypeOK
  <2>3. /\ jpc' \in [Consumers -> JavaPoints]
        /\ \A d \in Consumers : jpc'[d] # "idle" => jmsg[d] \in Message
    BY <1>1, <2>1 DEF BrokerError, EnterFailure, EnterRescue, BrokerTypeOK,
                      JavaPoints, TriggerPoints, FailurePoints
  <2>4. /\ jsaga' \in [Consumers -> BOOLEAN]
        /\ jwf' \in [Consumers -> WfStatus]
        /\ jtodo' \in [Consumers -> SUBSET Message]
        /\ jcur' \in [Consumers -> Message \cup {NoMessage}]
        /\ faulted' \in SUBSET Tasks
    BY <1>1, <2>2 DEF BrokerError, EnterFailure, EnterRescue, BrokerTypeOK,
                      StoreTypeOK, WfStatus
  <2>. QED
    BY <1>1, <2>3, <2>4 DEF BrokerError, StoreTypeOK, BrokerTypeOK
<1>2. CASE BrokerPublishFails(c)
  BY <1>2 DEF BrokerPublishFails, EnterRescue, StoreTypeOK, BrokerTypeOK, JavaPoints,
              TriggerPoints, WfStatus
<1>3. CASE BrokerCrash(c)
  <2>1. queue' \in [Queues -> Seq(Message)]
    BY <1>3, RequeueType DEF BrokerCrash, StoreTypeOK, BrokerTypeOK
  <2>. QED
    BY <1>3, <2>1 DEF BrokerCrash, Reset, PassLock, StoreTypeOK, BrokerTypeOK,
                      JavaPoints, WfStatus
<1>4. CASE BrokerRedeliver(c)
  <2>1. queue' \in [Queues -> Seq(Message)]
    BY <1>4, RequeueType DEF BrokerRedeliver, StoreTypeOK, BrokerTypeOK
  <2>. QED
    BY <1>4, <2>1 DEF BrokerRedeliver, StoreTypeOK, BrokerTypeOK
<1>. QED BY <1>1, <1>2, <1>3, <1>4 DEF BrokerFault

LEMMA RedisType ==
  ASSUME TypeOK, RedisRestart \/ \E t \in Tasks : LockExpire(t),
         UNCHANGED <<gateVars, workerVars>>
  PROVE  TypeOK'
BY DEF TypeOK, gateVars, workerVars, callbackVars, txData, GateTypeOK, WorkerTypeOK,
       PodTypeOK, delivery, work, storeVars, Fault, RedisRestart, LockExpire, StoreTypeOK, BrokerTypeOK

LEMMA LockRowsType ==
  ASSUME txLocks \in [Nodes -> SUBSET Rows], NEW n \in Nodes,
         NEW rows \in SUBSET Rows, LockRows(n, rows)
  PROVE  txLocks' \in [Nodes -> SUBSET Rows]
BY DEF LockRows

LEMMA ResetWorkerType ==
  ASSUME WorkerTypeOK, NEW n \in Nodes, ResetWorker(n)
  PROVE  WorkerTypeOK'
<1>1. /\ npc' \in [Nodes -> WorkerPoints]
      /\ nmsg' \in [Nodes -> Message \cup {NoMessage}]
      /\ \A k \in Nodes : npc'[k] # "idle" => nmsg'[k] \in Message
  BY DEF WorkerTypeOK, ResetWorker, WorkerPoints
<1>2. /\ nsaga' \in [Nodes -> BOOLEAN]
      /\ ntodo' \in [Nodes -> SUBSET Message]
      /\ nrows' \in [Nodes -> SUBSET Tasks]
      /\ nwf' \in [Nodes -> WfStatus]
  BY DEF WorkerTypeOK, ResetWorker, WfStatus
<1>. QED BY <1>1, <1>2 DEF WorkerTypeOK

LEMMA ThrowType ==
  ASSUME TypeOK, NEW n \in Nodes, RollbackAndThrow(n), npc[n] # "idle",
         faults' \in Nat, UNCHANGED <<wf, st, runs>>
  PROVE  StoreTypeOK' /\ WorkerTypeOK'
<1>. USE DEF TypeOK
<1>1. Mine(n) \in Tasks
  BY MessageTask DEF Mine, WorkerTypeOK
<1>2. CASE nsaga[n]
  <2>1. queue' \in [Queues -> Seq(Message)]
    BY <1>2, RequeueType DEF RollbackAndThrow, StoreTypeOK, WorkerTypeOK
  <2>. QED
    BY <1>2, <2>1, ResetWorkerType DEF RollbackAndThrow, StoreTypeOK
<1>3. CASE ~nsaga[n]
  BY <1>1, <1>3 DEF RollbackAndThrow, StoreTypeOK, WorkerTypeOK, WorkerPoints,
                    WfStatus, txData, At
<1>. QED BY <1>2, <1>3

LEMMA WorkerStepType ==
  ASSUME TypeOK, NEW n \in Nodes, WorkerStep(n) \/ WorkerFault(n),
         UNCHANGED <<gateVars, brokerVars, link>>
  PROVE  TypeOK'
<1>. USE DEF TypeOK, gateVars, brokerVars, txData, GateTypeOK, BrokerTypeOK,
             PodTypeOK, delivery, work, storeVars, At, Fault
<1>1. CASE WorkerDeliver(n)
  <2>1. queue["node"] # <<>> /\ "node" \in Queues
    BY <1>1 DEF WorkerDeliver, Queues
  <2>2. Head(queue["node"]) \in Message /\ queue' \in [Queues -> Seq(Message)]
    BY <1>1, <2>1, TakeType DEF WorkerDeliver, StoreTypeOK
  <2>. QED
    BY <1>1, <2>2 DEF WorkerDeliver, StoreTypeOK, WorkerTypeOK, WorkerPoints
<1>2. CASE WorkerCheck(n)
  BY <1>2 DEF WorkerCheck, StoreTypeOK, WorkerTypeOK, WorkerPoints
<1>12. CASE WorkerMarkRunning(n) \/ WorkerComplete(n)
  <2>1. st' \in [Tasks -> Status]
    BY <1>12 DEF WorkerMarkRunning, WorkerComplete, UpdateTask, StoreTypeOK, Status
  <2>. QED
    BY <1>12, <2>1 DEF WorkerMarkRunning, WorkerComplete, StoreTypeOK, WorkerTypeOK,
                       WorkerPoints
<1>3. CASE WorkerExecute(n)
  BY <1>3, RanType DEF WorkerExecute, StoreTypeOK, WorkerTypeOK, WorkerPoints
<1>4. CASE WorkerExecuteFails(n)
  <2>1. Mine(n) \in Tasks
    BY <1>4, MessageTask DEF WorkerExecuteFails, Mine, WorkerTypeOK
  <2>. QED
    BY <1>4, <2>1 DEF WorkerExecuteFails, StoreTypeOK, WorkerTypeOK, WorkerPoints
<1>5. CASE WorkerFatalCrash(n) \/ WorkerCrash(n)
  <2>1. queue' \in [Queues -> Seq(Message)]
    BY <1>5, RequeueType DEF WorkerFatalCrash, WorkerCrash, StoreTypeOK, WorkerTypeOK
  <2>2. WorkerTypeOK'
    BY <1>5, ResetWorkerType DEF WorkerFatalCrash, WorkerCrash
  <2>3. txLocks' \in [Nodes -> SUBSET Rows]
    BY <1>5 DEF WorkerFatalCrash, WorkerCrash, StoreTypeOK
  <2>. QED
    BY <1>5, <2>1, <2>2, <2>3 DEF WorkerFatalCrash, WorkerCrash, StoreTypeOK
<1>6. CASE WorkerReadDag(n) \/ WorkerFailWorkflow(n)
  <2>1. {TaskMessage(t) : t \in Ready(st)} \subseteq Message
    BY TaskMessageType DEF Ready
  <2>2. {WorkerCompensation(o) :
           o \in Compensable([st EXCEPT ![Mine(n)] = "FAILED"])} \subseteq Message
    BY CompensationType DEF Compensable
  <2>3. txLocks' \in [Nodes -> SUBSET Rows]
    BY <1>6, LockRowsType DEF WorkerReadDag, WorkerFailWorkflow, Rows, StoreTypeOK
  <2>4. ntodo' \in [Nodes -> SUBSET Message]
    BY <1>6, <2>1, <2>2 DEF WorkerReadDag, WorkerFailWorkflow, WorkerTypeOK
  <2>5. nwf' \in [Nodes -> WfStatus]
    <3>1. CASE WorkerReadDag(n)
      <4>1. \A p, q \in BOOLEAN :
              (CASE p -> "FAILED" [] q -> "COMPLETED" [] OTHER -> "NONE") \in WfStatus
        BY DEF WfStatus
      <4>. QED BY <3>1, <4>1 DEF WorkerReadDag, WorkerTypeOK
    <3>2. CASE WorkerFailWorkflow(n)
      BY <3>2 DEF WorkerFailWorkflow, WorkerTypeOK, WfStatus
    <3>. QED BY <1>6, <3>1, <3>2
  <2>. QED
    BY <1>6, <2>3, <2>4, <2>5 DEF WorkerReadDag, WorkerFailWorkflow, StoreTypeOK,
                                  WorkerTypeOK, WorkerPoints
<1>7. CASE WorkerFailTask(n)
  <2>1. {Mine(n)} \in SUBSET Rows
    BY <1>7, MessageTask DEF WorkerFailTask, Mine, WorkerTypeOK, Rows
  <2>2. txLocks' \in [Nodes -> SUBSET Rows]
    BY <1>7, <2>1, LockRowsType DEF WorkerFailTask, StoreTypeOK
  <2>. QED
    BY <1>7, <2>2 DEF WorkerFailTask, StoreTypeOK, WorkerTypeOK, WorkerPoints
<1>8. CASE WorkerPublish(n)
  <2>1. PICK m \in ntodo[n] :
          /\ LockRows(n, {m.task})
          /\ Send(m)
          /\ ntodo' = [ntodo EXCEPT ![n] = @ \ {m}]
          /\ nrows' = [nrows EXCEPT ![n] = @ \cup {m.task}]
    BY <1>8 DEF WorkerPublish
  <2>2. m \in Message /\ m.task \in Tasks
    BY <2>1, MessageTask DEF WorkerTypeOK
  <2>3. txLocks' \in [Nodes -> SUBSET Rows]
    BY <2>1, <2>2, LockRowsType DEF StoreTypeOK, Rows
  <2>4. queue' \in [Queues -> Seq(Message)]
    BY <2>1, <2>2, SendType DEF StoreTypeOK
  <2>5. ntodo' \in [Nodes -> SUBSET Message] /\ nrows' \in [Nodes -> SUBSET Tasks]
    BY <2>1, <2>2 DEF WorkerTypeOK
  <2>. QED
    BY <1>8, <2>3, <2>4, <2>5 DEF WorkerPublish, StoreTypeOK, WorkerTypeOK
<1>9. CASE WorkerCommit(n)
  BY <1>9 DEF WorkerCommit, StoreTypeOK, WorkerTypeOK, WorkerPoints, Status, WfStatus
<1>10. CASE WorkerAck(n)
  BY <1>10, ResetWorkerType DEF WorkerAck, StoreTypeOK
<1>11. CASE WorkerUnsupported(n) \/ WorkerDeadlockVictim(n) \/ WorkerError(n)
              \/ WorkerPublishFails(n)
  <2>1. /\ RollbackAndThrow(n)
        /\ npc[n] # "idle"
        /\ faults' \in Nat
        /\ UNCHANGED <<wf, st, runs>>
    BY <1>11 DEF WorkerUnsupported, WorkerDeadlockVictim, Victim, WaitsFor, Wanted,
                 WorkerError, WorkerPublishFails, StoreTypeOK
  <2>. QED BY <2>1, ThrowType
<1>. QED
  BY <1>1, <1>2, <1>3, <1>4, <1>5, <1>6, <1>7, <1>8, <1>9, <1>10, <1>11, <1>12
     DEF WorkerStep, WorkerFault

\* Every step of a pod is one of its callback, or one of its life around it.
LEMMA PodCallback ==
  ASSUME NEW n \in Nodes, PodWorks(n) \/ PodFails(n) \/ PodGoesOn(n)
  PROVE  (WorkerStep(n) \/ WorkerFault(n)) /\ link' = link
BY DEF PodWorks, PodFails, PodGoesOn, WorkerStep

\* The ways in which a pod's shutdown touches the engine: the message goes back
\* while the callback stays, the callback throws, or the callback is gone.
Detached(n) ==
  /\ UNCHANGED <<txLocks, faulted, callbackVars>>
  /\ queue' = queue \/ (npc[n] # "idle" /\ Requeue(nmsg[n]))

Vanished(n) ==
  /\ ResetWorker(n)
  /\ txLocks' = [txLocks EXCEPT ![n] = {}]
  /\ UNCHANGED <<queue, faulted>>

LEMMA ShutdownCases ==
  ASSUME NEW n \in Nodes, PodShutdown(n), PodTypeOK
  PROVE  /\ UNCHANGED <<wf, st, runs>>
         /\ faults' = faults \/ faults' = faults + 1
         /\ PodTypeOK'
         /\ \/ Detached(n)
            \/ npc[n] # "idle" /\ RollbackAndThrow(n)
            \/ Vanished(n)
<1>. USE DEF PodTypeOK, Becomes, Detached, Vanished
<1>1. CASE PodSignal(n)
  <2>1. queue' = queue \/ (npc[n] # "idle" /\ Requeue(nmsg[n]))
    BY <1>1 DEF PodSignal
  <2>2. Detached(n)
    BY <1>1, <2>1 DEF PodSignal
  <2>. QED BY <1>1, <2>2 DEF PodSignal, Fault
<1>2. CASE PodEndPool(n) \/ PodBoot(n)
  <2>1. UNCHANGED storeVars /\ UNCHANGED callbackVars
    BY <1>2 DEF PodEndPool, PodBoot
  <2>2. Detached(n)
    BY <2>1 DEF storeVars
  <2>. QED BY <1>2, <2>1, <2>2 DEF PodEndPool, PodBoot, storeVars
<1>3. ASSUME Breaks(n)
      PROVE  npc[n] # "idle" /\ (faults' = faults \/ faults' = faults + 1)
  BY <1>3 DEF Breaks, Victim, WaitsFor, Wanted, Fault
<1>4. CASE PodThrow(n)
  BY <1>3, <1>4 DEF PodThrow
<1>5. CASE PodGone(n)
  <2>1. faults' = faults \/ faults' = faults + 1
    BY <1>3, <1>5 DEF PodGone, Fault
  <2>. QED BY <1>5, <2>1 DEF PodGone
<1>. QED BY <1>1, <1>2, <1>4, <1>5 DEF PodShutdown

LEMMA ShutdownType ==
  ASSUME TypeOK, NEW n \in Nodes, PodShutdown(n),
         UNCHANGED <<gateVars, brokerVars>>
  PROVE  TypeOK'
<1>. USE DEF TypeOK
<1>1. /\ UNCHANGED <<wf, st, runs>> /\ faults' \in Nat /\ PodTypeOK'
      /\ Detached(n) \/ (npc[n] # "idle" /\ RollbackAndThrow(n)) \/ Vanished(n)
  BY ShutdownCases DEF StoreTypeOK
<1>2. CASE Detached(n)
  <2>1. queue' \in [Queues -> Seq(Message)]
    BY <1>2, RequeueType DEF Detached, StoreTypeOK, WorkerTypeOK
  <2>. QED
    BY <1>1, <1>2, <2>1 DEF Detached, callbackVars, txData, StoreTypeOK, WorkerTypeOK,
                            gateVars, brokerVars, delivery, work, GateTypeOK,
                            BrokerTypeOK
<1>3. CASE npc[n] # "idle" /\ RollbackAndThrow(n)
  <2>1. StoreTypeOK' /\ WorkerTypeOK'
    BY <1>1, <1>3, ThrowType
  <2>. QED
    BY <1>1, <2>1 DEF gateVars, brokerVars, delivery, work, GateTypeOK, BrokerTypeOK
<1>4. CASE Vanished(n)
  <2>1. StoreTypeOK' /\ WorkerTypeOK'
    BY <1>1, <1>4, ResetWorkerType DEF Vanished, StoreTypeOK
  <2>. QED
    BY <1>1, <2>1 DEF gateVars, brokerVars, delivery, work, GateTypeOK, BrokerTypeOK
<1>. QED BY <1>1, <1>2, <1>3, <1>4

LEMMA NextType == TypeOK /\ [Next]_vars => TypeOK'
<1>. SUFFICES ASSUME TypeOK, [Next]_vars PROVE TypeOK'
  OBVIOUS
<1>1. CASE GateNext /\ UNCHANGED <<brokerVars, workerVars>>
  BY <1>1, GateType
<1>2. CASE BrokerNext /\ UNCHANGED <<gateVars, workerVars>>
  BY <1>2, BrokerStepType, BrokerFaultType, RedisType DEF BrokerNext
<1>3. CASE PodNext /\ UNCHANGED <<gateVars, brokerVars>>
  BY <1>3, PodCallback, WorkerStepType, ShutdownType DEF PodNext
<1>4. CASE UNCHANGED vars
  BY <1>4 DEF vars, storeVars, gateVars, brokerVars, delivery, work, workerVars,
              callbackVars, txData, TypeOK, StoreTypeOK, GateTypeOK, BrokerTypeOK,
              WorkerTypeOK, PodTypeOK
<1>. QED BY <1>1, <1>2, <1>3, <1>4 DEF Next

\* Every variable keeps its type, and whoever is at work holds a message: the
\* rows, queues and executors of any DAG under any faults.
THEOREM TypeCorrect == Spec => []TypeOK
<1>1. Init => TypeOK
  BY InitType
<1>2. TypeOK /\ [Next]_vars => TypeOK'
  BY NextType
<1>. QED BY <1>1, <1>2, PTL DEF Spec

-----------------------------------------------------------------------------
(* What has happened stays so; hence what it allows or backs stays so.  *)

Mono ==
  /\ \A t \in Tasks : HasRun(t) => HasRun(t)'
  /\ faulted \subseteq faulted'
  /\ gpc # "ready" => gpc' # "ready"
  /\ faults > 0 => faults' > 0

LEMMA RanMono ==
  ASSUME runs \in [Tasks -> 0 .. 2], NEW u \in Tasks, Ran(u)
  PROVE  /\ \A t \in Tasks : HasRun(t) => HasRun(t)'
         /\ \A t \in Tasks : HasRun(t)' => HasRun(t) \/ t = u
         /\ HasRun(u)'
<1>1. runs[u] \in 0 .. 2
  OBVIOUS
<1>2. /\ \A t \in Tasks : t # u => runs'[t] = runs[t]
      /\ runs'[u] = IF runs[u] < 2 THEN runs[u] + 1 ELSE runs[u]
  BY DEF Ran
<1>3. runs'[u] > 0
  BY <1>1, <1>2
<1>. QED BY <1>2, <1>3 DEF HasRun

LEMMA DepsType == \A t \in Tasks : Deps(t) \subseteq Tasks
BY DagAssumption DEF Deps, Tasks, TaskDefinition

LEMMA AllowedMono ==
  ASSUME Mono, NEW t \in Tasks, Allowed(t)
  PROVE  Allowed(t)'
BY DepsType DEF Mono, Allowed, CalledFor

LEMMA GoodMono ==
  ASSUME Mono, NEW m, Good(m)
  PROVE  Good(m)'
BY AllowedMono, MessageTask DEF Mono, Good

LEMMA BackedMono ==
  ASSUME Mono, NEW s, Backed(s)
  PROVE  Backed(s)'
BY DEF Mono, Backed, Attempted

LEMMA BrokerFrame ==
  ASSUME Mono, NEW c \in Consumers, BrokerOK(c),
         jpc'[c] = jpc[c], jmsg'[c] = jmsg[c], jheld'[c] = jheld[c],
         jsaga'[c] = jsaga[c], jwf'[c] = jwf[c], jtodo'[c] = jtodo[c],
         jcur'[c] = jcur[c], jpc[c] # "idle" => jmsg[c] \in Message
  PROVE  BrokerOK(c)'
<1>1. jpc[c] # "idle" => Good(jmsg[c])'
  BY GoodMono DEF BrokerOK
<1>2. /\ \A m \in jtodo[c] : Good(m)'
      /\ jpc[c] = "publish" => Good(jcur[c])'
      /\ Backed(jwf[c])'
  BY GoodMono, BackedMono DEF BrokerOK
<1>3. jpc[c] = "complete" => HasRun(Own(c))'
  BY MessageTask DEF BrokerOK, Own, Mono, HasRun
<1>4. jsaga[c] => Own(c)' \in faulted'
  BY DEF BrokerOK, Own, Mono
<1>. QED BY <1>1, <1>2, <1>3, <1>4 DEF BrokerOK, Good, Backed

LEMMA WorkerFrame ==
  ASSUME Mono, NEW n \in Nodes, WorkerOK(n),
         npc'[n] = npc[n], nmsg'[n] = nmsg[n], nsaga'[n] = nsaga[n],
         ntodo'[n] = ntodo[n], nwf'[n] = nwf[n],
         npc[n] # "idle" => nmsg[n] \in Message
  PROVE  WorkerOK(n)'
<1>1. npc[n] # "idle" => Good(nmsg[n])'
  BY GoodMono DEF WorkerOK
<1>2. /\ \A m \in ntodo[n] : Good(m)'
      /\ Backed(nwf[n])'
  BY GoodMono, BackedMono DEF WorkerOK
<1>3. npc[n] = "complete" => HasRun(Mine(n))'
  BY MessageTask DEF WorkerOK, Mine, Mono, HasRun
<1>4. nsaga[n] => Mine(n)' \in faulted'
  BY DEF WorkerOK, Mine, Mono
<1>. QED BY <1>1, <1>2, <1>3, <1>4 DEF WorkerOK, Good, Backed

---------------------------------------------------------------------------
(* One lemma for each way a step leaves or changes a part of the state. *)

LEMMA RunsSame ==
  ASSUME Mono, InvRuns, runs' = runs
  PROVE  InvRuns'
BY AllowedMono DEF InvRuns, HasRun

LEMMA RunsMore ==
  ASSUME runs \in [Tasks -> 0 .. 2], Mono, InvRuns,
         NEW u \in Tasks, Allowed(u), Ran(u)
  PROVE  InvRuns'
<1> SUFFICES ASSUME NEW t \in Tasks, HasRun(t)'
             PROVE  Allowed(t)'
  BY DEF InvRuns
<1>1. HasRun(t) \/ t = u
  BY RanMono
<1>2. Allowed(t)
  BY <1>1 DEF InvRuns
<1>. QED BY <1>2, AllowedMono

LEMMA RowsSame ==
  ASSUME Mono, InvRows, st' = st, gpc' = gpc
  PROVE  InvRows'
<1> SUFFICES ASSUME NEW t \in Tasks
             PROVE  /\ st[t] = "COMPLETED" => HasRun(t)'
                    /\ st[t] = "FAILED" => t \in faulted'
                    /\ gpc # "ready" => st[t] # "NONE"
  BY DEF InvRows
<1>. QED BY DEF InvRows, Mono

LEMMA RowsSet ==
  ASSUME st \in [Tasks -> Status], Mono, InvRows, gpc' = gpc,
         NEW t \in Tasks, NEW s \in {"RUNNING", "COMPLETED", "FAILED"},
         st' = [st EXCEPT ![t] = s],
         s = "COMPLETED" => HasRun(t)',
         s = "FAILED" => t \in faulted'
  PROVE  InvRows'
<1> SUFFICES ASSUME NEW u \in Tasks
             PROVE  /\ st'[u] = "COMPLETED" => HasRun(u)'
                    /\ st'[u] = "FAILED" => u \in faulted'
                    /\ gpc # "ready" => st'[u] # "NONE"
  BY DEF InvRows
<1>. QED BY DEF InvRows, Mono

LEMMA QueuesSame ==
  ASSUME Mono, InvQueues, queue' = queue, gtodo' \subseteq gtodo
  PROVE  InvQueues'
BY GoodMono DEF InvQueues

LEMMA QueuesChange ==
  ASSUME Mono, InvQueues, gtodo' \subseteq gtodo,
         NEW q \in Queues, NEW s \in Seq(Message),
         queue \in [Queues -> Seq(Message)],
         queue' = [queue EXCEPT ![q] = s],
         \A i \in 1 .. Len(s) : Good(s[i])
  PROVE  InvQueues'
<1>1. \A m \in gtodo' : Good(m)'
  BY GoodMono DEF InvQueues
<1>2. ASSUME NEW p \in Queues, NEW i \in 1 .. Len(queue'[p])
      PROVE  Good(queue[p][i])'
  <2>1. CASE p = q
    BY <2>1, GoodMono
  <2>2. CASE p # q
    BY <2>2, GoodMono DEF InvQueues
  <2>. QED BY <2>1, <2>2
<1>. QED BY <1>1, <1>2 DEF InvQueues

LEMMA QueueSend ==
  ASSUME Mono, InvQueues, gtodo' \subseteq gtodo,
         queue \in [Queues -> Seq(Message)],
         NEW m, Good(m), Send(m)
  PROVE  InvQueues'
<1>1. CASE m.queue \notin Queues
  BY <1>1, QueuesSame DEF Send
<1>2. CASE m.queue \in Queues
  <2>. DEFINE s == Append(queue[m.queue], m)
  <2>1. queue[m.queue] \in Seq(Message) /\ m \in Message
    BY <1>2 DEF Good
  <2>2. /\ s \in Seq(Message)
        /\ Len(s) = Len(queue[m.queue]) + 1
        /\ \A i \in 1 .. Len(queue[m.queue]) : s[i] = queue[m.queue][i]
        /\ s[Len(queue[m.queue]) + 1] = m
    BY <2>1, AppendProperties
  <2>3. Len(queue[m.queue]) \in Nat
    BY <2>1, LenProperties
  <2>4. \A i \in 1 .. Len(s) : Good(s[i])
    BY <1>2, <2>2, <2>3 DEF InvQueues
  <2>5. queue' = [queue EXCEPT ![m.queue] = s]
    BY <1>2 DEF Send
  <2>. HIDE DEF s
  <2>. QED BY <1>2, <2>2, <2>4, <2>5, QueuesChange
<1>. QED BY <1>1, <1>2

LEMMA QueueRequeue ==
  ASSUME Mono, InvQueues, gtodo' \subseteq gtodo,
         queue \in [Queues -> Seq(Message)],
         NEW m, Good(m), Requeue(m)
  PROVE  InvQueues'
<1>1. CASE m.queue \notin Queues
  <2>1. queue' = queue
    BY <1>1 DEF Requeue
  <2>. QED BY <2>1, QueuesSame
<1>2. CASE m.queue \in Queues
  <2>. DEFINE old == queue[m.queue]
              s == <<m>> \o old
  <2>1. old \in Seq(Message) /\ m \in Message /\ <<m>> \in Seq(Message)
    BY <1>2 DEF Good
  <2>2. Len(old) \in Nat /\ Len(<<m>>) = 1 /\ <<m>>[1] = m
    BY <2>1, LenProperties
  <2>3. /\ s \in Seq(Message)
        /\ Len(s) = Len(old) + 1
        /\ \A i \in 1 .. Len(s) : s[i] = IF i <= 1 THEN <<m>>[i] ELSE old[i - 1]
    BY <2>1, <2>2, ConcatProperties
  <2>4. \A i \in 1 .. Len(s) : Good(s[i])
    <3>. TAKE i \in 1 .. Len(s)
    <3>1. CASE i = 1
      BY <3>1, <2>2, <2>3
    <3>2. CASE i # 1
      <4>1. i - 1 \in 1 .. Len(old) /\ s[i] = old[i - 1]
        BY <3>2, <2>2, <2>3
      <4>. QED BY <1>2, <4>1 DEF InvQueues
    <3>. QED BY <3>1, <3>2
  <2>5. queue' = [queue EXCEPT ![m.queue] = s]
    BY <1>2 DEF Requeue
  <2>. HIDE DEF s, old
  <2>. QED BY <1>2, <2>3, <2>4, <2>5, QueuesChange
<1>. QED BY <1>1, <1>2

LEMMA QueueTake ==
  ASSUME Mono, InvQueues, gtodo' \subseteq gtodo,
         queue \in [Queues -> Seq(Message)],
         NEW q \in Queues, queue[q] # <<>>,
         queue' = [queue EXCEPT ![q] = Tail(@)],
         NEW m, m = Head(queue[q])
  PROVE  InvQueues' /\ Good(m)'
<1>1. queue[q] \in Seq(Message)
  OBVIOUS
<1>2. /\ Len(queue[q]) \in Nat \ {0}
      /\ Head(queue[q]) = queue[q][1]
      /\ Tail(queue[q]) \in Seq(Message)
      /\ Len(Tail(queue[q])) = Len(queue[q]) - 1
      /\ \A i \in 1 .. Len(Tail(queue[q])) : Tail(queue[q])[i] = queue[q][i + 1]
  BY <1>1, HeadTailProperties, EmptySeq, LenProperties
<1>3. Good(Head(queue[q]))
  BY <1>2 DEF InvQueues
<1>4. \A i \in 1 .. Len(Tail(queue[q])) : Good(Tail(queue[q])[i])
  BY <1>2 DEF InvQueues
<1>. QED BY <1>2, <1>3, <1>4, GoodMono, QueuesChange

LEMMA OutcomeSame ==
  ASSUME Mono, InvOutcome, wf' = wf, gpc' = gpc
  PROVE  InvOutcome'
BY BackedMono DEF InvOutcome

LEMMA OutcomeSet ==
  ASSUME Mono, gpc # "ready", gpc' = gpc, wf' # "NONE", Backed(wf)'
  PROVE  InvOutcome'
BY DEF InvOutcome

---------------------------------------------------------------------------
(* The broker. *)

LEMMA MonoStep ==
  ASSUME TypeOK,
         runs' = runs \/ \E u \in Tasks : Ran(u),
         faulted \subseteq faulted',
         gpc # "ready" => gpc' # "ready",
         faults' = faults \/ faults' = faults + 1
  PROVE  Mono
<1>1. \A t \in Tasks : HasRun(t) => HasRun(t)'
  <2>1. CASE runs' = runs
    BY <2>1 DEF HasRun
  <2>2. CASE \E u \in Tasks : Ran(u)
    BY <2>2, RanMono DEF TypeOK, StoreTypeOK
  <2>. QED BY <2>1, <2>2
<1>2. faults > 0 => faults' > 0
  BY DEF TypeOK, StoreTypeOK
<1>. QED BY <1>1, <1>2 DEF Mono

LEMMA OwnTask ==
  ASSUME TypeOK, NEW c \in Consumers, jpc[c] # "idle"
  PROVE  Own(c) \in Tasks /\ jmsg[c] \in Message
BY MessageTask DEF TypeOK, BrokerTypeOK, Own

LEMMA BrokerMono ==
  ASSUME TypeOK, NEW c \in Consumers, BrokerStep(c) \/ BrokerFault(c),
         UNCHANGED gateVars
  PROVE  Mono
<1>1. runs' = runs \/ \E u \in Tasks : Ran(u)
  <2>1. CASE BrokerExecute(c)
    BY <2>1, OwnTask DEF BrokerExecute
  <2>2. CASE ~BrokerExecute(c)
    BY <2>2 DEF BrokerStep, BrokerFault, BrokerDeliver, BrokerLock, BrokerLockTimeout,
      BrokerCheck, BrokerMarkRunning, BrokerRefuse, BrokerComplete,
      BrokerReadWorkflow, BrokerReadTasks, BrokerTrigger, BrokerPublish,
      BrokerSaveWorkflow, BrokerFailTask, BrokerFailWorkflow, BrokerCompensate,
      BrokerFinish, BrokerError, BrokerPublishFails, BrokerCrash,
      BrokerRedeliver, storeVars
  <2>. QED BY <2>1, <2>2
<1>2. faulted \subseteq faulted'
  BY DEF BrokerStep, BrokerFault, BrokerDeliver, BrokerLock, BrokerLockTimeout,
      BrokerCheck, BrokerMarkRunning, BrokerExecute, BrokerRefuse, BrokerComplete,
      BrokerReadWorkflow, BrokerReadTasks, BrokerTrigger, BrokerPublish,
      BrokerSaveWorkflow, BrokerFailTask, BrokerFailWorkflow, BrokerCompensate,
      BrokerFinish, BrokerError, BrokerPublishFails, BrokerCrash,
      BrokerRedeliver, storeVars, EnterFailure
<1>3. faults' = faults \/ faults' = faults + 1
  BY DEF BrokerStep, BrokerFault, BrokerDeliver, BrokerLock, BrokerLockTimeout,
      BrokerCheck, BrokerMarkRunning, BrokerExecute, BrokerRefuse, BrokerComplete,
      BrokerReadWorkflow, BrokerReadTasks, BrokerTrigger, BrokerPublish,
      BrokerSaveWorkflow, BrokerFailTask, BrokerFailWorkflow, BrokerCompensate,
      BrokerFinish, BrokerError, BrokerPublishFails, BrokerCrash,
      BrokerRedeliver, storeVars, Fault
<1>. QED BY <1>1, <1>2, <1>3, MonoStep DEF gateVars

\* A thread's step leaves the other threads alone.
BrokerSame(d) ==
  /\ jpc'[d] = jpc[d] /\ jmsg'[d] = jmsg[d] /\ jheld'[d] = jheld[d]
  /\ jsaga'[d] = jsaga[d] /\ jwf'[d] = jwf[d] /\ jtodo'[d] = jtodo[d]
  /\ jcur'[d] = jcur[d]

LEMMA BrokerAlone ==
  ASSUME NEW c \in Consumers, BrokerStep(c) \/ BrokerFault(c),
         NEW d \in Consumers, d # c, BrokerTypeOK
  PROVE  BrokerSame(d)
<1>. USE DEF BrokerSame, BrokerTypeOK, delivery, work, Goto
<1>1. CASE BrokerDeliver(c)
  BY <1>1 DEF BrokerDeliver
<1>2. CASE BrokerLock(c) \/ BrokerLockTimeout(c) \/ BrokerCheck(c)
  BY <1>2 DEF BrokerLock, BrokerLockTimeout, BrokerCheck
<1>3. CASE BrokerMarkRunning(c) \/ BrokerExecute(c) \/ BrokerComplete(c)
  BY <1>3 DEF BrokerMarkRunning, BrokerExecute, BrokerComplete
<1>4. CASE BrokerRefuse(c)
  BY <1>4 DEF BrokerRefuse, EnterFailure
<1>5. CASE BrokerReadWorkflow(c)
  BY <1>5 DEF BrokerReadWorkflow
<1>6. CASE BrokerReadTasks(c)
  BY <1>6 DEF BrokerReadTasks
<1>7. CASE BrokerTrigger(c) \/ BrokerPublish(c)
  BY <1>7 DEF BrokerTrigger, BrokerPublish
<1>8. CASE BrokerSaveWorkflow(c) \/ BrokerFailTask(c) \/ BrokerFailWorkflow(c)
  BY <1>8 DEF BrokerSaveWorkflow, BrokerFailTask, BrokerFailWorkflow
<1>9. CASE BrokerCompensate(c)
  BY <1>9 DEF BrokerCompensate
<1>10. CASE BrokerFinish(c)
  BY <1>10 DEF BrokerFinish, Reset
<1>11. CASE BrokerError(c)
  BY <1>11 DEF BrokerError, EnterFailure, EnterRescue
<1>12. CASE BrokerPublishFails(c)
  BY <1>12 DEF BrokerPublishFails, EnterRescue
<1>13. CASE BrokerCrash(c)
  BY <1>13 DEF BrokerCrash, Reset
<1>14. CASE BrokerRedeliver(c)
  BY <1>14 DEF BrokerRedeliver
<1>. QED
  BY <1>1, <1>2, <1>3, <1>4, <1>5, <1>6, <1>7, <1>8, <1>9, <1>10, <1>11, <1>12,
     <1>13, <1>14 DEF BrokerStep, BrokerFault

LEMMA BrokerOthers ==
  ASSUME TypeOK, Mono, InvBroker, NEW c \in Consumers,
         BrokerStep(c) \/ BrokerFault(c), BrokerOK(c)'
  PROVE  InvBroker'
<1> SUFFICES ASSUME NEW d \in Consumers, d # c PROVE BrokerOK(d)'
  BY DEF InvBroker
<1>1. BrokerSame(d)
  BY BrokerAlone DEF TypeOK
<1>2. jpc[d] # "idle" => jmsg[d] \in Message
  BY DEF TypeOK, BrokerTypeOK
<1>. QED BY <1>1, <1>2, BrokerFrame DEF InvBroker, BrokerSame

LEMMA CallbacksUntouched ==
  ASSUME TypeOK, Mono, InvWorker, UNCHANGED callbackVars
  PROVE  InvWorker'
<1> SUFFICES ASSUME NEW n \in Nodes PROVE WorkerOK(n)'
  BY DEF InvWorker
<1>. QED BY WorkerFrame DEF TypeOK, WorkerTypeOK, InvWorker, callbackVars, txData

LEMMA WorkerUntouched ==
  ASSUME TypeOK, Mono, InvWorker, UNCHANGED workerVars
  PROVE  InvWorker'
BY CallbacksUntouched DEF workerVars

LEMMA BrokerUntouched ==
  ASSUME TypeOK, Mono, InvBroker, UNCHANGED <<jpc, delivery, work>>
  PROVE  InvBroker'
<1> SUFFICES ASSUME NEW d \in Consumers PROVE BrokerOK(d)'
  BY DEF InvBroker
<1>. QED BY BrokerFrame DEF TypeOK, BrokerTypeOK, InvBroker, delivery, work

\* A step that only moves the thread on, to a point that asks for nothing new.
LEMMA BrokerAdvance ==
  ASSUME TypeOK, Mono, NEW c \in Consumers, BrokerOK(c), jpc[c] # "idle",
         jmsg' = jmsg, jheld' = jheld, jsaga' = jsaga, jwf' = jwf,
         jtodo' = jtodo, jcur' = jcur,
         jpc'[c] \in {"check", "run", "exec", "readwf", "readtasks", "finish"}
  PROVE  BrokerOK(c)'
<1>1. Good(jmsg[c])'
  BY GoodMono DEF BrokerOK
<1>2. (\A m \in jtodo[c] : Good(m)') /\ Backed(jwf[c])'
  BY GoodMono, BackedMono DEF BrokerOK
<1>3. jsaga[c] => Own(c)' \in faulted'
  BY DEF BrokerOK, Own, Mono
<1>. QED BY <1>1, <1>2, <1>3 DEF BrokerOK, FailurePoints

\* What a message that is in hands allows.
LEMMA GoodTask ==
  ASSUME NEW m, Good(m)
  PROVE  m.task \in Tasks /\ Allowed(m.task) /\ gpc # "ready"
BY MessageTask DEF Good

LEMMA TriggersGood ==
  ASSUME TypeOK, InvRows, gpc # "ready", NEW t \in Ready(st)
  PROVE  Good(TaskMessage(t))
<1>1. t \in Tasks /\ SagaFail \notin Deps(t) /\ \A d \in Deps(t) : st[d] = "COMPLETED"
  BY DEF Ready, DepsMet
<1>2. Allowed(t)
  BY <1>1, DepsType DEF InvRows, Allowed
<1>. QED BY <1>1, <1>2, TaskMessageType DEF Good, TaskMessage

LEMMA CompensationsGood ==
  ASSUME InvRows, gpc # "ready", faulted # {}, NEW o \in Tasks, HasRun(o),
         Comp(o) # NoTask
  PROVE  Good(CompensationMessage(o)) /\ Good(WorkerCompensation(o))
<1>1. CalledFor(Comp(o))
  BY DEF CalledFor
<1>. QED
  BY <1>1, CompensationType DEF Good, Allowed, CompensationMessage, WorkerCompensation

LEMMA SettledAttempted ==
  ASSUME TypeOK, InvRows, gpc # "ready", AllSettled(st)
  PROVE  Attempted
<1> SUFFICES ASSUME NEW t \in Tasks PROVE HasRun(t) \/ t \in faulted
  BY DEF Attempted
<1>1. st[t] \in {"COMPLETED", "FAILED"}
  BY DEF TypeOK, StoreTypeOK, Status, InvRows, AllSettled
<1>. QED BY <1>1 DEF InvRows

LEMMA BrokerStepInductive ==
  ASSUME IInv, NEW c \in Consumers, BrokerStep(c), UNCHANGED <<gateVars, workerVars>>
  PROVE  /\ InvRuns' /\ InvRows' /\ InvQueues' /\ InvBroker' /\ InvWorker'
         /\ InvOutcome'
<1>. USE DEF IInv
<1>1. Mono
  BY BrokerMono
<1>2. InvWorker'
  BY <1>1, WorkerUntouched
<1>3. ASSUME BrokerOK(c)' PROVE InvBroker'
  BY <1>1, <1>3, BrokerOthers
<1>4. BrokerOK(c)
  BY DEF InvBroker
<1>5. jpc[c] # "idle" => /\ Own(c) \in Tasks /\ Allowed(Own(c)) /\ gpc # "ready"
  BY <1>4, GoodTask DEF BrokerOK, Own
<1>6. gpc' = gpc /\ gtodo' \subseteq gtodo
  BY DEF gateVars
<1>7. /\ queue \in [Queues -> Seq(Message)] /\ st \in [Tasks -> Status]
      /\ runs \in [Tasks -> 0 .. 2] /\ BrokerTypeOK
  BY DEF TypeOK, StoreTypeOK
<1>8. /\ runs' = runs => InvRuns'
      /\ st' = st => InvRows'
      /\ queue' = queue => InvQueues'
      /\ wf' = wf => InvOutcome'
  BY <1>1, <1>6, RunsSame, RowsSame, QueuesSame, OutcomeSame
<1>9. /\ \A m \in jtodo[c] : Good(m)'
      /\ \A s : Backed(s) => Backed(s)'
      /\ \A m : Good(m) => Good(m)'
      /\ jsaga[c] => Own(c) \in faulted'
      /\ Backed(jwf[c])
  BY <1>1, <1>4, GoodMono, BackedMono DEF BrokerOK, Mono
<1>. USE DEF Goto, delivery, work, storeVars, FailurePoints, BrokerTypeOK
<1>10. CASE BrokerDeliver(c)
  <2>1. InvQueues' /\ Good(jmsg[c])'
    BY <1>1, <1>6, <1>7, <1>10, QueueTake DEF BrokerDeliver, Queues
  <2>2. BrokerOK(c)'
    BY <1>4, <1>7, <1>9, <1>10, <2>1 DEF BrokerDeliver, BrokerOK
  <2>. QED BY <1>2, <1>3, <1>8, <1>10, <2>1, <2>2 DEF BrokerDeliver
<1>11. CASE BrokerLock(c) \/ BrokerLockTimeout(c) \/ BrokerCheck(c)
  <2>1. BrokerOK(c)'
    BY <1>1, <1>4, <1>7, <1>11, BrokerAdvance
       DEF BrokerLock, BrokerLockTimeout, BrokerCheck
  <2>. QED
    BY <1>2, <1>3, <1>8, <1>11, <2>1 DEF BrokerLock, BrokerLockTimeout, BrokerCheck
<1>12. CASE BrokerMarkRunning(c)
  <2>1. BrokerOK(c)'
    BY <1>1, <1>4, <1>7, <1>12, BrokerAdvance DEF BrokerMarkRunning
  <2>2. InvRows'
    BY <1>1, <1>5, <1>6, <1>7, <1>12, RowsSet DEF BrokerMarkRunning, SaveTask
  <2>. QED BY <1>2, <1>3, <1>8, <1>12, <2>1, <2>2 DEF BrokerMarkRunning
<1>13. CASE BrokerExecute(c)
  <2>1. InvRuns' /\ HasRun(Own(c))'
    <3>1. \A u \in Tasks : u = Own(c) => HasRun(u)'
      BY <1>7, <1>13, RanMono DEF BrokerExecute
    <3>2. InvRuns'
      BY <1>1, <1>5, <1>7, <1>13, RunsMore DEF BrokerExecute
    <3>. QED BY <1>5, <1>13, <3>1, <3>2 DEF BrokerExecute, HasRun, Own
  <2>2. BrokerOK(c)'
    BY <1>4, <1>7, <1>9, <1>13, <2>1 DEF BrokerExecute, BrokerOK, Own
  <2>. QED BY <1>2, <1>3, <1>8, <1>13, <2>1, <2>2 DEF BrokerExecute
<1>14. CASE BrokerRefuse(c)
  <2>1. BrokerOK(c)'
    BY <1>4, <1>7, <1>9, <1>14 DEF BrokerRefuse, EnterFailure, BrokerOK, Own
  <2>. QED BY <1>2, <1>3, <1>8, <1>14, <2>1 DEF BrokerRefuse
<1>15. CASE BrokerComplete(c)
  <2>1. BrokerOK(c)'
    BY <1>1, <1>4, <1>7, <1>15, BrokerAdvance DEF BrokerComplete
  <2>2. HasRun(Own(c)) /\ Own(c) \in Tasks
    BY <1>4, <1>5, <1>15 DEF BrokerComplete, BrokerOK
  <2>3. \A u \in Tasks : HasRun(u) => HasRun(u)'
    BY <1>1 DEF Mono
  <2>4. InvRows'
    BY <1>1, <1>6, <1>7, <1>15, <2>2, <2>3, RowsSet DEF BrokerComplete, SaveTask
  <2>. QED BY <1>2, <1>3, <1>8, <1>15, <2>1, <2>4 DEF BrokerComplete
<1>16. CASE BrokerReadWorkflow(c)
  <2>1. Backed(wf)
    BY DEF InvOutcome
  <2>2. BrokerOK(c)'
    BY <1>4, <1>7, <1>9, <1>16, <2>1 DEF BrokerReadWorkflow, BrokerOK, Own
  <2>. QED BY <1>2, <1>3, <1>8, <1>16, <2>2 DEF BrokerReadWorkflow
<1>17. CASE BrokerReadTasks(c)
  <2>1. gpc # "ready" /\ Good(jmsg[c])'
    BY <1>4, <1>5, <1>9, <1>17 DEF BrokerReadTasks, BrokerOK
  <2>2. \A t \in Ready(st) : Good(TaskMessage(t))
    BY <2>1, TriggersGood
  <2>3. AllSettled(st) => Backed("COMPLETED")
    BY <2>1, SettledAttempted DEF Backed
  <2>4. jwf[c] = "COMPENSATING" => Backed("FAILED")
    BY <1>9 DEF Backed
  <2>5. \A m \in jtodo'[c] : Good(m)'
    BY <1>7, <1>9, <1>17, <2>2 DEF BrokerReadTasks
  <2>6. Backed(jwf'[c]) /\ (jpc'[c] = "savewf" => jwf'[c] \in {"COMPLETED", "FAILED"})
    BY <1>7, <1>9, <1>17, <2>3, <2>4 DEF BrokerReadTasks
  <2>7. jpc'[c] \in {"finish", "savewf", "trigger"} /\ jmsg' = jmsg /\ jheld' = jheld
        /\ jsaga' = jsaga /\ faulted' = faulted
    BY <1>7, <1>17 DEF BrokerReadTasks
  <2>8. BrokerOK(c)'
    BY <1>9, <2>1, <2>5, <2>6, <2>7 DEF BrokerOK, Own
  <2>. QED BY <1>2, <1>3, <1>8, <1>17, <2>8 DEF BrokerReadTasks
<1>18. CASE BrokerTrigger(c)
  <2>1. PICK m \in jtodo[c] : /\ SaveTask(m.task, "RUNNING")
                              /\ jcur' = [jcur EXCEPT ![c] = m]
                              /\ jtodo' = [jtodo EXCEPT ![c] = @ \ {m}]
    BY <1>18 DEF BrokerTrigger
  <2>2. Good(m) /\ m.task \in Tasks
    BY <1>4, GoodTask DEF BrokerOK
  <2>3. InvRows'
    BY <1>1, <1>6, <1>7, <2>1, <2>2, RowsSet DEF SaveTask
  <2>4. BrokerOK(c)'
    BY <1>4, <1>7, <1>9, <1>18, <2>1, <2>2 DEF BrokerTrigger, BrokerOK, Own
  <2>. QED BY <1>2, <1>3, <1>8, <1>18, <2>3, <2>4 DEF BrokerTrigger
<1>19. CASE BrokerPublish(c)
  <2>1. Good(jcur[c])
    BY <1>4, <1>19 DEF BrokerPublish, BrokerOK
  <2>2. InvQueues'
    BY <1>1, <1>6, <1>7, <1>19, <2>1, QueueSend DEF BrokerPublish
  <2>3. BrokerOK(c)'
    BY <1>4, <1>7, <1>9, <1>19 DEF BrokerPublish, BrokerOK, Own
  <2>. QED BY <1>2, <1>3, <1>8, <1>19, <2>2, <2>3 DEF BrokerPublish
<1>20. CASE BrokerSaveWorkflow(c)
  <2>1. BrokerOK(c)'
    BY <1>1, <1>4, <1>7, <1>20, BrokerAdvance DEF BrokerSaveWorkflow
  <2>2. wf' = jwf[c] /\ wf' # "NONE" /\ gpc # "ready"
    BY <1>4, <1>5, <1>20 DEF BrokerSaveWorkflow, SaveWorkflow, BrokerOK
  <2>3. InvOutcome'
    BY <1>1, <1>6, <1>9, <2>2, OutcomeSet
  <2>. QED BY <1>2, <1>3, <1>8, <1>20, <2>1, <2>3 DEF BrokerSaveWorkflow
<1>21. CASE BrokerFailTask(c)
  <2>1. jsaga[c] /\ Own(c) \in Tasks
    BY <1>4, <1>5, <1>21 DEF BrokerFailTask, BrokerOK
  <2>2. BrokerOK(c)'
    BY <1>4, <1>7, <1>9, <1>21, <2>1 DEF BrokerFailTask, BrokerOK, Own
  <2>3. InvRows'
    BY <1>1, <1>6, <1>7, <1>9, <1>21, <2>1, RowsSet DEF BrokerFailTask, SaveTask
  <2>. QED BY <1>2, <1>3, <1>8, <1>21, <2>2, <2>3 DEF BrokerFailTask
<1>22. CASE BrokerFailWorkflow(c)
  <2>1. jsaga[c] /\ faulted # {} /\ gpc # "ready"
    BY <1>4, <1>5, <1>22 DEF BrokerFailWorkflow, BrokerOK
  <2>2. Backed("COMPENSATING")
    BY <2>1 DEF Backed
  <2>3. BrokerOK(c)'
    BY <1>4, <1>7, <1>9, <1>22, <2>1, <2>2 DEF BrokerFailWorkflow, BrokerOK, Own
  <2>4. InvOutcome'
    BY <1>1, <1>6, <1>9, <1>22, <2>1, <2>2, OutcomeSet
       DEF BrokerFailWorkflow, SaveWorkflow
  <2>. QED BY <1>2, <1>3, <1>8, <1>22, <2>3, <2>4 DEF BrokerFailWorkflow
<1>23. CASE BrokerCompensate(c)
  <2>1. jsaga[c] /\ faulted # {} /\ gpc # "ready"
    BY <1>4, <1>5, <1>23 DEF BrokerCompensate, BrokerOK
  <2>2. \A o \in Compensable(st) : Good(CompensationMessage(o))
    BY <2>1, CompensationsGood DEF Compensable, InvRows
  <2>3. \A m \in jtodo'[c] : Good(m)'
    BY <1>7, <1>9, <1>23, <2>2 DEF BrokerCompensate
  <2>4. Backed("FAILED")
    BY <2>1 DEF Backed
  <2>5. Backed(jwf'[c]) /\ (jpc'[c] = "savewf" => jwf'[c] = "FAILED")
    BY <1>7, <1>9, <1>23, <2>4 DEF BrokerCompensate
  <2>6. jpc'[c] \in {"savewf", "trigger"} /\ jmsg' = jmsg /\ jsaga' = jsaga
        /\ faulted' = faulted
    BY <1>7, <1>23 DEF BrokerCompensate
  <2>7. BrokerOK(c)'
    BY <1>4, <1>9, <1>23, <2>3, <2>5, <2>6 DEF BrokerCompensate, BrokerOK, Own
  <2>. QED BY <1>2, <1>3, <1>8, <1>23, <2>7 DEF BrokerCompensate
<1>24. CASE BrokerFinish(c)
  <2>1. Backed("NONE")
    BY DEF Backed
  <2>2. BrokerOK(c)'
    BY <1>7, <1>9, <1>24, <2>1 DEF BrokerFinish, Reset, BrokerOK
  <2>. QED BY <1>2, <1>3, <1>8, <1>24, <2>2 DEF BrokerFinish
<1>. QED
  BY <1>10, <1>11, <1>12, <1>13, <1>14, <1>15, <1>16, <1>17, <1>18, <1>19, <1>20,
     <1>21, <1>22, <1>23, <1>24 DEF BrokerStep

LEMMA BrokerFaultInductive ==
  ASSUME IInv, NEW c \in Consumers, BrokerFault(c), UNCHANGED <<gateVars, workerVars>>
  PROVE  /\ InvRuns' /\ InvRows' /\ InvQueues' /\ InvBroker' /\ InvWorker'
         /\ InvOutcome'
<1>. USE DEF IInv
<1>1. Mono
  BY BrokerMono
<1>2. InvWorker'
  BY <1>1, WorkerUntouched
<1>3. ASSUME BrokerOK(c)' PROVE InvBroker'
  BY <1>1, <1>3, BrokerOthers
<1>4. BrokerOK(c)
  BY DEF InvBroker
<1>5. /\ gpc' = gpc /\ gtodo' \subseteq gtodo
      /\ queue \in [Queues -> Seq(Message)] /\ BrokerTypeOK /\ faults \in Nat
  BY DEF gateVars, TypeOK, StoreTypeOK
<1>6. /\ runs' = runs => InvRuns'
      /\ st' = st => InvRows'
      /\ queue' = queue => InvQueues'
      /\ wf' = wf => InvOutcome'
  BY <1>1, <1>5, RunsSame, RowsSame, QueuesSame, OutcomeSame
<1>7. /\ \A m \in jtodo[c] : Good(m)'
      /\ \A s : Backed(s) => Backed(s)'
      /\ \A m : Good(m) => Good(m)'
      /\ jsaga[c] => Own(c) \in faulted'
      /\ Backed(jwf[c])
  BY <1>1, <1>4, GoodMono, BackedMono DEF BrokerOK, Mono
<1>8. faults' > 0 => Backed("FAILED")'
  BY DEF Backed
<1>. USE DEF Goto, delivery, work, FailurePoints, ProcessPoints, BrokerTypeOK
<1>9. CASE BrokerError(c)
  <2>1. faults' > 0
    BY <1>5, <1>9 DEF BrokerError, Fault
  <2>2. jpc[c] # "idle"
    BY <1>9 DEF BrokerError
  <2>3. ASSUME EnterFailure(c), UNCHANGED jwf PROVE BrokerOK(c)'
    BY <1>4, <1>5, <1>7, <1>9, <2>2, <2>3 DEF BrokerError, EnterFailure, BrokerOK, Own
  <2>4. ASSUME EnterRescue(c), UNCHANGED <<jsaga, faulted>> PROVE BrokerOK(c)'
    BY <1>4, <1>5, <1>7, <1>8, <1>9, <2>1, <2>2, <2>4
       DEF BrokerError, EnterRescue, BrokerOK, Own
  <2>5. ASSUME Goto(c, "finish"), UNCHANGED <<work, faulted>> PROVE BrokerOK(c)'
    BY <1>1, <1>4, <1>5, <1>9, <2>2, <2>5, BrokerAdvance DEF BrokerError
  <2>6. BrokerOK(c)'
    BY <1>9, <2>3, <2>4, <2>5 DEF BrokerError
  <2>. QED BY <1>2, <1>3, <1>6, <1>9, <2>6 DEF BrokerError
<1>10. CASE BrokerPublishFails(c)
  <2>1. faults' > 0
    BY <1>5, <1>10 DEF BrokerPublishFails, Fault
  <2>2. BrokerOK(c)'
    BY <1>4, <1>5, <1>7, <1>8, <1>10, <2>1
       DEF BrokerPublishFails, EnterRescue, BrokerOK, Own
  <2>. QED BY <1>2, <1>3, <1>6, <1>10, <2>2 DEF BrokerPublishFails
<1>11. CASE BrokerCrash(c)
  <2>1. Backed("NONE")
    BY DEF Backed
  <2>2. BrokerOK(c)'
    BY <1>5, <1>7, <1>11, <2>1 DEF BrokerCrash, Reset, BrokerOK
  <2>3. Good(jmsg[c])
    BY <1>4, <1>11 DEF BrokerCrash, BrokerOK
  <2>4. InvQueues'
    BY <1>1, <1>5, <1>6, <1>11, <2>3, QueueRequeue DEF BrokerCrash
  <2>. QED BY <1>2, <1>3, <1>6, <1>11, <2>2, <2>4 DEF BrokerCrash
<1>12. CASE BrokerRedeliver(c)
  <2>1. jpc[c] # "idle" /\ Good(jmsg[c])
    BY <1>4, <1>12 DEF BrokerRedeliver, BrokerOK
  <2>2. BrokerOK(c)'
    BY <1>4, <1>5, <1>7, <1>12, <2>1, MessageTask
       DEF BrokerRedeliver, BrokerOK, Own, HasRun
  <2>3. InvQueues'
    BY <1>1, <1>5, <1>12, <2>1, QueueRequeue DEF BrokerRedeliver
  <2>. QED BY <1>2, <1>3, <1>6, <1>12, <2>2, <2>3 DEF BrokerRedeliver
<1>. QED BY <1>9, <1>10, <1>11, <1>12 DEF BrokerFault

LEMMA LocksInductive ==
  ASSUME IInv, (\E t \in Tasks : LockExpire(t)) \/ RedisRestart,
         UNCHANGED <<gateVars, workerVars>>
  PROVE  /\ InvRuns' /\ InvRows' /\ InvQueues' /\ InvBroker' /\ InvWorker'
         /\ InvOutcome'
<1>. USE DEF IInv, gateVars
<1>1. /\ UNCHANGED <<wf, st, queue, runs, faulted, jpc, delivery, work>>
      /\ faults' = faults \/ faults' = faults + 1
  BY DEF LockExpire, RedisRestart, storeVars, Fault
<1>2. Mono
  BY <1>1, MonoStep
<1>3. InvBroker' /\ InvWorker'
  BY <1>1, <1>2, BrokerUntouched, WorkerUntouched
<1>. QED BY <1>1, <1>2, <1>3, RunsSame, RowsSame, QueuesSame, OutcomeSame

---------------------------------------------------------------------------
(* The worker. *)

LEMMA MineTask ==
  ASSUME TypeOK, NEW n \in Nodes, npc[n] # "idle"
  PROVE  Mine(n) \in Tasks /\ nmsg[n] \in Message
BY MessageTask DEF TypeOK, WorkerTypeOK, Mine

LEMMA WorkerMono ==
  ASSUME TypeOK, NEW n \in Nodes, WorkerStep(n) \/ WorkerFault(n),
         UNCHANGED gateVars
  PROVE  Mono
<1>. USE DEF WorkerStep, WorkerFault, WorkerDeliver, WorkerCheck, WorkerMarkRunning,
      WorkerExecuteFails, WorkerFatalCrash, WorkerComplete, WorkerReadDag,
      WorkerFailTask, WorkerFailWorkflow, WorkerPublish, WorkerCommit, WorkerAck,
      WorkerUnsupported, WorkerDeadlockVictim, WorkerError, WorkerPublishFails,
      WorkerCrash, storeVars
<1>1. runs' = runs \/ \E u \in Tasks : Ran(u)
  <2>1. CASE WorkerExecute(n)
    BY <2>1, MineTask DEF WorkerExecute
  <2>2. CASE ~WorkerExecute(n)
    BY <2>2
  <2>. QED BY <2>1, <2>2
<1>2. faulted \subseteq faulted'
  BY DEF RollbackAndThrow, WorkerExecute
<1>3. faults' = faults \/ faults' = faults + 1
  BY DEF Fault, WorkerExecute
<1>. QED BY <1>1, <1>2, <1>3, MonoStep DEF gateVars

\* A pod's step leaves the other pods alone.
WorkerSame(k) ==
  /\ npc'[k] = npc[k] /\ nmsg'[k] = nmsg[k] /\ nsaga'[k] = nsaga[k]
  /\ ntodo'[k] = ntodo[k] /\ nwf'[k] = nwf[k]

LEMMA WorkerAlone ==
  ASSUME NEW n \in Nodes, WorkerStep(n) \/ WorkerFault(n),
         NEW k \in Nodes, k # n, WorkerTypeOK
  PROVE  WorkerSame(k)
<1>. USE DEF WorkerSame, WorkerTypeOK, txData, At
<1>1. CASE WorkerDeliver(n) \/ WorkerCheck(n) \/ WorkerMarkRunning(n)
  BY <1>1 DEF WorkerDeliver, WorkerCheck, WorkerMarkRunning
<1>2. CASE WorkerExecute(n) \/ WorkerExecuteFails(n) \/ WorkerComplete(n)
  BY <1>2 DEF WorkerExecute, WorkerExecuteFails, WorkerComplete
<1>3. CASE WorkerFatalCrash(n) \/ WorkerAck(n) \/ WorkerCrash(n)
  BY <1>3 DEF WorkerFatalCrash, WorkerAck, WorkerCrash, ResetWorker
<1>4. CASE WorkerReadDag(n)
  BY <1>4 DEF WorkerReadDag
<1>5. CASE WorkerFailTask(n) \/ WorkerFailWorkflow(n)
  BY <1>5 DEF WorkerFailTask, WorkerFailWorkflow
<1>6. CASE WorkerPublish(n) \/ WorkerCommit(n)
  BY <1>6 DEF WorkerPublish, WorkerCommit
<1>7. ASSUME RollbackAndThrow(n) PROVE WorkerSame(k)
  BY <1>7 DEF RollbackAndThrow, ResetWorker
<1>8. CASE \/ WorkerUnsupported(n) \/ WorkerDeadlockVictim(n)
           \/ WorkerError(n) \/ WorkerPublishFails(n)
  BY <1>7, <1>8
     DEF WorkerUnsupported, WorkerDeadlockVictim, WorkerError, WorkerPublishFails
<1>. QED BY <1>1, <1>2, <1>3, <1>4, <1>5, <1>6, <1>8 DEF WorkerStep, WorkerFault

LEMMA WorkerOthers ==
  ASSUME TypeOK, Mono, InvWorker, NEW n \in Nodes,
         WorkerStep(n) \/ WorkerFault(n), WorkerOK(n)'
  PROVE  InvWorker'
<1> SUFFICES ASSUME NEW k \in Nodes, k # n PROVE WorkerOK(k)'
  BY DEF InvWorker
<1>1. WorkerSame(k)
  BY WorkerAlone DEF TypeOK
<1>2. npc[k] # "idle" => nmsg[k] \in Message
  BY DEF TypeOK, WorkerTypeOK
<1>. QED BY <1>1, <1>2, WorkerFrame DEF InvWorker, WorkerSame

LEMMA ResetInductive ==
  ASSUME WorkerTypeOK, NEW n \in Nodes, ResetWorker(n)
  PROVE  WorkerOK(n)'
<1>1. /\ npc'[n] = "idle" /\ ~nsaga'[n] /\ ntodo'[n] = {}
      /\ nwf'[n] = "NONE"
  BY DEF WorkerTypeOK, ResetWorker
<1>. QED BY <1>1 DEF WorkerOK, Backed

\* An error leads into the failure handler, or hands the message back.
LEMMA ThrowInductive ==
  ASSUME TypeOK, Mono, InvQueues, NEW n \in Nodes, WorkerOK(n),
         RollbackAndThrow(n), npc[n] # "idle", gtodo' \subseteq gtodo
  PROVE  WorkerOK(n)' /\ InvQueues'
<1>. USE DEF At
<1>0. WorkerTypeOK /\ queue \in [Queues -> Seq(Message)]
  BY DEF TypeOK, StoreTypeOK
<1>1. Good(nmsg[n])
  BY DEF WorkerOK
<1>2. CASE nsaga[n]
  BY <1>0, <1>1, <1>2, QueueRequeue, ResetInductive DEF RollbackAndThrow
<1>3. CASE ~nsaga[n]
  <2>1. /\ npc'[n] = "fail" /\ nsaga'[n] /\ ntodo'[n] = {} /\ nwf'[n] = "NONE"
        /\ nmsg' = nmsg /\ queue' = queue /\ faulted' = faulted \cup {Mine(n)}
    BY <1>0, <1>3 DEF RollbackAndThrow, WorkerTypeOK
  <2>2. InvQueues'
    BY <2>1, QueuesSame
  <2>3. \A m : Good(m) => Good(m)'
    BY GoodMono
  <2>4. Good(nmsg[n])
    BY <1>1
  <2>5. WorkerOK(n)'
    BY <2>1, <2>3, <2>4 DEF WorkerOK, Mine, Backed, Good
  <2>. QED BY <2>2, <2>5
<1>. QED BY <1>2, <1>3

LEMMA WorkerInductive ==
  ASSUME IInv, NEW n \in Nodes, WorkerStep(n) \/ WorkerFault(n),
         UNCHANGED <<gateVars, brokerVars>>
  PROVE  /\ InvRuns' /\ InvRows' /\ InvQueues' /\ InvBroker' /\ InvWorker'
         /\ InvOutcome'
<1>. USE DEF IInv
<1>1. Mono
  BY WorkerMono
<1>2. InvBroker'
  BY <1>1, BrokerUntouched DEF brokerVars
<1>3. ASSUME WorkerOK(n)' PROVE InvWorker'
  BY <1>1, <1>3, WorkerOthers
<1>4. WorkerOK(n)
  BY DEF InvWorker
<1>5. npc[n] # "idle" => Mine(n) \in Tasks /\ Allowed(Mine(n)) /\ gpc # "ready"
  BY <1>4, GoodTask DEF WorkerOK, Mine
<1>6. /\ gpc' = gpc /\ gtodo' \subseteq gtodo
      /\ queue \in [Queues -> Seq(Message)] /\ st \in [Tasks -> Status]
      /\ runs \in [Tasks -> 0 .. 2] /\ WorkerTypeOK
  BY DEF gateVars, TypeOK, StoreTypeOK
<1>7. /\ runs' = runs => InvRuns'
      /\ st' = st => InvRows'
      /\ queue' = queue => InvQueues'
      /\ wf' = wf => InvOutcome'
  BY <1>1, <1>6, RunsSame, RowsSame, QueuesSame, OutcomeSame
<1>8. /\ \A m \in ntodo[n] : Good(m)'
      /\ \A s : Backed(s) => Backed(s)'
      /\ \A m : Good(m) => Good(m)'
      /\ nsaga[n] => Mine(n) \in faulted'
      /\ Backed(nwf[n]) /\ Backed("NONE")
  BY <1>1, <1>4, GoodMono, BackedMono DEF WorkerOK, Mono, Backed
<1>. USE DEF At, txData, storeVars, WorkerTypeOK
<1>9. ASSUME RollbackAndThrow(n), npc[n] # "idle"
      PROVE  WorkerOK(n)' /\ InvQueues'
  BY <1>1, <1>4, <1>6, <1>9, ThrowInductive
<1>10. CASE WorkerDeliver(n)
  <2>1. InvQueues' /\ Good(nmsg[n])'
    BY <1>1, <1>6, <1>10, QueueTake DEF WorkerDeliver, Queues
  <2>2. WorkerOK(n)'
    BY <1>4, <1>6, <1>8, <1>10, <2>1 DEF WorkerDeliver, WorkerOK
  <2>. QED BY <1>2, <1>3, <1>7, <1>10, <2>1, <2>2 DEF WorkerDeliver
<1>11. CASE WorkerCheck(n)
  <2>1. WorkerOK(n)'
    BY <1>4, <1>6, <1>8, <1>11 DEF WorkerCheck, WorkerOK, Mine
  <2>. QED BY <1>2, <1>3, <1>7, <1>11, <2>1 DEF WorkerCheck
<1>12. CASE WorkerMarkRunning(n)
  <2>1. WorkerOK(n)'
    BY <1>4, <1>6, <1>8, <1>12 DEF WorkerMarkRunning, WorkerOK, Mine
  <2>2. InvRows'
    BY <1>1, <1>5, <1>6, <1>12, RowsSet DEF WorkerMarkRunning, UpdateTask
  <2>. QED BY <1>2, <1>3, <1>7, <1>12, <2>1, <2>2 DEF WorkerMarkRunning
<1>13. CASE WorkerExecute(n)
  <2>1. InvRuns' /\ HasRun(Mine(n))'
    <3>1. \A u \in Tasks : u = Mine(n) => HasRun(u)'
      BY <1>6, <1>13, RanMono DEF WorkerExecute
    <3>2. InvRuns'
      BY <1>1, <1>5, <1>6, <1>13, RunsMore DEF WorkerExecute
    <3>. QED BY <1>5, <1>13, <3>1, <3>2 DEF WorkerExecute, HasRun, Mine
  <2>2. WorkerOK(n)'
    BY <1>4, <1>6, <1>8, <1>13, <2>1 DEF WorkerExecute, WorkerOK, Mine
  <2>. QED BY <1>2, <1>3, <1>7, <1>13, <2>1, <2>2 DEF WorkerExecute
<1>14. CASE WorkerExecuteFails(n)
  <2>1. WorkerOK(n)'
    BY <1>4, <1>6, <1>8, <1>14 DEF WorkerExecuteFails, WorkerOK, Mine
  <2>. QED BY <1>2, <1>3, <1>7, <1>14, <2>1 DEF WorkerExecuteFails
<1>15. CASE WorkerFatalCrash(n) \/ WorkerCrash(n)
  <2>1. Good(nmsg[n])
    BY <1>4, <1>15 DEF WorkerFatalCrash, WorkerCrash, WorkerOK
  <2>2. InvQueues'
    BY <1>1, <1>6, <1>15, <2>1, QueueRequeue DEF WorkerFatalCrash, WorkerCrash
  <2>3. WorkerOK(n)'
    BY <1>6, <1>8, <1>15 DEF WorkerFatalCrash, WorkerCrash, ResetWorker, WorkerOK
  <2>. QED BY <1>2, <1>3, <1>7, <1>15, <2>2, <2>3 DEF WorkerFatalCrash, WorkerCrash
<1>16. CASE WorkerComplete(n)
  <2>1. WorkerOK(n)'
    BY <1>4, <1>6, <1>8, <1>16 DEF WorkerComplete, WorkerOK, Mine
  <2>2. HasRun(Mine(n)) /\ Mine(n) \in Tasks
    BY <1>4, <1>5, <1>16 DEF WorkerComplete, WorkerOK
  <2>3. \A u \in Tasks : HasRun(u) => HasRun(u)'
    BY <1>1 DEF Mono
  <2>4. InvRows'
    BY <1>1, <1>6, <1>16, <2>2, <2>3, RowsSet DEF WorkerComplete, UpdateTask
  <2>. QED BY <1>2, <1>3, <1>7, <1>16, <2>1, <2>4 DEF WorkerComplete
<1>17. CASE WorkerReadDag(n)
  <2>1. gpc # "ready" /\ Good(nmsg[n])'
    BY <1>4, <1>5, <1>8, <1>17 DEF WorkerReadDag, WorkerOK
  <2>2. \A t \in Ready(st) : Good(TaskMessage(t))
    BY <2>1, TriggersGood
  <2>3. AllSettled(st) => Backed("COMPLETED")
    BY <2>1, SettledAttempted DEF Backed
  <2>4. wf = "COMPENSATING" => Backed("FAILED")
    BY DEF InvOutcome, Backed
  <2>5. \A m \in ntodo'[n] : Good(m)'
    BY <1>6, <1>8, <1>17, <2>2 DEF WorkerReadDag
  <2>6. nwf'[n] # "RUNNING" /\ Backed(nwf'[n])
    BY <1>6, <1>8, <1>17, <2>3, <2>4 DEF WorkerReadDag
  <2>7. npc'[n] = "publish" /\ nmsg' = nmsg /\ nsaga' = nsaga /\ faulted' = faulted
    BY <1>6, <1>17 DEF WorkerReadDag
  <2>8. WorkerOK(n)'
    BY <1>8, <2>1, <2>5, <2>6, <2>7 DEF WorkerOK, Mine
  <2>. QED BY <1>2, <1>3, <1>7, <1>17, <2>8 DEF WorkerReadDag
<1>18. CASE WorkerFailTask(n)
  <2>1. WorkerOK(n)'
    BY <1>4, <1>6, <1>8, <1>18 DEF WorkerFailTask, WorkerOK, Mine
  <2>. QED BY <1>2, <1>3, <1>7, <1>18, <2>1 DEF WorkerFailTask
<1>19. CASE WorkerFailWorkflow(n)
  <2>. DEFINE seen == [st EXCEPT ![Mine(n)] = "FAILED"]
  <2>1. nsaga[n] /\ faulted # {} /\ gpc # "ready" /\ Good(nmsg[n])'
    BY <1>4, <1>5, <1>8, <1>19 DEF WorkerFailWorkflow, WorkerOK
  <2>2. \A o \in Compensable(seen) : Good(WorkerCompensation(o))
    BY <1>6, <2>1, CompensationsGood DEF Compensable, InvRows
  <2>3. \A m \in ntodo'[n] : Good(m)'
    BY <1>6, <1>8, <1>19, <2>2 DEF WorkerFailWorkflow
  <2>4. Backed("FAILED") /\ Backed("COMPENSATING")
    BY <2>1 DEF Backed
  <2>5. nwf'[n] # "RUNNING" /\ Backed(nwf'[n])
    BY <1>6, <1>19, <2>4 DEF WorkerFailWorkflow
  <2>6. npc'[n] = "publish" /\ nmsg' = nmsg /\ nsaga' = nsaga /\ faulted' = faulted
    BY <1>6, <1>19 DEF WorkerFailWorkflow
  <2>7. WorkerOK(n)'
    BY <1>8, <2>1, <2>3, <2>5, <2>6 DEF WorkerOK, Mine
  <2>. QED BY <1>2, <1>3, <1>7, <1>19, <2>7 DEF WorkerFailWorkflow
<1>20. CASE WorkerPublish(n)
  <2>1. PICK m \in ntodo[n] : /\ Send(m)
                              /\ ntodo' = [ntodo EXCEPT ![n] = @ \ {m}]
    BY <1>20 DEF WorkerPublish
  <2>2. Good(m)
    BY <1>4 DEF WorkerOK
  <2>3. InvQueues'
    BY <1>1, <1>6, <2>1, <2>2, QueueSend
  <2>4. WorkerOK(n)'
    BY <1>4, <1>6, <1>8, <1>20, <2>1 DEF WorkerPublish, WorkerOK, Mine
  <2>. QED BY <1>2, <1>3, <1>7, <1>20, <2>3, <2>4 DEF WorkerPublish
<1>21. CASE WorkerCommit(n)
  <2>1. WorkerOK(n)'
    BY <1>4, <1>6, <1>8, <1>21 DEF WorkerCommit, WorkerOK, Mine
  <2>2. InvRows'
    <3>. SUFFICES ASSUME NEW t \in Tasks
                  PROVE  /\ st'[t] = "COMPLETED" => HasRun(t)'
                         /\ st'[t] = "FAILED" => t \in faulted'
                         /\ gpc # "ready" => st'[t] # "NONE"
      BY <1>6 DEF InvRows
    <3>1. st'[t] \in {"RUNNING", st[t]} \/ (st'[t] = "FAILED" /\ nsaga[n] /\ t = Mine(n))
      BY <1>21 DEF WorkerCommit
    <3>. QED BY <1>1, <1>8, <3>1 DEF InvRows, Mono
  <2>3. InvOutcome'
    <3>1. CASE nwf[n] = "NONE"
      BY <1>7, <1>21, <3>1 DEF WorkerCommit
    <3>2. CASE nwf[n] # "NONE"
      <4>1. wf' = nwf[n] /\ gpc # "ready"
        BY <1>5, <1>21, <3>2 DEF WorkerCommit
      <4>. QED BY <1>1, <1>6, <1>8, <3>2, <4>1, OutcomeSet
    <3>. QED BY <3>1, <3>2
  <2>. QED BY <1>2, <1>3, <1>7, <1>21, <2>1, <2>2, <2>3 DEF WorkerCommit
<1>22. CASE WorkerAck(n)
  <2>1. WorkerOK(n)'
    BY <1>6, <1>8, <1>22 DEF WorkerAck, ResetWorker, WorkerOK
  <2>. QED BY <1>2, <1>3, <1>7, <1>22, <2>1 DEF WorkerAck
<1>23. CASE WorkerUnsupported(n) \/ WorkerPublishFails(n) \/ WorkerError(n)
  <2>1. RollbackAndThrow(n) /\ npc[n] # "idle" /\ UNCHANGED <<wf, st, runs>>
    BY <1>23 DEF WorkerUnsupported, WorkerPublishFails, WorkerError
  <2>. QED BY <1>2, <1>3, <1>7, <1>9, <2>1
<1>24. CASE WorkerDeadlockVictim(n)
  <2>1. npc[n] # "idle"
    BY <1>24 DEF WorkerDeadlockVictim, Victim, WaitsFor, Wanted
  <2>. QED BY <1>2, <1>3, <1>7, <1>9, <1>24, <2>1 DEF WorkerDeadlockVictim
<1>. QED
  BY <1>10, <1>11, <1>12, <1>13, <1>14, <1>15, <1>16, <1>17, <1>18, <1>19, <1>20,
     <1>21, <1>22, <1>23, <1>24 DEF WorkerStep, WorkerFault

\* The shutdown of a pod, whatever its callback was doing.
LEMMA ShutdownInductive ==
  ASSUME IInv, NEW n \in Nodes, PodShutdown(n), UNCHANGED <<gateVars, brokerVars>>
  PROVE  /\ InvRuns' /\ InvRows' /\ InvQueues' /\ InvBroker' /\ InvWorker'
         /\ InvOutcome'
<1>. USE DEF IInv
<1>1. /\ UNCHANGED <<wf, st, runs>>
      /\ faults' = faults \/ faults' = faults + 1
      /\ Detached(n) \/ (npc[n] # "idle" /\ RollbackAndThrow(n)) \/ Vanished(n)
  BY ShutdownCases DEF TypeOK
<1>2. gpc' = gpc /\ gtodo' \subseteq gtodo
  BY DEF gateVars
<1>3. Mono
  <2>1. faulted \subseteq faulted'
    BY <1>1 DEF Detached, Vanished, RollbackAndThrow
  <2>. QED BY <1>1, <1>2, <2>1, MonoStep
<1>4. InvRuns' /\ InvRows' /\ InvOutcome' /\ InvBroker'
  BY <1>1, <1>2, <1>3, RunsSame, RowsSame, OutcomeSame, BrokerUntouched DEF brokerVars
<1>5. WorkerOK(n) /\ WorkerTypeOK /\ queue \in [Queues -> Seq(Message)]
  BY DEF InvWorker, TypeOK, StoreTypeOK
<1>6. CASE Detached(n)
  <2>1. InvWorker'
    BY <1>3, <1>6, CallbacksUntouched DEF Detached
  <2>2. CASE queue' = queue
    BY <1>2, <1>3, <1>4, <2>1, <2>2, QueuesSame
  <2>3. CASE npc[n] # "idle" /\ Requeue(nmsg[n])
    <3>1. Good(nmsg[n])
      BY <1>5, <2>3 DEF WorkerOK
    <3>. QED BY <1>2, <1>3, <1>4, <1>5, <2>1, <2>3, <3>1, QueueRequeue
  <2>. QED BY <1>6, <2>2, <2>3 DEF Detached
<1>7. ASSUME WorkerOK(n)', ResetWorker(n) \/ RollbackAndThrow(n) PROVE InvWorker'
  <2>. SUFFICES ASSUME NEW k \in Nodes, k # n PROVE WorkerOK(k)'
    BY <1>7 DEF InvWorker
  <2>1. WorkerSame(k)
    BY <1>5, <1>7 DEF RollbackAndThrow, ResetWorker, WorkerSame, WorkerTypeOK, At
  <2>2. npc[k] # "idle" => nmsg[k] \in Message
    BY DEF TypeOK, WorkerTypeOK
  <2>. QED BY <1>3, <2>1, <2>2, WorkerFrame DEF InvWorker, WorkerSame
<1>8. CASE npc[n] # "idle" /\ RollbackAndThrow(n)
  BY <1>2, <1>3, <1>4, <1>5, <1>7, <1>8, ThrowInductive
<1>9. CASE Vanished(n)
  <2>1. WorkerOK(n)'
    BY <1>5, <1>9, ResetInductive DEF Vanished
  <2>. QED BY <1>2, <1>3, <1>4, <1>7, <1>9, <2>1, QueuesSame DEF Vanished
<1>. QED BY <1>1, <1>6, <1>8, <1>9

---------------------------------------------------------------------------
(* The gateway, and the whole. *)

LEMMA GateMono ==
  ASSUME TypeOK, GateNext
  PROVE  Mono
<1>. USE DEF GateNext, GateStep, GateSubmit, GatePublish, GatePublishFails, GateReply,
             GateCrash, storeVars
<1>1. runs' = runs /\ faulted' = faulted
  OBVIOUS
<1>2. gpc # "ready" => gpc' # "ready"
  OBVIOUS
<1>3. faults' = faults \/ faults' = faults + 1
  BY DEF Fault
<1>. QED BY <1>1, <1>2, <1>3, MonoStep

LEMMA GateInductive ==
  ASSUME IInv, GateNext, UNCHANGED <<brokerVars, workerVars>>
  PROVE  /\ InvRuns' /\ InvRows' /\ InvQueues' /\ InvBroker' /\ InvWorker'
         /\ InvOutcome'
<1>. USE DEF IInv
<1>1. Mono
  BY GateMono
<1>2. InvBroker' /\ InvWorker'
  BY <1>1, BrokerUntouched, WorkerUntouched DEF brokerVars
<1>3. runs' = runs
  BY DEF GateNext, GateStep, GateSubmit, GatePublish, GatePublishFails, GateReply,
         GateCrash, storeVars
<1>4. InvRuns'
  BY <1>1, <1>3, RunsSame
<1>5. CASE GateSubmit
  <2>1. \A m \in gtodo' : Good(m)'
    <3>. TAKE m \in gtodo'
    <3>1. PICK t \in Roots : m = TaskMessage(t)
      BY <1>5 DEF GateSubmit
    <3>2. m \in Message /\ m.task = t /\ Deps(t) = {}
      BY <3>1, TaskMessageType DEF Roots, TaskMessage
    <3>3. Allowed(m.task)'
      BY <3>2 DEF Allowed
    <3>. QED BY <1>5, <3>2, <3>3 DEF GateSubmit, Good
  <2>2. InvQueues'
    BY <1>1, <1>5, <2>1, GoodMono DEF GateSubmit, InvQueues
  <2>3. InvRows'
    BY <1>5 DEF GateSubmit, InvRows
  <2>4. InvOutcome'
    BY <1>5 DEF GateSubmit, InvOutcome, Backed
  <2>. QED BY <1>2, <1>4, <2>2, <2>3, <2>4
<1>6. CASE GateNext /\ ~GateSubmit
  <2>1. wf' = wf /\ st' = st /\ gpc # "ready" /\ gpc' # "ready"
    BY <1>6 DEF GateNext, GateStep, GatePublish, GatePublishFails, GateReply, GateCrash,
                storeVars
  <2>2. InvRows' /\ InvOutcome'
    BY <1>1, <2>1, BackedMono DEF InvRows, InvOutcome, Mono
  <2>3. CASE GatePublish
    <3>1. PICK m \in gtodo : Send(m) /\ gtodo' = gtodo \ {m}
      BY <2>3 DEF GatePublish
    <3>2. Good(m) /\ queue \in [Queues -> Seq(Message)]
      BY DEF InvQueues, TypeOK, StoreTypeOK
    <3>3. InvQueues'
      BY <1>1, <3>1, <3>2, QueueSend
    <3>. QED BY <1>2, <1>4, <2>2, <3>3
  <2>4. CASE ~GatePublish
    <3>1. queue' = queue /\ gtodo' \subseteq gtodo
      BY <1>6, <2>4 DEF GateNext, GateStep, GatePublishFails, GateReply, GateCrash, storeVars
    <3>2. InvQueues'
      BY <1>1, <3>1, QueuesSame
    <3>. QED BY <1>2, <1>4, <2>2, <3>2
  <2>. QED BY <2>3, <2>4
<1>. QED BY <1>5, <1>6

LEMMA InitIInv == Init => IInv
<1>. SUFFICES ASSUME Init PROVE IInv
  OBVIOUS
<1>1. TypeOK
  BY InitType
<1>2. InvRuns /\ InvRows
  BY DEF Init, StoreInit, InvRuns, InvRows, HasRun, GateInit
<1>3. InvQueues
  BY EmptySeq DEF Init, StoreInit, GateInit, InvQueues
<1>4. InvBroker
  BY DEF Init, BrokerInit, InvBroker, BrokerOK, FailurePoints, Backed
<1>5. InvWorker
  BY DEF Init, WorkerInit, InvWorker, WorkerOK, Backed
<1>6. InvOutcome
  BY DEF Init, StoreInit, GateInit, InvOutcome, Backed
<1>. QED BY <1>1, <1>2, <1>3, <1>4, <1>5, <1>6 DEF IInv

LEMMA StutterIInv ==
  ASSUME IInv, UNCHANGED vars
  PROVE  IInv'
<1>. USE DEF IInv, vars, storeVars, gateVars
<1>1. Mono
  BY MonoStep
<1>2. TypeOK'
  BY NextType
<1>3. InvBroker' /\ InvWorker'
  BY <1>1, BrokerUntouched, WorkerUntouched DEF brokerVars
<1>. QED BY <1>1, <1>2, <1>3, RunsSame, RowsSame, QueuesSame, OutcomeSame

LEMMA NextIInv == IInv /\ [Next]_vars => IInv'
<1>. SUFFICES ASSUME IInv, [Next]_vars PROVE IInv'
  OBVIOUS
<1>1. TypeOK'
  BY NextType DEF IInv
<1>2. CASE GateNext /\ UNCHANGED <<brokerVars, workerVars>>
  BY <1>1, <1>2, GateInductive DEF IInv
<1>3. CASE BrokerNext /\ UNCHANGED <<gateVars, workerVars>>
  BY <1>1, <1>3, BrokerStepInductive, BrokerFaultInductive, LocksInductive
     DEF IInv, BrokerNext
<1>4. CASE PodNext /\ UNCHANGED <<gateVars, brokerVars>>
  BY <1>1, <1>4, PodCallback, WorkerInductive, ShutdownInductive DEF IInv, PodNext
<1>5. CASE UNCHANGED vars
  BY <1>5, StutterIInv
<1>. QED BY <1>2, <1>3, <1>4, <1>5 DEF Next

\* IInv holds throughout: in every queue, in every hand and on every list of a
\* process about to publish there are only messages whose task may run.
THEOREM Invariance == Spec => []IInv
BY InitIInv, NextIInv, PTL DEF Spec

\* No task runs before its dependencies have, compensations called for apart:
\* whatever the DAG, however many brokers and workers evaluate it at once, and
\* whatever is redelivered, crashes or fails.
THEOREM OrderKept == Spec => []DependencyOrder
<1>1. IInv => DependencyOrder
  BY DEF IInv, InvRuns, DependencyOrder, Allowed
<1>. QED BY <1>1, Invariance, PTL

\* No compensation runs unless the task it undoes has taken effect and some
\* task has failed.
THEOREM OnlyJustified == Spec => []CompensationJustified
<1>1. IInv => CompensationJustified
  BY DEF IInv, InvRuns, CompensationJustified, Allowed
<1>. QED BY <1>1, Invariance, PTL

\* COMPLETED is never reported while a task exists that nobody tried.
THEOREM CompletedIsBacked == Spec => []CompletedMeansAttempted
<1>1. IInv => CompletedMeansAttempted
  BY DEF IInv, InvOutcome, Backed, Attempted, CompletedMeansAttempted
<1>. QED BY <1>1, Invariance, PTL

-----------------------------------------------------------------------------
(* The Redisson lock, its orphans and its expiry included, keeps brokers   *)
(* apart as long as Redis keeps its keys: every thread that executes or    *)
(* progresses a task holds the lock of that task (LockHeld), and nobody    *)
(* but the holder's own finally block or death takes it away.              *)

\* Of all threads, only c's lock may change hands in a step of c.
LEMMA LockKept ==
  ASSUME TypeOK, NEW c \in Consumers, BrokerStep(c) \/ BrokerFault(c),
         NEW d \in Consumers, d # c, jpc[d] # "idle", rlock[Own(d)] = d
  PROVE  Own(d)' = Own(d) /\ rlock'[Own(d)] = d
<1>1. Own(d)' = Own(d)
  BY BrokerAlone DEF BrokerSame, TypeOK, Own
<1>2. Own(d) \in Tasks
  BY OwnTask
<1>3. rlock \in [Tasks -> Consumers \cup {Free, Orphan}]
  BY DEF TypeOK, BrokerTypeOK
<1>4. CASE BrokerLock(c)
  <2>1. rlock[Own(c)] = Free /\ rlock' = [rlock EXCEPT ![Own(c)] = c]
    BY <1>4 DEF BrokerLock
  <2>2. Own(c) # Own(d)
    BY <2>1, BrokerAssumption
  <2>. QED BY <1>1, <1>3, <2>1, <2>2
<1>5. CASE BrokerFinish(c) \/ BrokerCrash(c)
  <2>1. \E next \in {Free, Orphan} : PassLock(c, next)
    BY <1>5 DEF BrokerFinish, BrokerCrash
  <2>. QED BY <1>1, <1>2, <2>1 DEF PassLock
<1>6. CASE ~(BrokerLock(c) \/ BrokerFinish(c) \/ BrokerCrash(c))
  BY <1>1, <1>6 DEF BrokerStep, BrokerFault, BrokerDeliver, BrokerLockTimeout,
     BrokerCheck, BrokerMarkRunning, BrokerExecute, BrokerRefuse,
     BrokerComplete, BrokerReadWorkflow, BrokerReadTasks, BrokerTrigger,
     BrokerPublish, BrokerSaveWorkflow, BrokerFailTask, BrokerFailWorkflow,
     BrokerCompensate, BrokerError, BrokerPublishFails, BrokerRedeliver
<1>. QED BY <1>4, <1>5, <1>6

\* A thread is only ever executing because it took the lock and still has it.
LEMMA LockOwned ==
  ASSUME IInv, LockHeld, NEW c \in Consumers, BrokerStep(c) \/ BrokerFault(c),
         Executing(c)'
  PROVE  rlock'[Own(c)'] = c
<1>0. BrokerTypeOK /\ BrokerOK(c) /\ (Executing(c) => rlock[Own(c)] = c)
  BY DEF IInv, TypeOK, InvBroker, LockHeld
<1>. USE <1>0 DEF BrokerTypeOK, Executing, ProcessPoints, TriggerPoints, Goto
<1>1. CASE BrokerLock(c)
  <2>1. Own(c) \in Tasks
    BY <1>1, OwnTask DEF BrokerLock, IInv
  <2>. QED BY <1>1, <2>1 DEF BrokerLock, Own, delivery
<1>2. CASE BrokerDeliver(c) \/ BrokerLockTimeout(c) \/ BrokerFailTask(c)
  BY <1>2 DEF BrokerDeliver, BrokerLockTimeout, BrokerFailTask
<1>3. CASE BrokerFinish(c) \/ BrokerCrash(c)
  BY <1>3 DEF BrokerFinish, BrokerCrash, Reset
<1>4. CASE BrokerFailWorkflow(c)
  BY <1>4 DEF BrokerFailWorkflow
<1>5. CASE BrokerCompensate(c)
  BY <1>5 DEF BrokerCompensate, BrokerOK, FailurePoints
<1>6. CASE \/ BrokerCheck(c) \/ BrokerMarkRunning(c) \/ BrokerExecute(c)
           \/ BrokerComplete(c) \/ BrokerReadWorkflow(c)
  BY <1>6 DEF BrokerCheck, BrokerMarkRunning, BrokerExecute, BrokerComplete,
     BrokerReadWorkflow, delivery, work, Own
<1>7. CASE BrokerReadTasks(c)
  BY <1>7 DEF BrokerReadTasks, delivery, Own
<1>8. CASE BrokerTrigger(c) \/ BrokerPublish(c) \/ BrokerSaveWorkflow(c)
  BY <1>8 DEF BrokerTrigger, BrokerPublish, BrokerSaveWorkflow, delivery, work,
     Own
<1>9. CASE BrokerRefuse(c)
  BY <1>9 DEF BrokerRefuse, EnterFailure
<1>10. CASE BrokerError(c)
  BY <1>10 DEF BrokerError, EnterFailure, EnterRescue, delivery, work, Own
<1>11. CASE BrokerPublishFails(c)
  BY <1>11 DEF BrokerPublishFails, EnterRescue, delivery, Own
<1>12. CASE BrokerRedeliver(c)
  BY <1>12 DEF BrokerRedeliver, work, Own
<1>. QED
  BY <1>1, <1>2, <1>3, <1>4, <1>5, <1>6, <1>7, <1>8, <1>9, <1>10, <1>11, <1>12
     DEF BrokerStep, BrokerFault

LEMMA LockNext ==
  ASSUME "redis" \notin FaultKinds, IInv, LockHeld, [Next]_vars
  PROVE  LockHeld'
<1>. SUFFICES ASSUME NEW d \in Consumers, Executing(d)'
              PROVE  rlock'[Own(d)'] = d
  BY DEF LockHeld
<1>1. CASE UNCHANGED brokerVars
  BY <1>1 DEF brokerVars, delivery, work, Executing, Own, LockHeld
<1>2. ASSUME NEW c \in Consumers, BrokerStep(c) \/ BrokerFault(c)
      PROVE  rlock'[Own(d)'] = d
  <2>1. CASE d # c
    <3>1. Executing(d) /\ jpc[d] # "idle"
      BY <1>2, <2>1, BrokerAlone
         DEF BrokerSame, IInv, TypeOK, Executing, ProcessPoints, TriggerPoints
    <3>. QED BY <1>2, <2>1, <3>1, LockKept DEF LockHeld, IInv
  <2>. QED BY <1>2, <2>1, LockOwned
<1>3. CASE \E t \in Tasks : LockExpire(t)
  <2>1. PICK t \in Tasks : LockExpire(t)
    BY <1>3
  <2>2. Executing(d) /\ Own(d)' = Own(d)
    BY <2>1 DEF LockExpire, delivery, work, Executing, Own
  <2>3. rlock[Own(d)] = d
    BY <2>2 DEF LockHeld
  <2>4. rlock \in [Tasks -> Consumers \cup {Free, Orphan}]
    BY DEF IInv, TypeOK, BrokerTypeOK
  <2>5. Own(d) # t
    BY <2>1, <2>3, BrokerAssumption DEF LockExpire
  <2>. QED BY <2>1, <2>2, <2>3, <2>4, <2>5 DEF LockExpire
<1>4. ~RedisRestart
  BY DEF RedisRestart, Fault
<1>. QED BY <1>1, <1>2, <1>3, <1>4 DEF Next, BrokerNext, vars

LEMMA LockInit == Init => LockHeld
BY DEF Init, BrokerInit, LockHeld, Executing, ProcessPoints, TriggerPoints

\* While Redis keeps its keys, no two broker replicas execute or progress the
\* same task at once, however many replicas there are, whatever is redelivered
\* and whoever dies holding a lock.
THEOREM LocksExclude ==
  ASSUME "redis" \notin FaultKinds
  PROVE  Spec => []LockExclusion
<1>1. IInv /\ LockHeld /\ [Next]_vars => LockHeld'
  BY LockNext
<1>2. LockHeld => LockExclusion
  BY DEF LockHeld, LockExclusion
<1>. QED BY <1>1, <1>2, LockInit, Invariance, PTL DEF Spec
=============================================================================
