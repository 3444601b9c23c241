----------------------------- MODULE LedgerProofs -----------------------------
(***************************************************************************)
(* What the brokers have to themselves: the tasks of which no pod ever     *)
(* gets a message, the first of which are executed once, and the account,  *)
(* which loses no update while the DAG orders the payments.                *)
(***************************************************************************)
EXTENDS Ledger, ReddoDeliveryProofs, FunctionTheorems, FiniteSetTheorems

(* A message for a Java task is never on its way to a pod. *)

LEMMA MessagesHomed ==
  /\ \A t \in Tasks : Homed(TaskMessage(t))
  /\ \A o \in Tasks : Homed(CompensationMessage(o)) /\ Homed(WorkerCompensation(o))
BY DEF Homed, JavaTasks, TaskMessage, CompensationMessage, WorkerCompensation

HomedQueues ==
  QueuesRouted /\ \A q \in Queues : \A m \in Waiting(q) : Homed(m)

LEMMA HomedJoins ==
  ASSUME queue \in [Queues -> Seq(Message)], HomedQueues,
         NEW m \in Message, Homed(m),
         Send(m) \/ (m.queue \in Queues /\ Requeue(m))
  PROVE  HomedQueues'
<1>1. CASE m.queue \in Queues
  <2>1. \A q \in Queues :
          Waiting(q)' = IF q = m.queue THEN Waiting(q) \cup {m} ELSE Waiting(q)
    BY <1>1, SendWaiting, RequeueWaiting
  <2>. QED BY <2>1 DEF HomedQueues, QueuesRouted, Homed
<1>2. CASE m.queue \notin Queues
  BY <1>2 DEF Send, HomedQueues, QueuesRouted, Waiting, Homed
<1>. QED BY <1>1, <1>2

LEMMA HomedLeaves ==
  ASSUME queue \in [Queues -> Seq(Message)], HomedQueues,
         NEW p \in Queues, queue[p] # <<>>,
         queue' = [queue EXCEPT ![p] = Tail(@)]
  PROVE  HomedQueues' /\ Head(queue[p]).queue = p /\ Homed(Head(queue[p]))
<1>1. \A q \in Queues : Waiting(q)' \subseteq Waiting(q)
  BY TakeWaiting
<1>2. Head(queue[p]) \in Waiting(p)
  BY TakeWaiting
<1>. QED BY <1>1, <1>2 DEF HomedQueues, QueuesRouted, Homed

LEMMA HomedStays ==
  ASSUME HomedQueues, queue' = queue
  PROVE  HomedQueues'
BY DEF HomedQueues, QueuesRouted, Waiting, Homed

LEMMA BrokerHomes ==
  ASSUME IInv, AllHomed, NEW c \in Consumers,
         BrokerStep(c) \/ BrokerFault(c), UNCHANGED <<gateVars, workerVars>>
  PROVE  AllHomed'
<1>1. /\ queue \in [Queues -> Seq(Message)] /\ BrokerTypeOK /\ BrokerOK(c)
      /\ HomedQueues /\ BrokerHomed(c)
  BY DEF IInv, TypeOK, StoreTypeOK, InvBroker, AllHomed, HomedQueues
<1>2. ASSUME HomedQueues', BrokerHomed(c)' PROVE AllHomed'
  <2>1. ASSUME NEW d \in Consumers PROVE BrokerHomed(d)'
    <3>1. CASE d = c
      BY <1>2, <3>1
    <3>2. CASE d # c
      <4>1. BrokerSame(d)
        BY <1>1, <3>2, BrokerAlone
      <4>. QED BY <4>1 DEF AllHomed, BrokerHomed, BrokerSame, Homed
    <3>. QED BY <3>1, <3>2
  <2>2. \A n \in Nodes : WorkerHomed(n)'
    BY DEF AllHomed, WorkerHomed, Homed, workerVars, callbackVars, txData
  <2>3. \A m \in gtodo' : Homed(m)'
    BY DEF AllHomed, Homed, gateVars
  <2>. QED BY <1>2, <2>1, <2>2, <2>3 DEF AllHomed, HomedQueues
<1>3. queue' = queue => HomedQueues'
  BY <1>1, HomedStays
<1>. USE DEF BrokerTypeOK, BrokerHomed, Homed, Goto, delivery, work
<1>4. CASE BrokerDeliver(c)
  <2>1. HomedQueues' /\ Head(queue["java"]).queue = "java"
    BY <1>1, <1>4, HomedLeaves DEF BrokerDeliver, Queues
  <2>. QED BY <1>1, <1>2, <1>4, <2>1 DEF BrokerDeliver
<1>5. CASE \/ BrokerLock(c) \/ BrokerLockTimeout(c) \/ BrokerCheck(c)
           \/ BrokerMarkRunning(c) \/ BrokerExecute(c) \/ BrokerComplete(c)
           \/ BrokerReadWorkflow(c) \/ BrokerSaveWorkflow(c)
           \/ BrokerFailTask(c) \/ BrokerFailWorkflow(c)
  <2>1. /\ queue' = queue /\ jmsg' = jmsg /\ jtodo' = jtodo
        /\ jpc[c] # "idle" /\ jpc'[c] # "publish"
    BY <1>1, <1>5 DEF BrokerLock, BrokerLockTimeout, BrokerCheck,
       BrokerMarkRunning, BrokerExecute, BrokerComplete, BrokerReadWorkflow,
       BrokerSaveWorkflow, BrokerFailTask, BrokerFailWorkflow, storeVars
  <2>. QED BY <1>1, <1>2, <1>3, <2>1
<1>6. CASE BrokerReadTasks(c)
  <2>1. jtodo'[c] = jtodo[c] \/ jtodo'[c] = {TaskMessage(t) : t \in Ready(st)}
    BY <1>1, <1>6 DEF BrokerReadTasks
  <2>2. \A m \in jtodo'[c] : Homed(m)
    BY <1>1, <2>1, MessagesHomed DEF Ready
  <2>3. /\ queue' = queue /\ jmsg' = jmsg /\ jpc[c] # "idle"
        /\ jpc'[c] # "publish"
    BY <1>1, <1>6 DEF BrokerReadTasks, storeVars
  <2>. QED BY <1>1, <1>2, <1>3, <2>2, <2>3
<1>7. CASE BrokerCompensate(c)
  <2>1. \A m \in jtodo'[c] : Homed(m)
    BY <1>1, <1>7, MessagesHomed DEF BrokerCompensate, Compensable
  <2>2. /\ queue' = queue /\ jmsg' = jmsg /\ jpc[c] # "idle"
        /\ jpc'[c] # "publish"
    BY <1>1, <1>7 DEF BrokerCompensate, storeVars
  <2>. QED BY <1>1, <1>2, <1>3, <2>1, <2>2
<1>8. CASE BrokerTrigger(c)
  BY <1>1, <1>2, <1>3, <1>8 DEF BrokerTrigger
<1>9. CASE BrokerPublish(c)
  <2>1. jcur[c] \in Message /\ Homed(jcur[c])
    BY <1>1, <1>9 DEF BrokerPublish, BrokerOK, Good
  <2>2. HomedQueues'
    BY <1>1, <1>9, <2>1, HomedJoins DEF BrokerPublish
  <2>. QED BY <1>1, <1>2, <1>9, <2>2 DEF BrokerPublish
<1>10. CASE BrokerFinish(c)
  BY <1>1, <1>2, <1>3, <1>10 DEF BrokerFinish, Reset, storeVars
<1>11. CASE BrokerRefuse(c) \/ BrokerError(c) \/ BrokerPublishFails(c)
  <2>1. /\ queue' = queue /\ jmsg' = jmsg /\ jpc[c] # "idle"
        /\ jpc'[c] # "publish" /\ jtodo'[c] \in {{}, jtodo[c]}
    BY <1>1, <1>11 DEF BrokerRefuse, BrokerError, BrokerPublishFails, EnterFailure,
       EnterRescue, ProcessPoints, FailurePoints
  <2>. QED BY <1>1, <1>2, <1>3, <2>1
<1>12. ASSUME jpc[c] # "idle", Requeue(jmsg[c]) PROVE HomedQueues'
  <2>1. jmsg[c] \in Message /\ jmsg[c].queue \in Queues /\ Homed(jmsg[c])
    BY <1>1, <1>12 DEF BrokerOK, Queues
  <2>. QED BY <1>1, <1>12, <2>1, HomedJoins
<1>13. CASE BrokerRedeliver(c)
  <2>1. jpc[c] # "idle"
    BY <1>1, <1>13 DEF BrokerRedeliver, BrokerOK
  <2>. QED BY <1>1, <1>2, <1>12, <1>13, <2>1 DEF BrokerRedeliver
<1>14. CASE BrokerCrash(c)
  <2>1. HomedQueues'
    BY <1>3, <1>12, <1>14 DEF BrokerCrash
  <2>. QED BY <1>1, <1>2, <1>14, <2>1 DEF BrokerCrash, Reset
<1>. QED
  BY <1>4, <1>5, <1>6, <1>7, <1>8, <1>9, <1>10, <1>11, <1>13, <1>14
     DEF BrokerStep, BrokerFault

\* What is left to show of a step of n is what it does to n and to the queues.
LEMMA PodHomes ==
  ASSUME AllHomed, NEW n \in Nodes, UNCHANGED <<gateVars, brokerVars>>,
         \A k \in Nodes \ {n} : npc'[k] = npc[k] /\ nmsg'[k] = nmsg[k]
                                /\ ntodo'[k] = ntodo[k],
         HomedQueues', WorkerHomed(n)'
  PROVE  AllHomed'
<1>1. \A c \in Consumers : BrokerHomed(c)'
  BY DEF AllHomed, BrokerHomed, Homed, brokerVars, delivery, work
<1>2. \A k \in Nodes : WorkerHomed(k)'
  BY DEF AllHomed, WorkerHomed, Homed
<1>3. \A m \in gtodo' : Homed(m)'
  BY DEF AllHomed, Homed, gateVars
<1>. QED BY <1>1, <1>2, <1>3 DEF AllHomed, HomedQueues

\* A pod that goes back to the start forgets everything.
LEMMA ResetHomes ==
  ASSUME WorkerTypeOK, NEW n \in Nodes, ResetWorker(n)
  PROVE  /\ WorkerHomed(n)'
         /\ \A k \in Nodes \ {n} : npc'[k] = npc[k] /\ nmsg'[k] = nmsg[k]
                                   /\ ntodo'[k] = ntodo[k]
BY DEF WorkerTypeOK, ResetWorker, WorkerHomed

LEMMA ThrowHomes ==
  ASSUME IInv, AllHomed, NEW n \in Nodes, npc[n] # "idle", RollbackAndThrow(n),
         UNCHANGED <<gateVars, brokerVars>>
  PROVE  AllHomed'
<1>1. /\ queue \in [Queues -> Seq(Message)] /\ WorkerTypeOK /\ WorkerOK(n)
      /\ HomedQueues /\ WorkerHomed(n)
  BY DEF IInv, TypeOK, StoreTypeOK, InvWorker, AllHomed, HomedQueues
<1>2. CASE nsaga[n]
  <2>1. Requeue(nmsg[n]) /\ ResetWorker(n)
    BY <1>2 DEF RollbackAndThrow
  <2>2. nmsg[n] \in Message /\ nmsg[n].queue \in Queues /\ Homed(nmsg[n])
    BY <1>1 DEF WorkerOK, Good, WorkerHomed, Queues
  <2>3. HomedQueues'
    BY <1>1, <2>1, <2>2, HomedJoins
  <2>. QED BY <1>1, <2>1, <2>3, ResetHomes, PodHomes
<1>3. CASE ~nsaga[n]
  <2>1. /\ queue' = queue /\ nmsg' = nmsg /\ ntodo'[n] = {}
        /\ \A k \in Nodes \ {n} : npc'[k] = npc[k] /\ ntodo'[k] = ntodo[k]
    BY <1>1, <1>3 DEF RollbackAndThrow, WorkerTypeOK, At
  <2>2. HomedQueues' /\ WorkerHomed(n)'
    BY <1>1, <2>1, HomedStays DEF WorkerHomed, Homed
  <2>. QED BY <2>1, <2>2, PodHomes
<1>. QED BY <1>2, <1>3

LEMMA CallbackHomes ==
  ASSUME IInv, AllHomed, NEW n \in Nodes, WorkerStep(n) \/ WorkerFault(n),
         UNCHANGED <<gateVars, brokerVars>>
  PROVE  AllHomed'
<1>1. /\ queue \in [Queues -> Seq(Message)] /\ WorkerTypeOK /\ WorkerOK(n)
      /\ HomedQueues /\ WorkerHomed(n)
  BY DEF IInv, TypeOK, StoreTypeOK, InvWorker, AllHomed, HomedQueues
<1>2. \A k \in Nodes \ {n} : npc'[k] = npc[k] /\ nmsg'[k] = nmsg[k]
                             /\ ntodo'[k] = ntodo[k]
  BY <1>1, WorkerAlone DEF WorkerSame
<1>3. ASSUME HomedQueues', WorkerHomed(n)' PROVE AllHomed'
  BY <1>2, <1>3, PodHomes
<1>4. queue' = queue => HomedQueues'
  BY <1>1, HomedStays
<1>5. ASSUME npc[n] # "idle", Requeue(nmsg[n]) PROVE HomedQueues'
  <2>1. nmsg[n] \in Message /\ nmsg[n].queue \in Queues /\ Homed(nmsg[n])
    BY <1>1, <1>5 DEF WorkerOK, Good, WorkerHomed, Queues
  <2>. QED BY <1>1, <1>5, <2>1, HomedJoins
<1>. USE DEF WorkerTypeOK, WorkerHomed, Homed, At, txData
<1>6. CASE WorkerDeliver(n)
  <2>1. /\ HomedQueues' /\ Head(queue["node"]).queue = "node"
        /\ Homed(Head(queue["node"]))
    BY <1>1, <1>6, HomedLeaves DEF WorkerDeliver, Queues
  <2>. QED BY <1>1, <1>3, <1>6, <2>1 DEF WorkerDeliver
<1>7. CASE \/ WorkerCheck(n) \/ WorkerMarkRunning(n) \/ WorkerExecute(n)
           \/ WorkerExecuteFails(n) \/ WorkerComplete(n) \/ WorkerFailTask(n)
           \/ WorkerCommit(n)
  <2>1. queue' = queue /\ nmsg' = nmsg /\ ntodo' = ntodo /\ npc[n] # "idle"
    BY <1>7 DEF WorkerCheck, WorkerMarkRunning, WorkerExecute,
       WorkerExecuteFails, WorkerComplete, WorkerFailTask, WorkerCommit, storeVars
  <2>. QED BY <1>1, <1>3, <1>4, <2>1
<1>8. CASE WorkerReadDag(n)
  <2>1. \A m \in ntodo'[n] : Homed(m)
    BY <1>1, <1>8, MessagesHomed DEF WorkerReadDag, Ready
  <2>2. queue' = queue /\ nmsg' = nmsg /\ npc[n] # "idle"
    BY <1>8 DEF WorkerReadDag
  <2>. QED BY <1>1, <1>3, <1>4, <2>1, <2>2
<1>9. CASE WorkerFailWorkflow(n)
  <2>1. \A m \in ntodo'[n] : Homed(m)
    BY <1>1, <1>9, MessagesHomed DEF WorkerFailWorkflow, Compensable
  <2>2. queue' = queue /\ nmsg' = nmsg /\ npc[n] # "idle"
    BY <1>9 DEF WorkerFailWorkflow
  <2>. QED BY <1>1, <1>3, <1>4, <2>1, <2>2
<1>10. CASE WorkerPublish(n)
  <2>1. PICK m \in ntodo[n] : Send(m) /\ ntodo' = [ntodo EXCEPT ![n] = @ \ {m}]
    BY <1>10 DEF WorkerPublish
  <2>2. m \in Message /\ Homed(m)
    BY <1>1, <2>1 DEF WorkerOK, Good
  <2>3. HomedQueues'
    BY <1>1, <2>1, <2>2, HomedJoins
  <2>4. ntodo'[n] \subseteq ntodo[n] /\ nmsg' = nmsg /\ npc' = npc
    BY <1>1, <1>10, <2>1 DEF WorkerPublish
  <2>. QED BY <1>1, <1>3, <2>3, <2>4
<1>11. CASE WorkerAck(n)
  BY <1>1, <1>3, <1>4, <1>11, ResetHomes DEF WorkerAck, storeVars
<1>12. CASE WorkerFatalCrash(n) \/ WorkerCrash(n)
  <2>1. HomedQueues' /\ ResetWorker(n)
    BY <1>5, <1>12 DEF WorkerFatalCrash, WorkerCrash
  <2>. QED BY <1>1, <1>3, <2>1, ResetHomes
<1>13. CASE \/ WorkerUnsupported(n) \/ WorkerDeadlockVictim(n) \/ WorkerError(n)
            \/ WorkerPublishFails(n)
  <2>1. npc[n] # "idle" /\ RollbackAndThrow(n)
    BY <1>13 DEF WorkerUnsupported, WorkerDeadlockVictim, WorkerError,
       WorkerPublishFails, Victim, WaitsFor, Wanted
  <2>. QED BY <2>1, ThrowHomes
<1>. QED
  BY <1>6, <1>7, <1>8, <1>9, <1>10, <1>11, <1>12, <1>13 DEF WorkerStep, WorkerFault

LEMMA ShutdownHomes ==
  ASSUME IInv, AllHomed, NEW n \in Nodes, PodShutdown(n),
         UNCHANGED <<gateVars, brokerVars>>
  PROVE  AllHomed'
<1>1. /\ queue \in [Queues -> Seq(Message)] /\ WorkerTypeOK /\ WorkerOK(n)
      /\ HomedQueues /\ WorkerHomed(n)
  BY DEF IInv, TypeOK, StoreTypeOK, InvWorker, AllHomed, HomedQueues
<1>2. Detached(n) \/ (npc[n] # "idle" /\ RollbackAndThrow(n)) \/ Vanished(n)
  BY ShutdownCases DEF IInv, TypeOK
<1>3. CASE Detached(n)
  <2>1. /\ npc' = npc /\ nmsg' = nmsg /\ ntodo' = ntodo
        /\ queue' = queue \/ (npc[n] # "idle" /\ Requeue(nmsg[n]))
    BY <1>3 DEF Detached, callbackVars, txData
  <2>2. npc[n] # "idle" =>
          nmsg[n] \in Message /\ nmsg[n].queue \in Queues /\ Homed(nmsg[n])
    BY <1>1 DEF WorkerOK, Good, WorkerHomed, Queues
  <2>3. HomedQueues'
    BY <1>1, <2>1, <2>2, HomedStays, HomedJoins
  <2>4. WorkerHomed(n)'
    BY <1>1, <2>1 DEF WorkerHomed, Homed
  <2>. QED BY <2>1, <2>3, <2>4, PodHomes
<1>4. CASE Vanished(n)
  <2>1. ResetWorker(n) /\ HomedQueues'
    BY <1>1, <1>4, HomedStays DEF Vanished
  <2>. QED BY <1>1, <2>1, ResetHomes, PodHomes
<1>. QED BY <1>2, <1>3, <1>4, ThrowHomes

LEMMA GateHomes ==
  ASSUME IInv, AllHomed, GateNext, UNCHANGED <<brokerVars, workerVars>>
  PROVE  AllHomed'
<1>1. queue \in [Queues -> Seq(Message)] /\ HomedQueues
  BY DEF IInv, TypeOK, StoreTypeOK, AllHomed, HomedQueues
<1>2. ASSUME HomedQueues', \A m \in gtodo' : Homed(m) PROVE AllHomed'
  BY <1>2 DEF AllHomed, HomedQueues, BrokerHomed, WorkerHomed, Homed, brokerVars,
     delivery, work, workerVars, callbackVars, txData
<1>3. queue' = queue => HomedQueues'
  BY <1>1, HomedStays
<1>4. CASE GateSubmit
  <2>1. queue' = queue /\ \A m \in gtodo' : Homed(m)
    BY <1>4, MessagesHomed DEF GateSubmit, Roots
  <2>. QED BY <1>2, <1>3, <2>1
<1>5. CASE GatePublish
  <2>1. PICK m \in gtodo : Send(m) /\ gtodo' = gtodo \ {m}
    BY <1>5 DEF GatePublish
  <2>2. m \in Message /\ Homed(m)
    BY <2>1 DEF IInv, InvQueues, Good, AllHomed
  <2>3. HomedQueues'
    BY <1>1, <2>1, <2>2, HomedJoins
  <2>. QED BY <1>2, <2>1, <2>3 DEF AllHomed
<1>6. CASE GatePublishFails \/ GateReply \/ GateCrash
  <2>1. queue' = queue /\ gtodo' \subseteq gtodo
    BY <1>6 DEF GatePublishFails, GateReply, GateCrash, storeVars
  <2>. QED BY <1>2, <1>3, <2>1 DEF AllHomed
<1>. QED BY <1>4, <1>5, <1>6 DEF GateNext, GateStep

LEMMA NextHomes ==
  ASSUME IInv, AllHomed, [Next]_vars
  PROVE  AllHomed'
<1>1. CASE GateNext /\ UNCHANGED <<brokerVars, workerVars>>
  BY <1>1, GateHomes
<1>2. ASSUME UNCHANGED <<queue, jpc, delivery, work, gateVars, workerVars>>
      PROVE  AllHomed'
  BY <1>2 DEF AllHomed, QueuesRouted, Waiting, BrokerHomed, WorkerHomed, Homed,
     delivery, work, gateVars, workerVars, callbackVars, txData
<1>3. CASE BrokerNext /\ UNCHANGED <<gateVars, workerVars>>
  <2>1. CASE (\E t \in Tasks : LockExpire(t)) \/ RedisRestart
    BY <1>2, <1>3, <2>1 DEF LockExpire, RedisRestart, storeVars
  <2>. QED BY <1>3, <2>1, BrokerHomes DEF BrokerNext
<1>4. CASE PodNext /\ UNCHANGED <<gateVars, brokerVars>>
  BY <1>4, PodCallback, CallbackHomes, ShutdownHomes DEF PodNext
<1>5. CASE UNCHANGED vars
  BY <1>2, <1>5 DEF vars, storeVars, brokerVars
<1>. QED BY <1>1, <1>3, <1>4, <1>5 DEF Next

LEMMA InitHomes == Init => AllHomed
<1>. SUFFICES ASSUME Init PROVE AllHomed
  OBVIOUS
<1>1. \A q \in Queues : Waiting(q) = {}
  BY EmptySeq DEF Init, StoreInit, Waiting
<1>. QED BY <1>1 DEF Init, GateInit, BrokerInit, WorkerInit, AllHomed, QueuesRouted,
                 BrokerHomed, WorkerHomed

\* A message for a task of the brokers never gets into the hands of a pod, nor
\* into the queue the pods listen to, whatever fails and whoever publishes it.
THEOREM JavaStaysJava == Spec => []AllHomed
<1>1. IInv /\ AllHomed /\ [Next]_vars => AllHomed'
  BY NextHomes
<1>. QED BY <1>1, InitHomes, Invariance, PTL DEF Spec

-----------------------------------------------------------------------------
(* The first tasks of the brokers.  Their rows are written by the gateway, *)
(* once, and by the thread that holds the lock of the task; the lock is    *)
(* held to the end, and the status check comes after it.                   *)

NothingBreaks == FaultKinds \cap {"crash", "error", "redis"} = {}

LEMMA LockedInit == Init => LockedThroughout
BY DEF Init, BrokerInit, LockedThroughout

LEMMA LockedStays ==
  ASSUME NothingBreaks, IInv, LockedThroughout, [Next]_vars
  PROVE  LockedThroughout'
<1>. SUFFICES ASSUME NEW d \in Consumers,
                     jpc'[d] \notin {"idle", "lock", "finish"}
              PROVE  rlock'[Own(d)'] = d
  BY DEF LockedThroughout
<1>1. CASE UNCHANGED brokerVars
  BY <1>1 DEF brokerVars, delivery, Own, LockedThroughout
<1>2. ASSUME NEW c \in Consumers, BrokerStep(c) \/ BrokerFault(c)
      PROVE  rlock'[Own(d)'] = d
  <2>1. CASE d # c
    <3>1. jpc[d] \notin {"idle", "lock", "finish"}
      BY <1>2, <2>1, BrokerAlone DEF BrokerSame, IInv, TypeOK
    <3>. QED BY <1>2, <2>1, <3>1, LockKept DEF LockedThroughout, IInv
  <2>2. CASE d = c /\ BrokerLock(c)
    <3>1. Own(c) \in Tasks
      BY <2>2, OwnTask DEF BrokerLock, IInv
    <3>. QED BY <2>2, <3>1 DEF BrokerLock, Own, delivery, IInv, TypeOK, BrokerTypeOK
  <2>3. CASE d = c /\ ~BrokerLock(c)
    <3>1. ~BrokerError(c) /\ ~BrokerCrash(c)
      BY DEF NothingBreaks, BrokerError, BrokerCrash, Fault
    <3>2. /\ jpc[c] \notin {"idle", "lock", "finish"}
          /\ rlock' = rlock /\ jmsg' = jmsg
      BY <1>2, <2>3, <3>1 DEF IInv, TypeOK, BrokerTypeOK, BrokerStep, BrokerFault,
         BrokerDeliver, BrokerLockTimeout, BrokerCheck, BrokerMarkRunning,
         BrokerExecute, BrokerRefuse, BrokerComplete, BrokerReadWorkflow,
         BrokerReadTasks, BrokerTrigger, BrokerPublish, BrokerSaveWorkflow,
         BrokerFailTask, BrokerFailWorkflow, BrokerCompensate, BrokerFinish,
         BrokerPublishFails, BrokerRedeliver, Goto, Reset, EnterFailure,
         EnterRescue, delivery
    <3>. QED BY <2>3, <3>2 DEF LockedThroughout, Own
  <2>. QED BY <2>1, <2>2, <2>3
<1>3. ASSUME NEW t \in Tasks, LockExpire(t) PROVE rlock'[Own(d)'] = d
  <2>1. jpc' = jpc /\ jmsg' = jmsg /\ rlock[Own(d)] = d
    BY <1>3 DEF LockExpire, delivery, LockedThroughout
  <2>2. Own(d) # t
    BY <1>3, <2>1, BrokerAssumption DEF LockExpire
  <2>. QED BY <1>3, <2>1, <2>2 DEF LockExpire, Own, IInv, TypeOK, BrokerTypeOK
<1>4. ~RedisRestart
  BY DEF NothingBreaks, RedisRestart, Fault
<1>. QED BY <1>1, <1>2, <1>3, <1>4 DEF Next, BrokerNext, vars

\* Two threads that have got past the lock have two tasks.
LEMMA LockedApart ==
  ASSUME LockedThroughout, NEW c \in Consumers, NEW d \in Consumers,
         jpc[c] \notin {"idle", "lock", "finish"},
         jpc[d] \notin {"idle", "lock", "finish"}, Own(c) = Own(d)
  PROVE  c = d
BY DEF LockedThroughout

LEMMA FirstTask ==
  ASSUME NEW t \in FirstTasks
  PROVE  /\ t \in Tasks /\ t \in JavaTasks
         /\ \A o \in Tasks : Comp(o) # NoTask => Comp(o) # t
         /\ \A x \in Tasks : TaskMessage(x).task = x
         /\ \A x \in Tasks : CompensationMessage(x).task = Comp(x)
                             /\ WorkerCompensation(x).task = Comp(x)
BY DEF FirstTasks, CompensationKeys, JavaTasks, TaskMessage, CompensationMessage,
   WorkerCompensation

\* What a thread of its own may do to a first task.
BrokerFirst(c, t) ==
  /\ \A m \in jtodo'[c] : m.task # t
  /\ jpc'[c] = "publish" => jcur'[c].task # t
  /\ st'[t] = st[t] \/ (Own(c) = t /\ st'[t] \in {"RUNNING", "FAILED", "COMPLETED"})
  /\ st'[t] # st[t] /\ st'[t] # "COMPLETED" => ~HasRun(t)
  /\ runs'[t] = runs[t] \/ (runs[t] = 0 /\ runs'[t] = 1 /\ Own(c) = t
                              /\ jpc[c] = "exec" /\ jpc'[c] = "complete")
  /\ jpc[c] = "complete" /\ Own(c) = t =>
       st'[t] = "COMPLETED" \/ (jpc'[c] = "complete" /\ Own(c)' = t)
  /\ jpc'[c] \in {"run", "exec", "fail"} /\ Own(c)' = t => ~HasRun(t) /\ runs'[t] = runs[t]

LEMMA BrokerIsFirst ==
  ASSUME NothingBreaks, IInv, LockedThroughout, NEW c \in Consumers,
         BrokerStep(c) \/ BrokerFault(c),
         NEW t \in FirstTasks, Unlisted(t), FirstTold(t), FreshHands(t)
  PROVE  BrokerFirst(c, t)
<1>1. /\ BrokerTypeOK /\ BrokerOK(c) /\ t \in Tasks
      /\ st \in [Tasks -> Status] /\ runs \in [Tasks -> 0 .. 2]
      /\ \A m \in jtodo[c] : m.task # t
      /\ jpc[c] = "publish" => jcur[c].task # t
  BY FirstTask DEF IInv, TypeOK, StoreTypeOK, InvBroker, Unlisted
<1>2. jpc[c] \in {"run", "exec", "fail"} /\ Own(c) = t => ~HasRun(t)
  BY DEF FreshHands
<1>. USE <1>1, <1>2 DEF BrokerTypeOK, BrokerFirst, Goto, delivery, work
<1>3. CASE BrokerDeliver(c) \/ BrokerLock(c) \/ BrokerLockTimeout(c)
  BY <1>3 DEF BrokerDeliver, BrokerLock, BrokerLockTimeout, storeVars
<1>4. CASE BrokerCheck(c)
  <2>1. ASSUME Own(c) = t, jpc'[c] = "run" PROVE ~HasRun(t)
    <3>1. jpc[c] = "check" /\ st[t] # "COMPLETED"
      BY <1>4, <2>1 DEF BrokerCheck, Terminal
    <3>2. ASSUME NEW d \in Consumers, jpc[d] = "complete", Own(d) = t PROVE FALSE
      BY <2>1, <3>1, <3>2, LockedApart
    <3>. QED BY <3>1, <3>2 DEF FirstTold
  <2>. QED BY <1>4, <2>1 DEF BrokerCheck, storeVars, Own
<1>5. CASE BrokerMarkRunning(c) \/ BrokerFailTask(c) \/ BrokerComplete(c)
  BY <1>5 DEF BrokerMarkRunning, BrokerFailTask, BrokerComplete, SaveTask, Own,
     HasRun
<1>6. CASE BrokerExecute(c)
  <2>1. Own(c) = t => runs[t] = 0
    BY <1>6 DEF BrokerExecute, HasRun
  <2>2. jpc[c] = "exec" /\ jpc'[c] = "complete" /\ Own(c)' = Own(c) /\ st' = st
    BY <1>6 DEF BrokerExecute, Own
  <2>3. runs'[t] = runs[t] \/ (runs[t] = 0 /\ runs'[t] = 1 /\ Own(c) = t)
    BY <1>6, <2>1 DEF BrokerExecute, Ran
  <2>. QED BY <1>6, <2>2, <2>3 DEF BrokerExecute
<1>7. CASE BrokerRefuse(c)
  BY <1>7 DEF BrokerRefuse, EnterFailure, Own
<1>8. CASE BrokerReadWorkflow(c) \/ BrokerFailWorkflow(c) \/ BrokerSaveWorkflow(c)
  BY <1>8 DEF BrokerReadWorkflow, BrokerFailWorkflow, BrokerSaveWorkflow, storeVars
<1>9. CASE BrokerReadTasks(c)
  <2>1. jtodo'[c] = jtodo[c] \/ jtodo'[c] = {TaskMessage(x) : x \in Ready(st)}
    BY <1>9 DEF BrokerReadTasks
  <2>2. \A m \in jtodo'[c] : m.task # t
    BY <2>1, FirstTask DEF FirstTold, Ready
  <2>. QED BY <1>9, <2>2 DEF BrokerReadTasks, storeVars
<1>10. CASE BrokerCompensate(c)
  <2>1. \A m \in jtodo'[c] : m.task # t
    BY <1>10, FirstTask DEF BrokerCompensate, Compensable
  <2>. QED BY <1>10, <2>1 DEF BrokerCompensate, storeVars
<1>11. CASE BrokerTrigger(c)
  BY <1>11 DEF BrokerTrigger, SaveTask
<1>12. CASE BrokerPublish(c) \/ BrokerPublishFails(c)
  BY <1>12 DEF BrokerPublish, BrokerPublishFails, EnterRescue
<1>13. CASE BrokerFinish(c)
  BY <1>13 DEF BrokerFinish, Reset, storeVars
<1>14. CASE BrokerRedeliver(c)
  BY <1>14 DEF BrokerRedeliver, Own
<1>15. ~BrokerError(c) /\ ~BrokerCrash(c)
  BY DEF NothingBreaks, BrokerError, BrokerCrash, Fault
<1>. QED
  BY <1>3, <1>4, <1>5, <1>6, <1>7, <1>8, <1>9, <1>10, <1>11, <1>12, <1>13, <1>14,
     <1>15 DEF BrokerStep, BrokerFault

LEMMA BrokerKeepsFirst ==
  ASSUME NothingBreaks, IInv, LockedThroughout, FirstInv, NEW c \in Consumers,
         BrokerStep(c) \/ BrokerFault(c), UNCHANGED <<gateVars, workerVars>>
  PROVE  FirstInv'
<1>. SUFFICES ASSUME NEW t \in FirstTasks
              PROVE  Unlisted(t)' /\ FirstTold(t)' /\ FreshHands(t)'
  BY DEF FirstInv
<1>1. /\ Unlisted(t) /\ FirstTold(t) /\ FreshHands(t) /\ t \in Tasks
      /\ BrokerTypeOK /\ runs \in [Tasks -> 0 .. 2]
  BY FirstTask DEF FirstInv, IInv, TypeOK, StoreTypeOK
<1>2. BrokerFirst(c, t)
  BY <1>1, BrokerIsFirst
<1>3. ASSUME NEW d \in Consumers, d # c
      PROVE  /\ jpc'[d] = jpc[d] /\ jtodo'[d] = jtodo[d] /\ jcur'[d] = jcur[d]
             /\ Own(d)' = Own(d)
  BY <1>1, <1>3, BrokerAlone DEF BrokerSame, Own
<1>4. Unlisted(t)'
  <2>1. ntodo' = ntodo /\ nrows' = nrows
    BY DEF workerVars, callbackVars, txData
  <2>. QED BY <1>1, <1>2, <1>3, <2>1 DEF Unlisted, BrokerFirst
<1>5. FirstTold(t)'
  <2>1. runs'[t] <= 1 /\ st'[t] # "PENDING"
    BY <1>1, <1>2 DEF FirstTold, BrokerFirst
  <2>2. ASSUME gpc' = "ready" PROVE ~HasRun(t)'
    <3>1. gpc = "ready" /\ jpc[c] # "exec"
      BY <2>2 DEF gateVars, IInv, InvBroker, BrokerOK, Good
    <3>. QED BY <1>1, <1>2, <3>1 DEF FirstTold, BrokerFirst, HasRun
  <2>3. ASSUME HasRun(t)', st'[t] # "COMPLETED"
        PROVE  \E d \in Consumers : jpc'[d] = "complete" /\ Own(d)' = t
    <3>1. CASE runs'[t] # runs[t]
      <4>1. jpc[c] = "exec" /\ jpc'[c] = "complete" /\ Own(c) = t
        BY <1>2, <3>1 DEF BrokerFirst
      <4>2. BrokerExecute(c)
        BY <1>1, <4>1 DEF BrokerTypeOK, BrokerStep, BrokerFault, BrokerDeliver,
           BrokerLock, BrokerLockTimeout, BrokerCheck, BrokerMarkRunning,
           BrokerRefuse, BrokerComplete, BrokerReadWorkflow, BrokerReadTasks,
           BrokerTrigger, BrokerPublish, BrokerSaveWorkflow, BrokerFailTask,
           BrokerFailWorkflow, BrokerCompensate, BrokerFinish, BrokerError,
           BrokerPublishFails, BrokerCrash, BrokerRedeliver, Goto, Reset,
           EnterFailure, EnterRescue
      <4>. QED BY <4>1, <4>2 DEF BrokerExecute, delivery, Own
    <3>2. CASE runs'[t] = runs[t]
      <4>1. HasRun(t) /\ st'[t] = st[t]
        BY <1>2, <2>3, <3>2 DEF HasRun, BrokerFirst
      <4>2. PICK d \in Consumers : jpc[d] = "complete" /\ Own(d) = t
        BY <1>1, <2>3, <4>1 DEF FirstTold
      <4>. QED BY <1>2, <1>3, <2>3, <4>2 DEF BrokerFirst
    <3>. QED BY <3>1, <3>2
  <2>. QED BY <2>1, <2>2, <2>3 DEF FirstTold
<1>6. FreshHands(t)'
  <2>. SUFFICES ASSUME NEW d \in Consumers, jpc'[d] \in {"run", "exec", "fail"},
                       Own(d)' = t
                PROVE  ~HasRun(t)'
    BY DEF FreshHands
  <2>1. CASE d = c
    BY <1>2, <2>1 DEF BrokerFirst, HasRun
  <2>2. CASE d # c
    <3>1. jpc[d] \in {"run", "exec", "fail"} /\ Own(d) = t
      BY <1>3, <2>2
    <3>2. ~(jpc[c] = "exec" /\ Own(c) = t)
      BY <2>2, <3>1, LockedApart
    <3>. QED BY <1>1, <1>2, <3>1, <3>2 DEF BrokerFirst, FreshHands, HasRun
  <2>. QED BY <2>1, <2>2
<1>. QED BY <1>4, <1>5, <1>6

\* A step after which the row of t and the threads are what they were.
LEMMA FirstStays ==
  ASSUME NEW t \in FirstTasks, FirstTold(t), FreshHands(t),
         st'[t] = st[t], runs'[t] = runs[t], UNCHANGED <<gpc, brokerVars>>
  PROVE  FirstTold(t)' /\ FreshHands(t)'
<1>1. jpc' = jpc /\ jmsg' = jmsg
  BY DEF brokerVars, delivery
<1>2. FirstTold(t)'
  BY <1>1 DEF FirstTold, HasRun, Own
<1>. QED BY <1>1, <1>2 DEF FreshHands, HasRun, Own

\* What is left to show of a step of n: that it lists no first task.
LEMMA PodUnlisted ==
  ASSUME NEW t \in FirstTasks, Unlisted(t), NEW n \in Nodes, UNCHANGED brokerVars,
         \A k \in Nodes \ {n} : ntodo'[k] = ntodo[k] /\ nrows'[k] = nrows[k],
         t \notin nrows'[n], \A m \in ntodo'[n] : m.task # t
  PROVE  Unlisted(t)'
BY DEF Unlisted, brokerVars, work

LEMMA PodHasNone ==
  ASSUME AllHomed, NEW n \in Nodes, npc[n] # "idle", NEW t \in FirstTasks
  PROVE  Mine(n) # t
BY FirstTask DEF AllHomed, WorkerHomed, Homed, Mine

LEMMA CallbackKeepsFirst ==
  ASSUME IInv, AllHomed, FirstInv, NEW n \in Nodes,
         WorkerStep(n) \/ WorkerFault(n), UNCHANGED <<gateVars, brokerVars, link>>
  PROVE  FirstInv'
<1>. SUFFICES ASSUME NEW t \in FirstTasks
              PROVE  Unlisted(t)' /\ FirstTold(t)' /\ FreshHands(t)'
  BY DEF FirstInv
<1>1. /\ Unlisted(t) /\ FirstTold(t) /\ FreshHands(t) /\ t \in Tasks
      /\ WorkerTypeOK /\ st \in [Tasks -> Status] /\ runs \in [Tasks -> 0 .. 2]
      /\ t \notin nrows[n] /\ \A m \in ntodo[n] : m.task # t
      /\ npc[n] # "idle" => Mine(n) # t
  BY FirstTask, PodHasNone DEF FirstInv, IInv, TypeOK, StoreTypeOK, Unlisted
<1>2. \A k \in Nodes \ {n} : ntodo'[k] = ntodo[k] /\ nrows'[k] = nrows[k]
  BY <1>1, WorkerAlone, CallbackAlone DEF WorkerSame, Alone
<1>3. ASSUME st'[t] = st[t], runs'[t] = runs[t], t \notin nrows'[n],
             \A m \in ntodo'[n] : m.task # t
      PROVE  Unlisted(t)' /\ FirstTold(t)' /\ FreshHands(t)'
  BY <1>1, <1>2, <1>3, FirstStays, PodUnlisted DEF gateVars
<1>. USE <1>1 DEF WorkerTypeOK, At, txData
<1>4. CASE WorkerDeliver(n) \/ WorkerCheck(n)
  BY <1>3, <1>4 DEF WorkerDeliver, WorkerCheck, storeVars
<1>5. CASE WorkerMarkRunning(n) \/ WorkerComplete(n)
  BY <1>3, <1>5 DEF WorkerMarkRunning, WorkerComplete, UpdateTask
<1>6. CASE WorkerExecute(n)
  BY <1>3, <1>6 DEF WorkerExecute, Ran
<1>7. CASE WorkerExecuteFails(n) \/ WorkerFailTask(n)
  BY <1>3, <1>7 DEF WorkerExecuteFails, WorkerFailTask
<1>8. CASE WorkerFatalCrash(n) \/ WorkerAck(n) \/ WorkerCrash(n)
  BY <1>3, <1>8 DEF WorkerFatalCrash, WorkerAck, WorkerCrash, ResetWorker, storeVars
<1>9. CASE WorkerReadDag(n)
  <2>1. \A m \in ntodo'[n] : m.task # t
    BY <1>9, FirstTask DEF WorkerReadDag, Ready, FirstTold
  <2>. QED BY <1>3, <1>9, <2>1 DEF WorkerReadDag
<1>10. CASE WorkerFailWorkflow(n)
  <2>1. \A m \in ntodo'[n] : m.task # t
    BY <1>10, FirstTask DEF WorkerFailWorkflow, Compensable
  <2>. QED BY <1>3, <1>10, <2>1 DEF WorkerFailWorkflow
<1>11. CASE WorkerPublish(n)
  BY <1>3, <1>11 DEF WorkerPublish
<1>12. CASE WorkerCommit(n)
  <2>1. st'[t] = st[t]
    BY <1>12 DEF WorkerCommit
  <2>. QED BY <1>3, <1>12, <2>1 DEF WorkerCommit
<1>13. ASSUME RollbackAndThrow(n), UNCHANGED <<st, runs>>
       PROVE  Unlisted(t)' /\ FirstTold(t)' /\ FreshHands(t)'
  BY <1>3, <1>13 DEF RollbackAndThrow, ResetWorker
<1>14. CASE \/ WorkerUnsupported(n) \/ WorkerDeadlockVictim(n) \/ WorkerError(n)
            \/ WorkerPublishFails(n)
  BY <1>13, <1>14 DEF WorkerUnsupported, WorkerDeadlockVictim, WorkerError,
     WorkerPublishFails
<1>. QED
  BY <1>4, <1>5, <1>6, <1>7, <1>8, <1>9, <1>10, <1>11, <1>12, <1>14
     DEF WorkerStep, WorkerFault

LEMMA ShutdownKeepsFirst ==
  ASSUME IInv, FirstInv, NEW n \in Nodes, PodShutdown(n),
         UNCHANGED <<gateVars, brokerVars>>
  PROVE  FirstInv'
<1>. SUFFICES ASSUME NEW t \in FirstTasks
              PROVE  Unlisted(t)' /\ FirstTold(t)' /\ FreshHands(t)'
  BY DEF FirstInv
<1>1. /\ Unlisted(t) /\ FirstTold(t) /\ FreshHands(t) /\ WorkerTypeOK /\ PodTypeOK
      /\ t \notin nrows[n] /\ \A m \in ntodo[n] : m.task # t
  BY DEF FirstInv, IInv, TypeOK, Unlisted
<1>2. /\ UNCHANGED <<st, runs>>
      /\ Detached(n) \/ RollbackAndThrow(n) \/ Vanished(n)
  BY <1>1, ShutdownCases
<1>3. /\ \A k \in Nodes \ {n} : ntodo'[k] = ntodo[k] /\ nrows'[k] = nrows[k]
      /\ t \notin nrows'[n] /\ \A m \in ntodo'[n] : m.task # t
  BY <1>1, <1>2 DEF Detached, RollbackAndThrow, Vanished, ResetWorker, callbackVars,
     txData, WorkerTypeOK
<1>. QED BY <1>1, <1>2, <1>3, FirstStays, PodUnlisted DEF gateVars

LEMMA GateKeepsFirst ==
  ASSUME IInv, FirstInv, GateNext, UNCHANGED <<brokerVars, workerVars>>
  PROVE  FirstInv'
<1>. SUFFICES ASSUME NEW t \in FirstTasks
              PROVE  Unlisted(t)' /\ FirstTold(t)' /\ FreshHands(t)'
  BY DEF FirstInv
<1>1. Unlisted(t) /\ FirstTold(t) /\ FreshHands(t) /\ t \in Tasks /\ t \in Roots
  BY FirstTask DEF FirstInv, FirstTasks
<1>2. Unlisted(t)'
  BY <1>1 DEF Unlisted, brokerVars, work, workerVars, callbackVars, txData
<1>3. jpc' = jpc /\ jmsg' = jmsg /\ runs' = runs
  BY DEF brokerVars, delivery, GateNext, GateStep, GateSubmit, GatePublish,
     GatePublishFails, GateReply, GateCrash, storeVars
<1>4. FreshHands(t)'
  BY <1>1, <1>3 DEF FreshHands, HasRun, Own
<1>5. CASE GateSubmit
  <2>1. ~HasRun(t) /\ st'[t] = "RUNNING"
    BY <1>1, <1>5 DEF GateSubmit, FirstTold
  <2>. QED BY <1>1, <1>2, <1>3, <1>4, <2>1 DEF FirstTold, HasRun
<1>6. CASE ~GateSubmit
  <2>1. st' = st /\ (gpc' = "ready" => gpc = "ready")
    BY <1>6 DEF GateNext, GateStep, GatePublish, GatePublishFails, GateReply,
       GateCrash, storeVars
  <2>. QED BY <1>1, <1>2, <1>3, <1>4, <2>1 DEF FirstTold, HasRun, Own
<1>. QED BY <1>5, <1>6

LEMMA NextFirst ==
  ASSUME NothingBreaks, IInv, AllHomed, LockedThroughout, FirstInv, [Next]_vars
  PROVE  FirstInv'
<1>1. CASE GateNext /\ UNCHANGED <<brokerVars, workerVars>>
  BY <1>1, GateKeepsFirst
<1>2. ASSUME UNCHANGED <<st, runs, jpc, delivery, work, gateVars, workerVars>>
      PROVE  FirstInv'
  BY <1>2 DEF FirstInv, Unlisted, FirstTold, FreshHands, HasRun, Own, delivery, work,
     gateVars, workerVars, callbackVars, txData
<1>3. CASE BrokerNext /\ UNCHANGED <<gateVars, workerVars>>
  <2>1. CASE (\E t \in Tasks : LockExpire(t)) \/ RedisRestart
    BY <1>2, <1>3, <2>1 DEF LockExpire, RedisRestart, storeVars
  <2>. QED BY <1>3, <2>1, BrokerKeepsFirst DEF BrokerNext
<1>4. CASE PodNext /\ UNCHANGED <<gateVars, brokerVars>>
  BY <1>4, PodCallback, CallbackKeepsFirst, ShutdownKeepsFirst DEF PodNext
<1>5. CASE UNCHANGED vars
  BY <1>2, <1>5 DEF vars, storeVars, brokerVars
<1>. QED BY <1>1, <1>3, <1>4, <1>5 DEF Next

LEMMA InitFirst == Init => FirstInv
BY FirstTask DEF Init, StoreInit, GateInit, BrokerInit, WorkerInit, FirstInv, Unlisted,
   FirstTold, FreshHands, HasRun

\* A first task of the brokers, such as the payment an order starts with, is
\* executed at most once, however often its message is delivered, pods are
\* stopped or RabbitMQ refuses a message: the lock and the status check do what
\* they are there for.
THEOREM FirstTasksRunOnce ==
  ASSUME NothingBreaks
  PROVE  Spec => []FirstOnce
<1>1. IInv /\ LockedThroughout /\ [Next]_vars => LockedThroughout'
  BY LockedStays
<1>2. IInv /\ AllHomed /\ LockedThroughout /\ FirstInv /\ [Next]_vars => FirstInv'
  BY NextFirst
<1>3. FirstInv => FirstOnce
  BY DEF FirstInv, FirstTold, FirstOnce
<1>. QED
  BY <1>1, <1>2, <1>3, LockedInit, InitFirst, Invariance, JavaStaysJava, PTL DEF Spec

-----------------------------------------------------------------------------
(* The account. *)

LEMMA PaymentsAreJava ==
  ASSUME PaymentsOrdered, NEW t \in Tasks, Pays(t)
  PROVE  t \in JavaTasks
BY DagAssumption DEF PaymentsOrdered, JavaTasks

LEMMA ExecutionsFinite ==
  ASSUME IsFiniteSet(Tasks), NEW key
  PROVE  IsFiniteSet(Executed(key)) /\ Executions(key) \in Nat
<1>1. IsFiniteSet(1 .. 2)
  <2>1. (1 .. 2) \in SUBSET Nat /\ 2 \in Nat /\ \A i \in 1 .. 2 : i <= 2
    OBVIOUS
  <2>. QED BY <2>1, FS_BoundedSetOfNaturals
<1>2. IsFiniteSet(Tasks \X (1 .. 2))
  BY <1>1, FS_Product
<1>3. Executed(key) \in SUBSET (Tasks \X (1 .. 2))
  BY DEF Executed
<1>4. IsFiniteSet(Executed(key))
  BY <1>2, <1>3, FS_Subset
<1>. QED BY <1>4, FS_CardinalityType DEF Executions

LEMMA ExecutionsSame ==
  ASSUME NEW key, \A t \in Tasks : Dag[t].key = key => runs'[t] = runs[t]
  PROVE  Executions(key)' = Executions(key)
<1>1. Executed(key)' = Executed(key)
  BY DEF Executed
<1>. QED BY <1>1 DEF Executions

LEMMA ExecutionsGrow ==
  ASSUME IsFiniteSet(Tasks), runs \in [Tasks -> 0 .. 2], NEW u \in Tasks,
         runs[u] = 0, Ran(u), NEW key, Dag[u].key = key
  PROVE  Executions(key)' = Executions(key) + 1
<1>1. /\ runs'[u] = 1
      /\ \A t \in Tasks : t # u => runs'[t] = runs[t]
  BY DEF Ran
<1>2. <<u, 1>> \in Tasks \X (1 .. 2) /\ <<u, 1>> \notin Executed(key)
  BY DEF Executed
<1>3. Executed(key)' = Executed(key) \cup {<<u, 1>>}
  <2>1. ASSUME NEW e \in Tasks \X (1 .. 2)
        PROVE  e \in Executed(key)' <=> e \in Executed(key) \/ e = <<u, 1>>
    <3>1. e[1] \in Tasks /\ e[2] \in 1 .. 2 /\ e = <<e[1], e[2]>>
      OBVIOUS
    <3>2. CASE e[1] = u
      <4>1. e \in Executed(key)' <=> e[2] = 1
        BY <1>1, <3>1, <3>2 DEF Executed
      <4>2. e \notin Executed(key)
        BY <3>1, <3>2 DEF Executed
      <4>3. e = <<u, 1>> <=> e[2] = 1
        BY <3>1, <3>2
      <4>. QED BY <4>1, <4>2, <4>3
    <3>3. CASE e[1] # u
      <4>1. e \in Executed(key)' <=> e \in Executed(key)
        BY <1>1, <3>1, <3>3 DEF Executed
      <4>2. e # <<u, 1>>
        BY <3>3
      <4>. QED BY <4>1, <4>2
    <3>. QED BY <3>2, <3>3
  <2>2. Executed(key)' \subseteq Tasks \X (1 .. 2)
    BY DEF Executed
  <2>3. Executed(key) \subseteq Tasks \X (1 .. 2)
    BY DEF Executed
  <2>. HIDE DEF Executed
  <2>. QED BY <1>2, <2>1, <2>2, <2>3
<1>4. IsFiniteSet(Executed(key))
  BY ExecutionsFinite
<1>5. Cardinality(Executed(key) \cup {<<u, 1>>}) = Cardinality(Executed(key)) + 1
  BY <1>2, <1>4, FS_AddElement
<1>. QED BY <1>3, <1>5 DEF Executions

\* A body that returns has been executed, and it alone.
LEMMA WorkedExecutes ==
  ASSUME TypeOK, [Next]_vars, NEW c \in Consumers, Worked(c)
  PROVE  BrokerExecute(c)
<1>1. jpc[c] = "exec" /\ jpc'[c] = "complete" /\ BrokerTypeOK
  BY DEF Worked, TypeOK
<1>2. PICK d \in Consumers : BrokerStep(d) \/ BrokerFault(d)
  <2>1. jpc' # jpc
    BY <1>1
  <2>. QED BY <2>1 DEF Next, BrokerNext, LockExpire, RedisRestart, vars, brokerVars
<1>3. d = c
  BY <1>1, <1>2, BrokerAlone DEF BrokerSame
<1>. QED
  BY <1>1, <1>2, <1>3 DEF BrokerTypeOK, BrokerStep, BrokerFault, BrokerDeliver,
     BrokerLock, BrokerLockTimeout, BrokerCheck, BrokerMarkRunning, BrokerRefuse,
     BrokerComplete, BrokerReadWorkflow, BrokerReadTasks, BrokerTrigger,
     BrokerPublish, BrokerSaveWorkflow, BrokerFailTask, BrokerFailWorkflow,
     BrokerCompensate, BrokerFinish, BrokerError, BrokerPublishFails, BrokerCrash,
     BrokerRedeliver, Goto, Reset, EnterFailure, EnterRescue

\* Who else lets a body run.
LEMMA RunsStep ==
  ASSUME TypeOK, [Next]_vars, \A c \in Consumers : ~Worked(c)
  PROVE  runs' = runs \/ \E n \in Nodes : npc[n] = "exec" /\ Ran(Mine(n))
<1>1. CASE GateNext \/ UNCHANGED vars
  BY <1>1 DEF GateNext, GateStep, GateSubmit, GatePublish, GatePublishFails,
     GateReply, GateCrash, storeVars, vars
<1>2. CASE BrokerNext
  <2>1. ASSUME NEW c \in Consumers, BrokerExecute(c) PROVE FALSE
    BY <2>1 DEF BrokerExecute, Worked, Goto, TypeOK, BrokerTypeOK
  <2>. QED
    BY <1>2, <2>1 DEF BrokerNext, BrokerStep, BrokerFault, BrokerDeliver, BrokerLock,
       BrokerLockTimeout, BrokerCheck, BrokerMarkRunning, BrokerRefuse,
       BrokerComplete, BrokerReadWorkflow, BrokerReadTasks, BrokerTrigger,
       BrokerPublish, BrokerSaveWorkflow, BrokerFailTask, BrokerFailWorkflow,
       BrokerCompensate, BrokerFinish, BrokerError, BrokerPublishFails, BrokerCrash,
       BrokerRedeliver, LockExpire, RedisRestart, storeVars
<1>3. CASE PodNext
  <2>1. PICK n \in Nodes :
          (WorkerStep(n) \/ WorkerFault(n)) \/ PodShutdown(n)
    BY <1>3, PodCallback DEF PodNext
  <2>2. CASE PodShutdown(n)
    BY <2>2, ShutdownCases DEF TypeOK
  <2>3. CASE WorkerExecute(n)
    BY <2>3 DEF WorkerExecute
  <2>4. CASE ~WorkerExecute(n) /\ (WorkerStep(n) \/ WorkerFault(n))
    BY <2>4 DEF WorkerStep, WorkerFault, WorkerDeliver, WorkerCheck,
       WorkerMarkRunning, WorkerExecuteFails, WorkerFatalCrash, WorkerComplete,
       WorkerReadDag, WorkerFailTask, WorkerFailWorkflow, WorkerPublish,
       WorkerCommit, WorkerAck, WorkerUnsupported, WorkerDeadlockVictim,
       WorkerError, WorkerPublishFails, WorkerCrash, storeVars
  <2>. QED BY <2>1, <2>2, <2>3, <2>4
<1>. QED BY <1>1, <1>2, <1>3 DEF Next

\* While a body runs its thread keeps the message.
LEMMA BodyKeepsMessage ==
  ASSUME TypeOK, [Next]_vars, NEW c \in Consumers, jpc[c] = "exec",
         jpc'[c] = "exec"
  PROVE  jmsg'[c] = jmsg[c]
<1>1. CASE UNCHANGED <<jpc, delivery, work>>
  BY <1>1 DEF delivery
<1>2. ASSUME NEW d \in Consumers, BrokerStep(d) \/ BrokerFault(d)
      PROVE  jmsg'[c] = jmsg[c]
  <2>1. CASE d # c
    BY <1>2, <2>1, BrokerAlone DEF BrokerSame, TypeOK
  <2>2. CASE d = c
    BY <1>2, <2>2 DEF TypeOK, BrokerTypeOK, BrokerStep, BrokerFault, BrokerDeliver,
       BrokerLock, BrokerLockTimeout, BrokerCheck, BrokerMarkRunning,
       BrokerExecute, BrokerRefuse, BrokerComplete, BrokerReadWorkflow,
       BrokerReadTasks, BrokerTrigger, BrokerPublish, BrokerSaveWorkflow,
       BrokerFailTask, BrokerFailWorkflow, BrokerCompensate, BrokerFinish,
       BrokerError, BrokerPublishFails, BrokerCrash, BrokerRedeliver, Goto, Reset,
       EnterFailure, EnterRescue
  <2>. QED BY <2>1, <2>2
<1>. QED BY <1>1, <1>2 DEF Next, BrokerNext, LockExpire, RedisRestart, vars, brokerVars

\* What is after p has not begun before p has taken effect.
LEMMA AllowedAfter ==
  ASSUME NEW p \in Tasks, NEW q \in Tasks, After(q, p), Allowed(q)
  PROVE  HasRun(p)
<1>1. CASE CalledFor(q)
  <2>1. PICK o \in Tasks : Comp(o) = q /\ HasRun(o)
    BY <1>1 DEF CalledFor
  <2>2. q \in CompensationKeys
    BY <2>1, DagAssumption DEF CompensationKeys
  <2>. QED BY <2>1, <2>2 DEF After
<1>2. CASE ~CalledFor(q)
  BY <1>2 DEF Allowed, After
<1>. QED BY <1>1, <1>2

\* Of two payments, one has run before the other begins.
LEMMA PaymentsApart ==
  ASSUME PaymentsOrdered, IInv, NEW c \in Consumers, jpc[c] = "exec",
         NEW p \in Tasks, Pays(p), Pays(Own(c)), p # Own(c), ~HasRun(p)
  PROVE  After(p, Own(c))
<1>1. Own(c) \in Tasks
  BY OwnTask DEF IInv
<1>2. Allowed(Own(c))
  BY GoodTask DEF IInv, InvBroker, BrokerOK, Own
<1>3. ~After(Own(c), p)
  BY <1>1, <1>2, AllowedAfter
<1>. QED BY <1>1, <1>3 DEF PaymentsOrdered

LEMMA LedgerSteps ==
  ASSUME [LedgerNext]_ledgerVars
  PROVE  [Next]_vars
BY DEF LedgerNext, LedgerRead, ledgerVars

\* The business tables add nothing to what the engine does.
THEOREM LedgerDrivesEngine == LedgerSpec => Spec
<1>1. LedgerInit => Init
  BY DEF LedgerInit
<1>2. [LedgerNext]_ledgerVars => [Next]_vars
  BY LedgerSteps
<1>. QED BY <1>1, <1>2, PTL DEF LedgerSpec, Spec

LEMMA ReadKeeps ==
  ASSUME LedgerInv, NEW c \in Consumers, LedgerRead(c)
  PROVE  LedgerInv'
<1>1. /\ seen' = [seen EXCEPT ![c] = balance] /\ balance' = balance
      /\ jpc' = jpc /\ jmsg' = jmsg /\ runs' = runs
      /\ jpc[c] = "exec" /\ Pays(Own(c))
  BY DEF LedgerRead, vars, storeVars, brokerVars, delivery, Pays, Key
<1>2. \A d \in Consumers : Own(d)' = Own(d)
  BY <1>1 DEF Own
<1>3. NoLostUpdate' <=> NoLostUpdate
  BY <1>1 DEF NoLostUpdate, Executions, Executed
<1>4. ReadIsFresh => ReadIsFresh'
  BY <1>1, <1>2 DEF LedgerInv, ReadIsFresh, HasRun, Unread
<1>5. AtMostOnce' <=> AtMostOnce
  BY <1>1 DEF AtMostOnce
<1>6. /\ balance' \in Nat /\ seen' \in [Consumers -> Nat]
      /\ \A d \in Consumers : jpc'[d] # "exec" => seen'[d] = Unread
      /\ \A d \in Consumers : seen'[d] # Unread => Pays(Own(d)')
  BY <1>1, <1>2 DEF LedgerInv
<1>. QED BY <1>3, <1>4, <1>5, <1>6 DEF LedgerInv, Unread, Pays

\* What every step of the engine does to the transactions that go on.
LEMMA SeenKeeps ==
  ASSUME LedgerInv, TypeOK, [Next]_vars,
         seen' = [c \in Consumers |-> IF jpc'[c] = "exec" THEN seen[c] ELSE Unread]
  PROVE  /\ seen' \in [Consumers -> Nat]
         /\ \A d \in Consumers : jpc'[d] # "exec" => seen'[d] = Unread
         /\ \A d \in Consumers :
              seen'[d] # Unread =>
                /\ jpc[d] = "exec" /\ jpc'[d] = "exec" /\ seen'[d] = seen[d]
                /\ Own(d)' = Own(d) /\ Pays(Own(d))
<1>1. Unread \in Nat
  BY FundsAssumption DEF Unread
<1>2. ASSUME NEW d \in Consumers, seen'[d] # Unread
      PROVE  /\ jpc[d] = "exec" /\ jpc'[d] = "exec" /\ seen'[d] = seen[d]
             /\ Own(d)' = Own(d) /\ Pays(Own(d))
  <2>1. jpc'[d] = "exec" /\ seen'[d] = seen[d]
    BY <1>2
  <2>2. jpc[d] = "exec" /\ Pays(Own(d))
    BY <1>2, <2>1 DEF LedgerInv
  <2>. QED BY <2>1, <2>2, BodyKeepsMessage DEF Own
<1>. QED BY <1>1, <1>2 DEF LedgerInv

\* AtMostOnce does not come back once it is lost.
LEMMA OnceBefore ==
  ASSUME runs \in [Tasks -> 0 .. 2],
         runs' = runs \/ \E u \in Tasks : Ran(u), AtMostOnce'
  PROVE  /\ AtMostOnce
         /\ \A u \in Tasks : Ran(u) => runs[u] = 0
<1>1. CASE runs' = runs
  <2>1. ASSUME NEW u \in Tasks, Ran(u) PROVE runs[u] = 0
    BY <1>1, <2>1 DEF Ran, AtMostOnce
  <2>. QED BY <1>1, <2>1 DEF AtMostOnce
<1>2. ASSUME NEW u \in Tasks, Ran(u)
      PROVE  AtMostOnce /\ runs[u] = 0
  <2>1. /\ runs[u] \in 0 .. 2 /\ \A t \in Tasks : t # u => runs'[t] = runs[t]
        /\ runs'[u] = IF runs[u] < 2 THEN runs[u] + 1 ELSE runs[u]
    BY <1>2 DEF Ran
  <2>2. runs'[u] <= 1 /\ \A t \in Tasks : runs'[t] <= 1
    BY DEF AtMostOnce
  <2>. QED BY <2>1, <2>2 DEF AtMostOnce
<1>. QED BY <1>1, <1>2

\* A step in which no body returns.
LEMMA NoneWorked ==
  ASSUME PaymentsOrdered, IInv, AllHomed, LedgerInv, [Next]_vars,
         \A c \in Consumers : ~Worked(c), balance' = balance,
         seen' = [c \in Consumers |-> IF jpc'[c] = "exec" THEN seen[c] ELSE Unread]
  PROVE  LedgerInv'
<1>1. TypeOK /\ runs \in [Tasks -> 0 .. 2]
  BY DEF IInv, TypeOK, StoreTypeOK
<1>2. runs' = runs \/ \E n \in Nodes : npc[n] = "exec" /\ Ran(Mine(n))
  BY <1>1, RunsStep
<1>3. runs' = runs \/ \E u \in Tasks : Ran(u) /\ ~Pays(u)
  <2>1. ASSUME NEW n \in Nodes, npc[n] = "exec"
        PROVE  Mine(n) \in Tasks /\ ~Pays(Mine(n))
    <3>1. Mine(n) \in Tasks
      BY <1>1, <2>1, MineTask
    <3>2. Mine(n) \notin JavaTasks
      BY <2>1 DEF AllHomed, WorkerHomed, Homed, Mine
    <3>. QED BY <3>1, <3>2, PaymentsAreJava
  <2>. QED BY <1>2, <2>1
<1>4. \A t \in Tasks : Pays(t) => runs'[t] = runs[t]
  BY <1>1, <1>3 DEF Ran
<1>5. \A key \in Payments : Executions(key)' = Executions(key)
  BY <1>4, ExecutionsSame DEF Pays
<1>6. NoLostUpdate' <=> NoLostUpdate
  BY <1>5 DEF NoLostUpdate, Payments
<1>7. AtMostOnce' => AtMostOnce
  BY <1>1, <1>3, OnceBefore
<1>8. ReadIsFresh => ReadIsFresh'
  <2>. SUFFICES ASSUME ReadIsFresh, NEW d \in Consumers, jpc'[d] = "exec",
                       seen'[d] # Unread, ~HasRun(Own(d))'
                PROVE  seen'[d] = balance
    BY DEF ReadIsFresh, Unread
  <2>1. /\ jpc[d] = "exec" /\ seen'[d] = seen[d] /\ Own(d)' = Own(d)
        /\ Pays(Own(d))
    BY <1>1, SeenKeeps
  <2>2. Own(d) \in Tasks
    BY <1>1, <2>1, OwnTask
  <2>3. ~HasRun(Own(d))
    BY <1>4, <2>1, <2>2 DEF HasRun
  <2>. QED BY <2>1, <2>3 DEF ReadIsFresh
<1>. QED BY <1>1, <1>6, <1>7, <1>8, SeenKeeps DEF LedgerInv, Unread, Pays

\* A step in which c's body returns and its transaction commits.
LEMMA OneWorked ==
  ASSUME PaymentsOrdered, IInv, LedgerInv, [Next]_vars,
         NEW c \in Consumers, Worked(c),
         \/ Key(c) = "create_order" /\ CreateOrder
         \/ Key(c) = "cancel_order" /\ CancelOrder
         \/ Key(c) = "charge_payment" /\ ChargePayment(c)
         \/ Key(c) = "refund_payment" /\ RefundPayment(c)
         \/ Key(c) = "unknown" /\ UNCHANGED <<balance, order>>,
         seen' = [d \in Consumers |-> IF jpc'[d] = "exec" THEN seen[d] ELSE Unread]
  PROVE  LedgerInv'
<1>1. TypeOK /\ runs \in [Tasks -> 0 .. 2] /\ BrokerTypeOK /\ IsFiniteSet(Tasks)
  BY DEF IInv, TypeOK, StoreTypeOK, PaymentsOrdered
<1>2. BrokerExecute(c) /\ jpc[c] = "exec"
  BY <1>1, WorkedExecutes DEF Worked
<1>3. Own(c) \in Tasks /\ Ran(Own(c)) /\ jmsg' = jmsg
  BY <1>1, <1>2, OwnTask DEF BrokerExecute, delivery
<1>4. \A t \in Tasks : t # Own(c) => runs'[t] = runs[t]
  BY <1>1, <1>3 DEF Ran
<1>5. AtMostOnce' => AtMostOnce /\ runs[Own(c)] = 0
  BY <1>1, <1>3, OnceBefore
<1>6. balance \in Nat /\ seen[c] \in Nat /\ \A key : Executions(key) \in Nat
  BY <1>1, ExecutionsFinite DEF LedgerInv
<1>7. balance' \in Nat
  BY <1>6 DEF CreateOrder, CancelOrder, ChargePayment, RefundPayment
<1>8. \A key : key # Key(c) => Executions(key)' = Executions(key)
  BY <1>3, <1>4, ExecutionsSame DEF Key
<1>9. \A key : AtMostOnce' /\ key = Key(c) =>
                Executions(key)' = Executions(key) + 1
  BY <1>1, <1>3, <1>5, ExecutionsGrow DEF Key
<1>10. AtMostOnce' /\ Pays(Own(c)) => seen[c] = Unread \/ seen[c] = balance
  BY <1>2, <1>5 DEF LedgerInv, ReadIsFresh, HasRun
<1>11. ASSUME AtMostOnce' PROVE NoLostUpdate'
  <2>1. NoLostUpdate
    BY <1>5, <1>11 DEF LedgerInv
  <2>2. CASE Key(c) \notin Payments
    <3>1. balance' = balance
      BY <2>2 DEF Payments, CreateOrder, CancelOrder
    <3>. QED BY <1>8, <2>1, <2>2, <3>1 DEF NoLostUpdate, Payments
  <2>3. CASE Key(c) = "charge_payment"
    <3>1. balance' = balance - 1 /\ balance >= 1
      BY <1>10, <1>11, <2>3 DEF ChargePayment, Pays, Payments, Key
    <3>2. /\ Executions("charge_payment")' = Executions("charge_payment") + 1
          /\ Executions("refund_payment")' = Executions("refund_payment")
      BY <1>8, <1>9, <1>11, <2>3
    <3>. QED BY <1>6, <2>1, <3>1, <3>2, FundsAssumption DEF NoLostUpdate
  <2>4. CASE Key(c) = "refund_payment"
    <3>1. balance' = balance + 1
      BY <1>10, <1>11, <2>4 DEF RefundPayment, Pays, Payments, Key
    <3>2. /\ Executions("refund_payment")' = Executions("refund_payment") + 1
          /\ Executions("charge_payment")' = Executions("charge_payment")
      BY <1>8, <1>9, <1>11, <2>4
    <3>. QED BY <1>6, <2>1, <3>1, <3>2, FundsAssumption DEF NoLostUpdate
  <2>. QED BY <2>2, <2>3, <2>4 DEF Payments
<1>12. ASSUME AtMostOnce' PROVE ReadIsFresh'
  <2>. SUFFICES ASSUME NEW d \in Consumers, jpc'[d] = "exec",
                       seen'[d] # Unread, ~HasRun(Own(d))'
                PROVE  seen'[d] = balance'
    BY DEF ReadIsFresh, Unread
  <2>1. /\ jpc[d] = "exec" /\ seen'[d] = seen[d] /\ Own(d)' = Own(d)
        /\ Pays(Own(d))
    BY <1>1, SeenKeeps
  <2>2. Own(d) \in Tasks
    BY <1>1, <2>1, OwnTask
  <2>3. Own(d) # Own(c)
    BY <1>1, <1>3, <2>1, RanMono
  <2>4. ~HasRun(Own(d))
    BY <1>4, <2>1, <2>2, <2>3 DEF HasRun
  <2>5. seen[d] = balance
    BY <1>5, <1>12, <2>1, <2>4 DEF LedgerInv, ReadIsFresh
  <2>6. ~Pays(Own(c))
    <3>. SUFFICES ASSUME Pays(Own(c)) PROVE FALSE
      OBVIOUS
    <3>1. ~HasRun(Own(c))
      BY <1>5, <1>12 DEF HasRun
    <3>2. After(Own(c), Own(d))
      BY <1>3, <2>1, <2>3, <3>1, PaymentsApart
    <3>3. Allowed(Own(c))
      BY <1>2, GoodTask DEF IInv, InvBroker, BrokerOK, Own
    <3>. QED BY <1>3, <2>2, <2>4, <3>2, <3>3, AllowedAfter
  <2>7. balance' = balance
    BY <2>6 DEF Pays, Payments, Key, CreateOrder, CancelOrder
  <2>. QED BY <2>1, <2>5, <2>7
<1>. QED BY <1>1, <1>7, <1>11, <1>12, SeenKeeps DEF LedgerInv, Unread, Pays

LEMMA LedgerKeeps ==
  ASSUME PaymentsOrdered, IInv, AllHomed, LedgerInv, [LedgerNext]_ledgerVars
  PROVE  LedgerInv'
<1>1. CASE \E c \in Consumers : LedgerRead(c)
  BY <1>1, ReadKeeps
<1>2. CASE Next /\ LedgerCommit
  BY <1>2, NoneWorked, OneWorked DEF LedgerCommit
<1>3. CASE UNCHANGED ledgerVars
  BY <1>3 DEF ledgerVars, vars, storeVars, brokerVars, delivery, LedgerInv, Unread,
     Pays, Own, AtMostOnce, NoLostUpdate, Executions, Executed, ReadIsFresh, HasRun
<1>. QED BY <1>1, <1>2, <1>3 DEF LedgerNext

LEMMA LedgerStarts ==
  ASSUME IsFiniteSet(Tasks), LedgerInit
  PROVE  LedgerInv
<1>1. /\ balance = Funds /\ seen = [c \in Consumers |-> Unread]
      /\ runs = [t \in Tasks |-> 0]
  BY DEF LedgerInit, Init, StoreInit
<1>2. \A key : Executed(key) = {}
  BY <1>1 DEF Executed
<1>3. \A key : Executions(key) = 0
  BY <1>2, FS_EmptySet DEF Executions
<1>. QED BY <1>1, <1>3, FundsAssumption
         DEF LedgerInv, Unread, ReadIsFresh, NoLostUpdate

LEMMA LedgerHolds ==
  ASSUME PaymentsOrdered
  PROVE  LedgerSpec => []LedgerInv
<1>1. LedgerInit => LedgerInv
  BY LedgerStarts DEF PaymentsOrdered
<1>2. IInv /\ AllHomed /\ LedgerInv /\ [LedgerNext]_ledgerVars => LedgerInv'
  BY LedgerKeeps
<1>. QED
  BY <1>1, <1>2, LedgerDrivesEngine, Invariance, JavaStaysJava, PTL DEF LedgerSpec

\* Where the DAG puts the payments of an account in an order, no update of the
\* balance is lost as long as nothing runs twice: whatever is delivered again,
\* fails or dies, and with no lock on the account's row.
THEOREM NoUpdateIsLost ==
  ASSUME PaymentsOrdered
  PROVE  LedgerSpec => [](AtMostOnce => NoLostUpdate)
<1>1. LedgerInv => (AtMostOnce => NoLostUpdate)
  BY DEF LedgerInv
<1>. QED BY <1>1, LedgerHolds, PTL

\* So none is lost where brokers and pods have their turns, for there nothing
\* runs twice: however often a message is delivered and whoever dies between a
\* read and a write.
THEOREM NoPaymentIsLost ==
  ASSUME PaymentsOrdered, TakeTurns
  PROVE  LedgerSpec => []NoLostUpdate
BY NoUpdateIsLost, NothingTwice, LedgerDrivesEngine, PTL

-----------------------------------------------------------------------------
(* The books after a failed saga. *)

\* Who compensates whom is never in doubt.
LEMMA CompensationOf ==
  ASSUME TakeTurns, InvRuns, NEW t \in Tasks, Comp(t) # NoTask, HasRun(Comp(t))
  PROVE  HasRun(t)
<1>1. Comp(t) \in Tasks /\ SagaFail \in Deps(Comp(t))
  BY DagAssumption DEF TakeTurns, Hidden, Comp, TaskDefinition, Tasks
<1>2. CalledFor(Comp(t))
  BY <1>1 DEF InvRuns, Allowed
<1>3. PICK o \in Tasks : Comp(o) = Comp(t) /\ HasRun(o)
  BY <1>2 DEF CalledFor
<1>. QED BY <1>3 DEF TakeTurns

\* A task that is called for itself cannot be the first to take effect.
LEMMA NotItself ==
  ASSUME TakeTurns, NEW t \in Tasks, Comp(t) # NoTask, Allowed(t), ~HasRun(t)
  PROVE  Comp(t) # t
<1>. SUFFICES ASSUME Comp(t) = t PROVE FALSE
  OBVIOUS
<1>1. SagaFail \in Deps(t)
  BY DEF TakeTurns, Hidden
<1>2. PICK o \in Tasks : Comp(o) = t /\ HasRun(o)
  BY <1>1 DEF Allowed, CalledFor
<1>. QED BY <1>2 DEF TakeTurns

\* The order's tasks are the brokers' business.
LEMMA OrdersAreJava ==
  ASSUME BooksBalance, NEW t \in Tasks, Dag[t].key = "create_order"
  PROVE  /\ Comp(t) # NoTask /\ Comp(t) \in JavaTasks
         /\ Dag[Comp(t)].key = "cancel_order"
<1>1. Comp(t) # NoTask /\ Comp(t) \in Tasks /\ Dag[Comp(t)].key = "cancel_order"
  BY DagAssumption DEF BooksBalance, Comp, TaskDefinition, Tasks
<1>2. Dag[t].worker = "java" /\ Dag[Comp(t)].worker = "java"
  BY <1>1 DEF BooksBalance, Orders
<1>3. \A o \in Tasks : Comp(o) = Comp(t) => o = t
  BY <1>1 DEF BooksBalance, SagaInLine, TakeTurns
<1>. QED BY <1>1, <1>2, <1>3 DEF JavaTasks

\* An order stays open until its cancellation runs.
LEMMA StaysOpen ==
  ASSUME OrderOpen,
         \A t \in Tasks : HasRun(t) => HasRun(t)',
         \A t \in Tasks :
           Dag[t].key = "create_order" /\ HasRun(Comp(t))' => HasRun(Comp(t))
  PROVE  OrderOpen'
BY DEF OrderOpen

\* A step in which no body of a broker returns.
LEMMA NoOrderWorked ==
  ASSUME BooksBalance, IInv, AllHomed, OrderInv, [Next]_vars, order' = order,
         \A c \in Consumers : ~Worked(c)
  PROVE  OrderInv'
<1>1. TypeOK /\ runs \in [Tasks -> 0 .. 2]
  BY DEF IInv, TypeOK, StoreTypeOK
<1>2. runs' = runs \/ \E u \in Tasks : Ran(u) /\ u \notin JavaTasks
  <2>1. ASSUME NEW n \in Nodes, npc[n] = "exec"
        PROVE  Mine(n) \in Tasks /\ Mine(n) \notin JavaTasks
    <3>1. Mine(n) \in Tasks
      BY <1>1, <2>1, MineTask
    <3>. QED BY <2>1, <3>1 DEF AllHomed, WorkerHomed, Homed, Mine
  <2>. QED BY <1>1, <2>1, RunsStep
<1>3. \A t \in Tasks : HasRun(t) => HasRun(t)'
  BY <1>1, <1>2 DEF Ran, HasRun
<1>4. \A t \in JavaTasks : runs'[t] = runs[t]
  BY <1>1, <1>2 DEF Ran, JavaTasks
<1>5. \A t \in Tasks :
        Dag[t].key = "create_order" /\ HasRun(Comp(t))' => HasRun(Comp(t))
  BY <1>4, OrdersAreJava DEF HasRun
<1>. QED BY <1>3, <1>5, StaysOpen DEF OrderInv

\* A step in which c's body returns and its transaction commits.
LEMMA OneOrderWorked ==
  ASSUME BooksBalance, IInv, OrderInv, [Next]_vars, AtMostOnce',
         NEW c \in Consumers, Worked(c),
         \/ Key(c) = "create_order" /\ CreateOrder
         \/ Key(c) = "cancel_order" /\ CancelOrder
         \/ Key(c) = "charge_payment" /\ ChargePayment(c)
         \/ Key(c) = "refund_payment" /\ RefundPayment(c)
         \/ Key(c) = "unknown" /\ UNCHANGED <<balance, order>>
  PROVE  OrderInv'
<1>1. /\ TypeOK /\ runs \in [Tasks -> 0 .. 2] /\ InvRuns /\ TakeTurns
  BY DEF IInv, TypeOK, StoreTypeOK, BooksBalance, SagaInLine
<1>2. BrokerExecute(c) /\ jpc[c] = "exec"
  BY <1>1, WorkedExecutes DEF Worked
<1>3. PICK o \in Tasks : o = Own(c) /\ Ran(o) /\ Allowed(o)
  BY <1>1, <1>2, OwnTask, GoodTask DEF BrokerExecute, IInv, InvBroker, BrokerOK, Own
<1>4. ~HasRun(o)
  BY <1>1, <1>3, OnceBefore DEF HasRun
<1>5. (\A t \in Tasks : t # o => runs'[t] = runs[t]) /\ HasRun(o)'
  BY <1>1, <1>3 DEF Ran, HasRun
<1>6. CASE Key(c) = "create_order"
  <2>1. Dag[o].key = "create_order" /\ Comp(o) \in Tasks /\ Comp(o) # NoTask
    BY <1>3, <1>6, OrdersAreJava DEF Key, JavaTasks
  <2>2. ~HasRun(Comp(o)) /\ Comp(o) # o
    BY <1>1, <1>3, <1>4, <2>1, CompensationOf, NotItself
  <2>3. ~HasRun(Comp(o))'
    BY <1>5, <2>1, <2>2 DEF HasRun
  <2>. QED BY <1>5, <2>1, <2>3 DEF OrderInv, OrderOpen
<1>7. CASE Key(c) = "cancel_order"
  BY <1>7 DEF CancelOrder, OrderInv
<1>8. CASE Key(c) \notin Orders
  <2>1. order' = order
    BY <1>8 DEF Orders, ChargePayment, RefundPayment
  <2>2. \A t \in Tasks : HasRun(t) => HasRun(t)'
    BY <1>5 DEF HasRun
  <2>3. ASSUME NEW t \in Tasks, Dag[t].key = "create_order", HasRun(Comp(t))'
        PROVE  HasRun(Comp(t))
    <3>1. Comp(t) \in Tasks /\ Comp(t) # o
      BY <1>3, <1>8, <2>3, OrdersAreJava DEF Orders, Key, JavaTasks
    <3>. QED BY <1>5, <2>3, <3>1 DEF HasRun
  <2>. QED BY <2>1, <2>2, <2>3, StaysOpen DEF OrderInv
<1>. QED BY <1>6, <1>7, <1>8 DEF Orders

LEMMA OrderKeeps ==
  ASSUME BooksBalance, IInv, AllHomed, OrderInv, AtMostOnce',
         [LedgerNext]_ledgerVars
  PROVE  OrderInv'
<1>1. CASE (\E c \in Consumers : LedgerRead(c)) \/ UNCHANGED ledgerVars
  <2>1. runs' = runs /\ order' = order
    BY <1>1 DEF LedgerRead, ledgerVars, vars, storeVars
  <2>. QED BY <2>1 DEF OrderInv, OrderOpen, HasRun
<1>2. CASE Next /\ LedgerCommit
  BY <1>2, NoOrderWorked, OneOrderWorked DEF LedgerCommit
<1>. QED BY <1>1, <1>2 DEF LedgerNext

\* What is undone is paid back, charge by charge.
LEMMA ChargesRefunded ==
  ASSUME BooksBalance, IInv, TurnsInv, AllUndone
  PROVE  Executions("charge_payment") = Executions("refund_payment")
<1>. TakeTurns /\ IsFiniteSet(Tasks) /\ InvRuns
  BY DEF BooksBalance, SagaInLine, PaymentsOrdered, IInv
<1>. DEFINE S == Executed("charge_payment")
            T == Executed("refund_payment")
            f == [e \in S |-> <<Comp(e[1]), 1>>]
<1>1. \A key : \A e \in Executed(key) :
        /\ e = <<e[1], 1>> /\ e[1] \in Tasks /\ Dag[e[1]].key = key /\ HasRun(e[1])
  <2>1. \A t \in Tasks : runs[t] \in 0 .. 2 /\ runs[t] <= 1
    BY DEF IInv, TypeOK, StoreTypeOK, TurnsInv, NodeInv, RowsTell
  <2>. SUFFICES ASSUME NEW key, NEW e \in Executed(key)
       PROVE  /\ e = <<e[1], 1>> /\ e[1] \in Tasks /\ Dag[e[1]].key = key
              /\ HasRun(e[1])
    OBVIOUS
  <2>2. e \in Tasks \X (1 .. 2) /\ Dag[e[1]].key = key /\ e[2] <= runs[e[1]]
    BY DEF Executed
  <2>3. e = <<e[1], e[2]>> /\ e[1] \in Tasks /\ e[2] \in 1 .. 2
    BY <2>2
  <2>4. e[2] = 1 /\ runs[e[1]] > 0
    BY <2>1, <2>2, <2>3
  <2>. QED BY <2>2, <2>3, <2>4 DEF HasRun
<1>2. ASSUME NEW key, NEW t \in Tasks, Dag[t].key = key, HasRun(t)
      PROVE  <<t, 1>> \in Executed(key)
  BY <1>2 DEF Executed, HasRun, IInv, TypeOK, StoreTypeOK
<1>3. ASSUME NEW t \in Tasks, Dag[t].key = "charge_payment", HasRun(t)
      PROVE  /\ Comp(t) \in Tasks /\ Dag[Comp(t)].key = "refund_payment"
             /\ HasRun(Comp(t))
  BY <1>3, RanIsUndone DEF BooksBalance
<1>4. f \in [S -> T]
  BY <1>1, <1>2, <1>3
<1>5. \A a, b \in S : f[a] = f[b] => a = b
  <2>. SUFFICES ASSUME NEW a \in S, NEW b \in S, f[a] = f[b] PROVE a = b
    OBVIOUS
  <2>1. Comp(a[1]) = Comp(b[1])
    OBVIOUS
  <2>2. a[1] \in Tasks /\ b[1] \in Tasks /\ Comp(a[1]) # NoTask
    BY <1>1 DEF BooksBalance
  <2>3. a[1] = b[1]
    BY <2>1, <2>2 DEF TakeTurns
  <2>. QED BY <1>1, <2>3
<1>6. \A b \in T : \E a \in S : f[a] = b
  <2>. SUFFICES ASSUME NEW b \in T PROVE \E a \in S : f[a] = b
    OBVIOUS
  <2>1. b = <<b[1], 1>> /\ b[1] \in Tasks /\ Dag[b[1]].key = "refund_payment"
        /\ HasRun(b[1])
    BY <1>1
  <2>2. PICK t \in Tasks : Comp(t) = b[1] /\ Dag[t].key = "charge_payment"
    BY <2>1 DEF BooksBalance
  <2>3. HasRun(t)
    BY <2>1, <2>2, CompensationOf DEF BooksBalance
  <2>4. <<t, 1>> \in S
    BY <1>2, <2>2, <2>3
  <2>5. f[<<t, 1>>] = b
    BY <2>1, <2>2, <2>4
  <2>. QED BY <2>4, <2>5
<1>7. ExistsBijection(S, T)
  <2>. HIDE DEF S, T, f
  <2>1. f \in Bijection(S, T)
    BY <1>4, <1>5, <1>6, Fun_IsBij
  <2>. QED BY <2>1 DEF ExistsBijection
<1>8. IsFiniteSet(S)
  BY ExecutionsFinite
<1>. HIDE DEF S, T, f
<1>9. Cardinality(T) = Cardinality(S)
  BY <1>7, <1>8, FS_Bijection
<1>. QED BY <1>9 DEF S, T, Executions

\* A saga that undoes everything it did leaves the books as it found them when it
\* is reported FAILED: the money is back and no order is open, whatever was
\* delivered twice and whoever read what when.
THEOREM BooksRestored ==
  ASSUME BooksBalance
  PROVE  LedgerSpec => []Restored
<1>. TakeTurns /\ SagaInLine /\ PaymentsOrdered
  BY DEF BooksBalance, SagaInLine
<1>1. LedgerInit => OrderInv
  BY DEF LedgerInit, OrderInv
<1>2. IInv /\ AllHomed /\ OrderInv /\ AtMostOnce' /\ [LedgerNext]_ledgerVars
        => OrderInv'
  BY OrderKeeps
<1>3. IInv /\ TurnsInv /\ UndoInv /\ LedgerInv /\ OrderInv /\ NoLostUpdate
        => Restored
  <2>. SUFFICES ASSUME IInv, TurnsInv, AllUndone, LedgerInv, OrderInv, NoLostUpdate
       PROVE  balance = Funds /\ order # "PENDING"
    BY DEF UndoInv, Restored
  <2>1. balance \in Nat /\ \A key : Executions(key) \in Nat
    BY ExecutionsFinite DEF LedgerInv, PaymentsOrdered
  <2>2. balance = Funds
    BY <2>1, ChargesRefunded, FundsAssumption DEF NoLostUpdate
  <2>3. ~OrderOpen
    BY RanIsUndone, OrdersAreJava DEF OrderOpen
  <2>. QED BY <2>2, <2>3 DEF OrderInv
<1>4. LedgerSpec => [](IInv /\ TurnsInv /\ UndoInv)
  BY LedgerDrivesEngine, UndoInvariant, PTL
<1>5. LedgerSpec => []AllHomed /\ []AtMostOnce
  BY LedgerDrivesEngine, JavaStaysJava, NothingTwice, PTL
<1>6. LedgerSpec => []LedgerInv
  BY LedgerHolds
<1>7. LedgerSpec => []NoLostUpdate
  BY NoPaymentIsLost
<1>. QED BY <1>1, <1>2, <1>3, <1>4, <1>5, <1>6, <1>7, PTL DEF LedgerSpec
=============================================================================
