------------------------- MODULE ReddoDeliveryProofs -------------------------
(***************************************************************************)
(* Where no work is lost, whatever the DAG and however many executors: the *)
(* conditions and the invariant are those of ReddoDelivery, which holds    *)
(* together with IInv.                                                     *)
(***************************************************************************)
EXTENDS ReddoSafetyProofs, ReddoDelivery

(* The queues as sets. *)

LEMMA WaitingQueued ==
  ASSUME NEW t
  PROVE  Queued(t) <=> \E q \in Queues : \E m \in Waiting(q) : m.task = t
BY DEF Queued, Waiting

LEMMA SendWaiting ==
  ASSUME queue \in [Queues -> Seq(Message)],
         NEW m \in Message, m.queue \in Queues, Send(m), NEW q \in Queues
  PROVE  Waiting(q)' = IF q = m.queue THEN Waiting(q) \cup {m} ELSE Waiting(q)
<1>1. CASE q # m.queue
  <2>1. queue'[q] = queue[q]
    BY <1>1 DEF Send
  <2>. QED BY <1>1, <2>1 DEF Waiting
<1>2. CASE q = m.queue
  <2>. DEFINE s == Append(queue[q], m)
  <2>1. queue'[q] = s /\ queue[q] \in Seq(Message)
    BY <1>2 DEF Send
  <2>2. /\ Len(queue[q]) \in Nat
        /\ Len(s) = Len(queue[q]) + 1
        /\ \A i \in 1 .. Len(queue[q]) : s[i] = queue[q][i]
        /\ s[Len(queue[q]) + 1] = m
    BY <2>1, AppendProperties, LenProperties
  <2>. HIDE DEF s
  <2>3. \A i \in 1 .. Len(s) : i \in 1 .. Len(queue[q]) \/ i = Len(queue[q]) + 1
    BY <2>2
  <2>4. {s[i] : i \in 1 .. Len(s)}
          = {queue[q][i] : i \in 1 .. Len(queue[q])} \cup {m}
    <3>1. ASSUME NEW x \in {s[i] : i \in 1 .. Len(s)}
          PROVE  x \in {queue[q][i] : i \in 1 .. Len(queue[q])} \cup {m}
      BY <2>2, <2>3
    <3>2. ASSUME NEW i \in 1 .. Len(queue[q])
          PROVE  queue[q][i] \in {s[j] : j \in 1 .. Len(s)}
      BY <2>2
    <3>3. m \in {s[j] : j \in 1 .. Len(s)}
      BY <2>2
    <3>. QED BY <3>1, <3>2, <3>3
  <2>. QED BY <1>2, <2>1, <2>4 DEF Waiting
<1>. QED BY <1>1, <1>2

LEMMA RequeueWaiting ==
  ASSUME queue \in [Queues -> Seq(Message)],
         NEW m \in Message, m.queue \in Queues, Requeue(m), NEW q \in Queues
  PROVE  Waiting(q)' = IF q = m.queue THEN Waiting(q) \cup {m} ELSE Waiting(q)
<1>1. CASE q # m.queue
  <2>1. queue'[q] = queue[q]
    BY <1>1 DEF Requeue
  <2>. QED BY <1>1, <2>1 DEF Waiting
<1>2. CASE q = m.queue
  <2>. DEFINE old == queue[q]
              s == <<m>> \o old
  <2>1. queue'[q] = s /\ old \in Seq(Message) /\ <<m>> \in Seq(Message)
    BY <1>2 DEF Requeue
  <2>2. Len(old) \in Nat /\ Len(<<m>>) = 1 /\ <<m>>[1] = m
    BY <2>1, LenProperties
  <2>3. /\ Len(s) = Len(old) + 1
        /\ \A i \in 1 .. Len(s) : s[i] = IF i <= 1 THEN <<m>>[i] ELSE old[i - 1]
    BY <2>1, <2>2, ConcatProperties
  <2>4. old = queue[q]
    OBVIOUS
  <2>. HIDE DEF s, old
  <2>5. \A i \in 1 .. Len(s) : s[i] = m \/ \E j \in 1 .. Len(old) : s[i] = old[j]
    <3>. TAKE i \in 1 .. Len(s)
    <3>1. CASE i = 1
      BY <3>1, <2>2, <2>3
    <3>2. CASE i # 1
      <4>1. i - 1 \in 1 .. Len(old) /\ s[i] = old[i - 1]
        BY <3>2, <2>2, <2>3
      <4>. QED BY <4>1
    <3>. QED BY <3>1, <3>2
  <2>6. s[1] = m /\ 1 \in 1 .. Len(s)
    BY <2>2, <2>3
  <2>7. ASSUME NEW i \in 1 .. Len(old)
        PROVE  i + 1 \in 1 .. Len(s) /\ s[i + 1] = old[i]
    BY <2>2, <2>3
  <2>8. {s[i] : i \in 1 .. Len(s)} = {old[i] : i \in 1 .. Len(old)} \cup {m}
    <3>1. ASSUME NEW x \in {s[i] : i \in 1 .. Len(s)}
          PROVE  x \in {old[i] : i \in 1 .. Len(old)} \cup {m}
      BY <2>5
    <3>2. ASSUME NEW i \in 1 .. Len(old)
          PROVE  old[i] \in {s[j] : j \in 1 .. Len(s)}
      BY <2>7
    <3>3. m \in {s[j] : j \in 1 .. Len(s)}
      BY <2>6
    <3>. QED BY <3>1, <3>2, <3>3
  <2>9. {old[i] : i \in 1 .. Len(old)} = Waiting(q)
    BY <2>4 DEF Waiting
  <2>10. {s[i] : i \in 1 .. Len(s)} = Waiting(q)'
    BY <2>1 DEF Waiting
  <2>. QED BY <1>2, <2>8, <2>9, <2>10
<1>. QED BY <1>1, <1>2

LEMMA TakeWaiting ==
  ASSUME queue \in [Queues -> Seq(Message)],
         NEW p \in Queues, queue[p] # <<>>,
         queue' = [queue EXCEPT ![p] = Tail(@)], NEW q \in Queues
  PROVE  /\ Waiting(q)' \subseteq Waiting(q)
         /\ Waiting(q) \subseteq
              IF q = p THEN Waiting(q)' \cup {Head(queue[p])} ELSE Waiting(q)'
         /\ Head(queue[p]) \in Waiting(p)
<1>1. queue[p] \in Seq(Message)
  OBVIOUS
<1>2. /\ Len(queue[p]) \in Nat \ {0}
      /\ Head(queue[p]) = queue[p][1]
      /\ Len(Tail(queue[p])) = Len(queue[p]) - 1
      /\ \A i \in 1 .. Len(Tail(queue[p])) : Tail(queue[p])[i] = queue[p][i + 1]
  BY <1>1, HeadTailProperties, EmptySeq, LenProperties
<1>3. Head(queue[p]) \in Waiting(p)
  BY <1>2 DEF Waiting
<1>4. CASE q # p
  <2>1. queue'[q] = queue[q]
    BY <1>4
  <2>. QED BY <1>3, <1>4, <2>1 DEF Waiting
<1>5. CASE q = p
  <2>. DEFINE s == Tail(queue[p])
  <2>1. queue'[q] = s
    BY <1>5
  <2>2. /\ Len(s) = Len(queue[p]) - 1
        /\ \A i \in 1 .. Len(s) : s[i] = queue[p][i + 1]
    BY <1>2
  <2>. HIDE DEF s
  <2>3. ASSUME NEW i \in 1 .. Len(s)
        PROVE  s[i] \in {queue[p][j] : j \in 1 .. Len(queue[p])}
    <3>1. i + 1 \in 1 .. Len(queue[p])
      BY <1>2, <2>2
    <3>. QED BY <2>2, <3>1
  <2>4. ASSUME NEW i \in 1 .. Len(queue[p])
        PROVE  queue[p][i] \in {s[j] : j \in 1 .. Len(s)} \cup {Head(queue[p])}
    <3>1. CASE i = 1
      BY <1>2, <3>1
    <3>2. CASE i # 1
      <4>1. i - 1 \in 1 .. Len(s) /\ (i - 1) + 1 = i
        BY <1>2, <2>2, <3>2
      <4>2. s[i - 1] = queue[p][i]
        BY <2>2, <4>1
      <4>. QED BY <4>1, <4>2
    <3>. QED BY <3>1, <3>2
  <2>5. Waiting(q)' = {s[i] : i \in 1 .. Len(s)}
    BY <2>1 DEF Waiting
  <2>6. Waiting(q) = {queue[p][i] : i \in 1 .. Len(queue[p])}
    BY <1>5 DEF Waiting
  <2>7. Waiting(q)' \subseteq Waiting(q)
    BY <2>3, <2>5, <2>6
  <2>8. Waiting(q) \subseteq Waiting(q)' \cup {Head(queue[p])}
    BY <2>4, <2>5, <2>6
  <2>. QED BY <1>3, <1>5, <2>7, <2>8
<1>. QED BY <1>4, <1>5

\* What a message that joins a queue, or leaves one, changes.
LEMMA Joins ==
  ASSUME queue \in [Queues -> Seq(Message)], QueuesRouted,
         NEW m \in Message, m.queue \in Queues, Send(m) \/ Requeue(m)
  PROVE  /\ QueuesRouted'
         /\ \A t : Queued(t) => Queued(t)'
         /\ \A t : t = m.task => Queued(t)'
<1>1. \A q \in Queues :
        Waiting(q)' = IF q = m.queue THEN Waiting(q) \cup {m} ELSE Waiting(q)
  BY SendWaiting, RequeueWaiting
<1>2. QueuesRouted'
  BY <1>1 DEF QueuesRouted
<1>3. ASSUME NEW t, Queued(t) \/ t = m.task PROVE Queued(t)'
  <2>1. \E q \in Queues : \E x \in Waiting(q)' : x.task = t
    BY <1>1, <1>3, WaitingQueued
  <2>. QED BY <2>1 DEF Queued, Waiting
<1>. QED BY <1>2, <1>3

LEMMA Leaves ==
  ASSUME queue \in [Queues -> Seq(Message)], QueuesRouted,
         NEW p \in Queues, queue[p] # <<>>,
         queue' = [queue EXCEPT ![p] = Tail(@)]
  PROVE  /\ QueuesRouted'
         /\ Head(queue[p]).queue = p
         /\ \A t : Queued(t) => Queued(t)' \/ t = Head(queue[p]).task
<1>1. \A q \in Queues :
         /\ Waiting(q)' \subseteq Waiting(q)
         /\ Waiting(q) \subseteq Waiting(q)' \cup {Head(queue[p])}
  BY TakeWaiting
<1>2. Head(queue[p]) \in Waiting(p)
  BY TakeWaiting
<1>3. QueuesRouted'
  BY <1>1 DEF QueuesRouted
<1>4. ASSUME NEW t, Queued(t) PROVE Queued(t)' \/ t = Head(queue[p]).task
  <2>1. PICK q \in Queues : \E x \in Waiting(q) : x.task = t
    BY <1>4, WaitingQueued
  <2>2. t = Head(queue[p]).task \/ \E x \in Waiting(q)' : x.task = t
    BY <1>1, <2>1
  <2>. QED BY <2>2 DEF Queued, Waiting
<1>. QED BY <1>2, <1>3, <1>4 DEF QueuesRouted

LEMMA QueuesStay ==
  ASSUME queue' = queue
  PROVE  /\ QueuesRouted => QueuesRouted'
         /\ \A t : Queued(t) => Queued(t)'
BY DEF QueuesRouted, Waiting, Queued

---------------------------------------------------------------------------
(* The broker. *)

LEMMA NothingDropped ==
  ASSUME LoseNothing
  PROVE  /\ \A c \in Consumers : ~BrokerCrash(c) /\ ~BrokerPublishFails(c)
         /\ ~GateCrash /\ ~GatePublishFails
BY DEF LoseNothing, BrokerCrash, BrokerPublishFails, GateCrash, GatePublishFails,
       Fault

LEMMA BrokerRoutes ==
  ASSUME IInv, LoseNothing, Routed, NEW c \in Consumers,
         BrokerStep(c) \/ BrokerFault(c), UNCHANGED <<gateVars, workerVars>>
  PROVE  Routed'
<1>1. /\ queue \in [Queues -> Seq(Message)] /\ BrokerTypeOK /\ BrokerOK(c)
      /\ QueuesRouted /\ BrokerRouted(c)
  BY DEF IInv, TypeOK, StoreTypeOK, InvBroker, Routed
<1>2. ASSUME QueuesRouted', BrokerRouted(c)' PROVE Routed'
  <2>1. ASSUME NEW d \in Consumers PROVE BrokerRouted(d)'
    <3>1. CASE d = c
      BY <1>2, <3>1
    <3>2. CASE d # c
      <4>1. BrokerSame(d)
        BY <1>1, <3>2, BrokerAlone
      <4>. QED BY <4>1 DEF Routed, BrokerRouted, BrokerSame
    <3>. QED BY <3>1, <3>2
  <2>2. \A n \in Nodes : WorkerRouted(n)'
    BY DEF Routed, WorkerRouted, workerVars, callbackVars
  <2>. QED BY <1>2, <2>1, <2>2 DEF Routed, gateVars
<1>3. queue' = queue => QueuesRouted'
  BY <1>1, QueuesStay
<1>. USE DEF BrokerTypeOK, BrokerRouted, Goto, delivery, work
<1>4. CASE BrokerDeliver(c)
  <2>1. QueuesRouted' /\ Head(queue["java"]).queue = "java"
    BY <1>1, <1>4, Leaves DEF BrokerDeliver, Queues
  <2>. QED BY <1>1, <1>2, <1>4, <2>1 DEF BrokerDeliver
<1>5. CASE \/ BrokerLock(c) \/ BrokerLockTimeout(c) \/ BrokerCheck(c)
           \/ BrokerMarkRunning(c) \/ BrokerExecute(c) \/ BrokerComplete(c)
           \/ BrokerReadWorkflow(c) \/ BrokerSaveWorkflow(c)
           \/ BrokerFailTask(c) \/ BrokerFailWorkflow(c)
  <2>1. /\ queue' = queue /\ jmsg' = jmsg /\ jtodo' = jtodo
        /\ jpc[c] # "idle" /\ jpc'[c] # "publish"
    BY <1>1, <1>5 DEF BrokerLock, BrokerLockTimeout, BrokerCheck,
       BrokerMarkRunning, BrokerExecute, BrokerComplete, BrokerReadWorkflow,
       BrokerSaveWorkflow, BrokerFailTask, BrokerFailWorkflow, storeVars
  <2>. QED BY <1>1, <1>2, <1>3, <2>1
<1>6. ASSUME NEW t \in Tasks PROVE Dag[t].worker \in Queues
  BY <1>6, DagAssumption DEF LoseNothing, Tasks, TaskDefinition
<1>7. CASE BrokerReadTasks(c)
  <2>1. jtodo'[c] = jtodo[c] \/ jtodo'[c] = {TaskMessage(t) : t \in Ready(st)}
    BY <1>1, <1>7 DEF BrokerReadTasks
  <2>2. \A m \in jtodo'[c] : m.queue \in Queues
    BY <1>1, <1>6, <2>1 DEF TaskMessage, Ready
  <2>3. /\ queue' = queue /\ jmsg' = jmsg /\ jpc[c] # "idle"
        /\ jpc'[c] # "publish"
    BY <1>1, <1>7 DEF BrokerReadTasks, storeVars
  <2>. QED BY <1>1, <1>2, <1>3, <2>2, <2>3
<1>8. CASE BrokerCompensate(c)
  <2>1. \A m \in jtodo'[c] : m.queue \in Queues
    BY <1>1, <1>6, <1>8 DEF BrokerCompensate, CompensationMessage, Compensable
  <2>2. /\ queue' = queue /\ jmsg' = jmsg /\ jpc[c] # "idle"
        /\ jpc'[c] # "publish"
    BY <1>1, <1>8 DEF BrokerCompensate, storeVars
  <2>. QED BY <1>1, <1>2, <1>3, <2>1, <2>2
<1>9. CASE BrokerTrigger(c)
  BY <1>1, <1>2, <1>3, <1>9 DEF BrokerTrigger
<1>10. CASE BrokerPublish(c)
  <2>1. jcur[c] \in Message
    BY <1>1, <1>10 DEF BrokerPublish, BrokerOK, Good
  <2>2. QueuesRouted'
    BY <1>1, <1>10, <2>1, Joins DEF BrokerPublish
  <2>. QED BY <1>1, <1>2, <1>10, <2>2 DEF BrokerPublish
<1>11. CASE BrokerFinish(c)
  BY <1>1, <1>2, <1>3, <1>11 DEF BrokerFinish, Reset, storeVars
<1>12. CASE BrokerRefuse(c) \/ BrokerError(c)
  <2>1. /\ queue' = queue /\ jmsg' = jmsg /\ jpc[c] # "idle"
        /\ jpc'[c] # "publish" /\ jtodo'[c] \in {{}, jtodo[c]}
    BY <1>1, <1>12 DEF BrokerRefuse, BrokerError, EnterFailure, EnterRescue,
       ProcessPoints, FailurePoints
  <2>. QED BY <1>1, <1>2, <1>3, <2>1
<1>13. CASE BrokerRedeliver(c)
  <2>1. jpc[c] # "idle" /\ jmsg[c] \in Message /\ jmsg[c].queue \in Queues
    BY <1>1, <1>13 DEF BrokerRedeliver, BrokerOK, Queues
  <2>2. QueuesRouted'
    BY <1>1, <1>13, <2>1, Joins DEF BrokerRedeliver
  <2>. QED BY <1>1, <1>2, <1>13, <2>2 DEF BrokerRedeliver
<1>. QED
  BY <1>4, <1>5, <1>7, <1>8, <1>9, <1>10, <1>11, <1>12, <1>13, NothingDropped
     DEF BrokerStep, BrokerFault

\* A thread leaves the locks of the others alone, and its own as well unless it
\* takes or returns it.
LEMMA LockMoves ==
  ASSUME TypeOK, LoseNothing, NEW c \in Consumers, BrokerStep(c) \/ BrokerFault(c),
         NEW t \in Tasks
  PROVE  \/ BrokerLock(c) /\ t = Own(c) /\ rlock'[t] = c
         \/ BrokerFinish(c) /\ t = Own(c) /\ rlock[t] = c /\ rlock'[t] = Free
         \/ rlock'[t] = rlock[t] /\ ~(BrokerFinish(c) /\ t = Own(c) /\ rlock[t] = c)
<1>1. rlock \in [Tasks -> Consumers \cup {Free, Orphan}]
  BY DEF TypeOK, BrokerTypeOK
<1>2. CASE BrokerLock(c)
  BY <1>1, <1>2 DEF BrokerLock, BrokerFinish
<1>3. CASE BrokerFinish(c)
  BY <1>1, <1>3 DEF BrokerFinish, PassLock
<1>4. CASE ~BrokerLock(c) /\ ~BrokerFinish(c)
  <2>1. rlock' = rlock
    BY <1>4, NothingDropped
       DEF BrokerStep, BrokerFault, BrokerDeliver, BrokerLockTimeout, BrokerCheck,
       BrokerMarkRunning, BrokerExecute, BrokerRefuse, BrokerComplete,
       BrokerReadWorkflow, BrokerReadTasks, BrokerTrigger, BrokerPublish,
       BrokerSaveWorkflow, BrokerFailTask, BrokerFailWorkflow, BrokerCompensate,
       BrokerError, BrokerRedeliver
  <2>. QED BY <1>4, <2>1
<1>. QED BY <1>2, <1>3, <1>4

LEMMA BrokerHolds ==
  ASSUME IInv, LoseNothing, HolderWorks, NoOrphans, NEW c \in Consumers,
         BrokerStep(c) \/ BrokerFault(c), UNCHANGED <<gateVars, workerVars>>
  PROVE  HolderWorks' /\ NoOrphans'
<1>1. TypeOK /\ BrokerTypeOK /\ BrokerOK(c) /\ InvRows /\ runs \in [Tasks -> 0 .. 2]
  BY DEF IInv, TypeOK, InvBroker, StoreTypeOK
<1>2. Mono
  BY <1>1, BrokerMono
<1>3. NoOrphans'
  BY <1>1, LockMoves, BrokerAssumption DEF NoOrphans
<1>. SUFFICES ASSUME NEW t \in Tasks, NEW d \in Consumers, rlock'[t] = d
              PROVE  /\ Own(d)' = t
                     /\ \/ jpc'[d] \in {"check", "run", "exec"}
                        \/ jpc'[d] \notin {"idle", "lock"}
                           /\ (HasRun(t)' \/ t \in faulted')
  BY <1>3 DEF HolderWorks
<1>4. CASE d # c
  <2>1. rlock[t] = d
    BY <1>1, <1>4, LockMoves, BrokerAssumption
  <2>2. BrokerSame(d)
    BY <1>1, <1>4, BrokerAlone
  <2>. QED BY <1>2, <2>1, <2>2 DEF HolderWorks, BrokerSame, Own, Mono
<1>. USE DEF BrokerTypeOK, Goto, delivery, work
<1>5. CASE d = c /\ BrokerLock(c)
  <2>1. rlock[t] # c
    BY <1>5 DEF BrokerLock, HolderWorks
  <2>2. t = Own(c)
    BY <1>1, <1>5, <2>1, LockMoves DEF BrokerLock, BrokerFinish
  <2>. QED BY <1>1, <1>5, <2>2 DEF BrokerLock, Own
<1>6. CASE d = c /\ ~BrokerLock(c)
  <2>1. /\ rlock[t] = c /\ ~(BrokerFinish(c) /\ t = Own(c))
    BY <1>1, <1>6, LockMoves, BrokerAssumption
  <2>2. /\ Own(c) = t
        /\ \/ jpc[c] \in {"check", "run", "exec"}
           \/ jpc[c] \notin {"idle", "lock"} /\ (HasRun(t) \/ t \in faulted)
    BY <2>1 DEF HolderWorks
  <2>3. HasRun(t) \/ t \in faulted => HasRun(t)' \/ t \in faulted'
    BY <1>2 DEF Mono
  <2>4. CASE BrokerCheck(c)
    <3>1. Terminal(st[t]) => HasRun(t) \/ t \in faulted
      BY <1>1 DEF InvRows, Terminal
    <3>. QED BY <1>1, <1>6, <2>2, <2>3, <2>4, <3>1 DEF BrokerCheck, Own
  <2>5. CASE BrokerMarkRunning(c)
    BY <1>1, <1>6, <2>2, <2>5 DEF BrokerMarkRunning, Own
  <2>6. CASE BrokerExecute(c)
    <3>1. HasRun(t)'
      BY <1>1, <2>2, <2>6, RanMono DEF BrokerExecute
    <3>. QED BY <1>1, <1>6, <2>2, <2>6, <3>1 DEF BrokerExecute, Own
  <2>7. CASE BrokerRefuse(c)
    BY <1>1, <1>6, <2>2, <2>7 DEF BrokerRefuse, EnterFailure, Own
  <2>8. CASE BrokerError(c)
    <3>1. jpc'[c] \notin {"idle", "lock"} /\ jmsg' = jmsg
      BY <1>1, <2>8 DEF BrokerError, EnterFailure, EnterRescue
    <3>2. jpc[c] \in {"check", "run", "exec"} => Own(c) \in faulted'
      BY <2>8 DEF BrokerError, EnterFailure, FailurePoints
    <3>3. HasRun(t)' \/ t \in faulted'
      BY <2>2, <2>3, <3>2
    <3>. QED BY <1>6, <2>2, <3>1, <3>3 DEF Own
  <2>9. CASE \/ BrokerComplete(c) \/ BrokerReadWorkflow(c) \/ BrokerReadTasks(c)
             \/ BrokerTrigger(c) \/ BrokerPublish(c) \/ BrokerSaveWorkflow(c)
             \/ BrokerFailTask(c) \/ BrokerFailWorkflow(c) \/ BrokerCompensate(c)
    <3>1. /\ jpc[c] \notin {"check", "run", "exec"}
          /\ jpc'[c] \notin {"idle", "lock"} /\ jmsg' = jmsg
      BY <1>1, <2>9 DEF BrokerComplete, BrokerReadWorkflow, BrokerReadTasks,
         BrokerTrigger, BrokerPublish, BrokerSaveWorkflow, BrokerFailTask,
         BrokerFailWorkflow, BrokerCompensate
    <3>. QED BY <1>6, <2>2, <2>3, <3>1 DEF Own
  <2>10. CASE BrokerRedeliver(c)
    BY <1>6, <2>2, <2>3, <2>10 DEF BrokerRedeliver, Own
  <2>11. ~BrokerDeliver(c) /\ ~BrokerLockTimeout(c) /\ ~BrokerFinish(c)
    BY <2>1, <2>2 DEF BrokerDeliver, BrokerLockTimeout
  <2>. QED
    BY <1>6, <2>4, <2>5, <2>6, <2>7, <2>8, <2>9, <2>10, <2>11, NothingDropped
       DEF BrokerStep, BrokerFault
<1>. QED BY <1>4, <1>5, <1>6

LEMMA BrokerOthersOwe ==
  ASSUME IInv, NEW c \in Consumers, BrokerStep(c) \/ BrokerFault(c),
         UNCHANGED <<gateVars, workerVars>>, NEW t \in Tasks, Covered(t),
         Queued(t) => Covered(t)', BrokerOwes(c, t) => Covered(t)'
  PROVE  Covered(t)'
<1>1. Mono /\ BrokerTypeOK
  BY BrokerMono DEF IInv, TypeOK
<1>2. CASE HasRun(t) \/ t \in faulted
  BY <1>1, <1>2 DEF Mono, Covered
<1>3. CASE \E m \in gtodo : m.task = t
  BY <1>3 DEF gateVars, Covered
<1>4. CASE \E d \in Consumers \ {c} : BrokerOwes(d, t)
  <2>1. PICK d \in Consumers \ {c} : BrokerOwes(d, t)
    BY <1>4
  <2>2. BrokerSame(d)
    BY <1>1, BrokerAlone
  <2>3. BrokerOwes(d, t)'
    BY <2>1, <2>2 DEF BrokerOwes, BrokerSame, Own
  <2>. QED BY <2>3 DEF Covered
<1>5. CASE \E n \in Nodes : WorkerOwes(n, t)
  BY <1>5 DEF WorkerOwes, workerVars, callbackVars, Mine, Covered
<1>. QED BY <1>2, <1>3, <1>4, <1>5 DEF Covered

\* The owner of the lock that c cannot get does, or has done, the work.
LEMMA TimeoutCovered ==
  ASSUME IInv, CoverInv, NEW c \in Consumers, BrokerLockTimeout(c),
         UNCHANGED <<gateVars, workerVars>>, NEW t \in Tasks, Own(c) = t
  PROVE  Covered(t)'
<1>1. BrokerTypeOK /\ jpc[c] = "lock" /\ rlock[t] # Free
  BY DEF IInv, TypeOK, BrokerLockTimeout
<1>2. PICK d \in Consumers : rlock[t] = d
  BY <1>1 DEF CoverInv, NoOrphans, BrokerTypeOK
<1>3. /\ Own(d) = t
      /\ \/ jpc[d] \in {"check", "run", "exec"}
         \/ jpc[d] \notin {"idle", "lock"} /\ (HasRun(t) \/ t \in faulted)
  BY <1>2 DEF CoverInv, HolderWorks
<1>4. d # c
  BY <1>1, <1>3
<1>5. BrokerSame(d)
  BY <1>1, <1>4, BrokerAlone DEF BrokerStep
<1>6. runs' = runs /\ faulted' = faulted
  BY DEF BrokerLockTimeout, storeVars
<1>. QED
  BY <1>3, <1>5, <1>6 DEF BrokerSame, Own, Covered, BrokerOwes, Untouched, HasRun

LEMMA BrokerKeeps ==
  ASSUME IInv, LoseNothing, CoverInv, NEW c \in Consumers,
         BrokerStep(c) \/ BrokerFault(c), UNCHANGED <<gateVars, workerVars>>,
         NEW t \in Tasks, Covered(t)
  PROVE  Covered(t)'
<1>1. /\ queue \in [Queues -> Seq(Message)] /\ BrokerTypeOK /\ BrokerOK(c)
      /\ QueuesRouted /\ BrokerRouted(c) /\ TypeOK /\ InvRows
      /\ runs \in [Tasks -> 0 .. 2]
  BY DEF IInv, TypeOK, StoreTypeOK, InvBroker, CoverInv, Routed
<1>2. Mono
  BY <1>1, BrokerMono
<1>3. ASSUME Queued(t) => Queued(t)', BrokerOwes(c, t) => Covered(t)'
      PROVE  Covered(t)'
  BY <1>3, BrokerOthersOwe DEF Covered
<1>4. queue' = queue => (Queued(t) => Queued(t)')
  BY QueuesStay
<1>. USE DEF BrokerTypeOK, Goto, delivery, work
<1>5. CASE BrokerDeliver(c)
  <2>1. ~BrokerOwes(c, t)
    BY <1>5 DEF BrokerDeliver, BrokerOwes, Untouched
  <2>2. Queued(t) => Queued(t)' \/ t = Head(queue["java"]).task
    BY <1>1, <1>5, Leaves DEF BrokerDeliver, Queues
  <2>3. t = Head(queue["java"]).task => BrokerOwes(c, t)'
    BY <1>1, <1>5 DEF BrokerDeliver, BrokerOwes, Untouched, Own
  <2>. QED BY <2>1, <2>2, <2>3, BrokerOthersOwe DEF Covered
<1>6. CASE BrokerLock(c) \/ BrokerMarkRunning(c)
  <2>1. BrokerOwes(c, t) => BrokerOwes(c, t)'
    BY <1>1, <1>6 DEF BrokerLock, BrokerMarkRunning, BrokerOwes, Untouched, Own
  <2>. QED BY <1>3, <1>4, <1>6, <2>1 DEF Covered, BrokerLock, BrokerMarkRunning, storeVars
<1>7. CASE BrokerLockTimeout(c)
  <2>1. BrokerOwes(c, t) => Covered(t)'
    BY <1>7, TimeoutCovered DEF BrokerLockTimeout, BrokerOwes
  <2>. QED BY <1>3, <1>4, <1>7, <2>1 DEF BrokerLockTimeout, storeVars
<1>8. CASE BrokerCheck(c)
  <2>1. CASE Terminal(st[Own(c)]) /\ Own(c) = t
    <3>1. HasRun(t) \/ t \in faulted
      BY <1>1, <2>1 DEF InvRows, Terminal
    <3>. QED BY <1>2, <3>1 DEF Mono, Covered
  <2>2. CASE ~(Terminal(st[Own(c)]) /\ Own(c) = t)
    <3>1. BrokerOwes(c, t) => BrokerOwes(c, t)'
      BY <1>1, <1>8, <2>2 DEF BrokerCheck, BrokerOwes, Untouched, Own
    <3>. QED BY <1>3, <1>4, <1>8, <3>1 DEF Covered, BrokerCheck, storeVars
  <2>. QED BY <2>1, <2>2
<1>9. CASE BrokerExecute(c)
  <2>1. BrokerOwes(c, t) => HasRun(t)'
    BY <1>1, <1>9, RanMono DEF BrokerExecute, BrokerOwes
  <2>. QED BY <1>3, <1>4, <1>9, <2>1 DEF Covered, BrokerExecute
<1>10. CASE BrokerRefuse(c) \/ BrokerError(c)
  <2>1. BrokerOwes(c, t) => t \in faulted'
    BY <1>10 DEF BrokerRefuse, BrokerError, EnterFailure, BrokerOwes, Untouched,
       ProcessPoints, FailurePoints
  <2>. QED BY <1>3, <1>4, <1>10, <2>1 DEF Covered, BrokerRefuse, BrokerError
<1>11. CASE BrokerPublish(c)
  <2>1. /\ Queued(t) => Queued(t)'
        /\ t = jcur[c].task => Queued(t)'
    <3>1. jcur[c] \in Message
      BY <1>1, <1>11 DEF BrokerPublish, BrokerOK, Good
    <3>. QED BY <1>1, <1>11, <3>1, Joins DEF BrokerPublish, BrokerRouted
  <2>2. BrokerOwes(c, t) => t = jcur[c].task
    BY <1>11 DEF BrokerPublish, BrokerOwes, Untouched
  <2>. QED BY <1>3, <2>1, <2>2 DEF Covered
<1>12. CASE BrokerRedeliver(c)
  <2>1. jpc[c] # "idle" /\ jmsg[c] \in Message /\ jmsg[c].queue \in Queues
    BY <1>1, <1>12 DEF BrokerRedeliver, BrokerOK, BrokerRouted, Queues
  <2>2. Queued(t) => Queued(t)'
    BY <1>1, <1>12, <2>1, Joins DEF BrokerRedeliver
  <2>3. BrokerOwes(c, t) => BrokerOwes(c, t)'
    BY <1>12 DEF BrokerRedeliver, BrokerOwes, Own
  <2>. QED BY <1>3, <2>2, <2>3 DEF Covered
<1>13. CASE \/ BrokerComplete(c) \/ BrokerReadWorkflow(c) \/ BrokerReadTasks(c)
            \/ BrokerTrigger(c) \/ BrokerSaveWorkflow(c) \/ BrokerFailTask(c)
            \/ BrokerFailWorkflow(c) \/ BrokerCompensate(c) \/ BrokerFinish(c)
  <2>1. queue' = queue /\ ~BrokerOwes(c, t)
    BY <1>13 DEF BrokerComplete, BrokerReadWorkflow, BrokerReadTasks,
       BrokerTrigger, BrokerSaveWorkflow, BrokerFailTask, BrokerFailWorkflow,
       BrokerCompensate, BrokerFinish, BrokerOwes, Untouched, storeVars
  <2>. QED BY <1>3, <1>4, <2>1
<1>. QED
  BY <1>5, <1>6, <1>7, <1>8, <1>9, <1>10, <1>11, <1>12, <1>13, NothingDropped
     DEF BrokerStep, BrokerFault

\* A thread lets the rows say RUNNING only of a task that is its own or that it
\* is about to publish.
LEMMA BrokerStarts ==
  ASSUME IInv, LoseNothing, CoverInv, NEW c \in Consumers,
         BrokerStep(c) \/ BrokerFault(c), UNCHANGED <<gateVars, workerVars>>,
         NEW t \in Tasks, Started(t)'
  PROVE  Started(t) \/ Covered(t)'
<1>1. BrokerTypeOK /\ st \in [Tasks -> Status] /\ BrokerOK(c)
  BY DEF IInv, TypeOK, StoreTypeOK, InvBroker
<1>2. CASE \E n \in Nodes : (npc[n] # "idle" /\ Mine(n) = t)' \/ t \in nrows'[n]
  BY <1>2 DEF workerVars, callbackVars, txData, Mine, Started
<1>3. CASE \E d \in Consumers \ {c} : (jpc[d] # "idle" /\ Own(d) = t)'
  <2>1. PICK d \in Consumers \ {c} : (jpc[d] # "idle" /\ Own(d) = t)'
    BY <1>3
  <2>2. BrokerSame(d)
    BY <1>1, BrokerAlone
  <2>. QED BY <2>1, <2>2 DEF BrokerSame, Own, Started
<1>. USE DEF BrokerTypeOK, Goto, delivery, work
<1>4. CASE (jpc[c] # "idle" /\ Own(c) = t)'
  <2>1. CASE BrokerDeliver(c)
    BY <1>1, <1>4, <2>1 DEF BrokerDeliver, Covered, BrokerOwes, Untouched, Own
  <2>2. CASE ~BrokerDeliver(c)
    <3>1. jpc[c] # "idle"
      BY <1>1, <2>2 DEF BrokerOK, BrokerStep, BrokerFault, BrokerLock,
      BrokerLockTimeout,
      BrokerCheck, BrokerMarkRunning, BrokerExecute, BrokerRefuse, BrokerComplete,
      BrokerReadWorkflow, BrokerReadTasks, BrokerTrigger, BrokerPublish,
      BrokerSaveWorkflow, BrokerFailTask, BrokerFailWorkflow, BrokerCompensate,
      BrokerFinish, BrokerError, BrokerPublishFails, BrokerCrash,
      BrokerRedeliver, ProcessPoints, FailurePoints
    <3>2. ~BrokerFinish(c) /\ ~BrokerCrash(c)
      BY <1>1, <1>4 DEF BrokerFinish, BrokerCrash, Reset
    <3>3. jmsg' = jmsg
      BY <2>2, <3>2 DEF BrokerStep, BrokerFault, BrokerLock,
      BrokerLockTimeout,
      BrokerCheck, BrokerMarkRunning, BrokerExecute, BrokerRefuse, BrokerComplete,
      BrokerReadWorkflow, BrokerReadTasks, BrokerTrigger, BrokerPublish,
      BrokerSaveWorkflow, BrokerFailTask, BrokerFailWorkflow, BrokerCompensate,
      BrokerError, BrokerPublishFails, BrokerRedeliver
    <3>. QED BY <1>4, <3>1, <3>3 DEF Own, Started
  <2>. QED BY <2>1, <2>2
<1>5. CASE st'[t] = "RUNNING"
  <2>1. CASE BrokerMarkRunning(c)
    BY <1>1, <1>5, <2>1 DEF BrokerMarkRunning, SaveTask, Started, Own
  <2>2. CASE BrokerTrigger(c)
    <3>1. PICK m \in jtodo[c] : /\ SaveTask(m.task, "RUNNING")
                                /\ jcur' = [jcur EXCEPT ![c] = m]
      BY <2>2 DEF BrokerTrigger
    <3>2. CASE m.task = t
      BY <1>1, <2>2, <3>1, <3>2 DEF BrokerTrigger, Covered, BrokerOwes
    <3>3. CASE m.task # t
      BY <1>1, <1>5, <3>1, <3>3 DEF SaveTask, Started
    <3>. QED BY <3>2, <3>3
  <2>3. CASE ~BrokerMarkRunning(c) /\ ~BrokerTrigger(c)
    <3>1. \/ st' = st
          \/ BrokerComplete(c) \/ BrokerFailTask(c)
      BY <2>3 DEF BrokerStep, BrokerFault, BrokerDeliver, BrokerLock,
      BrokerLockTimeout, BrokerCheck, BrokerExecute, BrokerRefuse,
      BrokerReadWorkflow, BrokerReadTasks, BrokerPublish,
      BrokerSaveWorkflow, BrokerFailWorkflow, BrokerCompensate,
      BrokerFinish, BrokerError, BrokerPublishFails, BrokerCrash,
      BrokerRedeliver, storeVars
    <3>2. st[t] = "RUNNING"
      BY <1>1, <1>5, <3>1 DEF BrokerComplete, BrokerFailTask, SaveTask
    <3>. QED BY <3>2 DEF Started
  <2>. QED BY <2>1, <2>2, <2>3
<1>. QED BY <1>2, <1>3, <1>4, <1>5 DEF Started

LEMMA BrokerCovers ==
  ASSUME IInv, LoseNothing, CoverInv, NEW c \in Consumers,
         BrokerStep(c) \/ BrokerFault(c), UNCHANGED <<gateVars, workerVars>>
  PROVE  CoverInv'
<1>1. Routed' /\ HolderWorks' /\ NoOrphans'
  BY BrokerRoutes, BrokerHolds DEF CoverInv
<1>2. ASSUME NEW t \in Tasks, Started(t)' PROVE Covered(t)'
  BY <1>2, BrokerStarts, BrokerKeeps DEF CoverInv, AllCovered
<1>. QED BY <1>1, <1>2 DEF CoverInv, AllCovered

LEMMA LocksCover ==
  ASSUME IInv, CoverInv, (\E t \in Tasks : LockExpire(t)) \/ RedisRestart,
         UNCHANGED <<gateVars, workerVars>>
  PROVE  CoverInv'
<1>1. /\ st' = st /\ queue' = queue /\ runs' = runs /\ faulted' = faulted
      /\ jpc' = jpc /\ jmsg' = jmsg /\ jtodo' = jtodo /\ jcur' = jcur
      /\ gtodo' = gtodo /\ npc' = npc /\ nmsg' = nmsg /\ nrows' = nrows
      /\ link' = link
  BY DEF LockExpire, RedisRestart, storeVars, delivery, work, gateVars,
     workerVars, callbackVars, txData
<1>2. Routed'
  BY <1>1 DEF CoverInv, Routed, QueuesRouted, Waiting, BrokerRouted, WorkerRouted
<1>3. AllCovered'
  BY <1>1 DEF CoverInv, AllCovered, Started, Covered, Queued, BrokerOwes,
     WorkerOwes, Own, Mine, HasRun
<1>4. rlock \in [Tasks -> Consumers \cup {Free, Orphan}]
  BY DEF IInv, TypeOK, BrokerTypeOK
<1>5. \A t \in Tasks : rlock'[t] = rlock[t] \/ rlock'[t] = Free
  BY <1>4 DEF LockExpire, RedisRestart
<1>6. NoOrphans'
  BY <1>5, BrokerAssumption DEF CoverInv, NoOrphans
<1>7. HolderWorks'
  BY <1>1, <1>5, BrokerAssumption DEF CoverInv, HolderWorks, Own, HasRun
<1>. QED BY <1>2, <1>3, <1>6, <1>7 DEF CoverInv

---------------------------------------------------------------------------
(* The worker. *)

\* The callback of a pod that is being shut down takes no new message.
LEMMA OpenDelivers ==
  ASSUME NEW n \in Nodes, PodWorks(n) \/ PodFails(n) \/ PodGoesOn(n),
         WorkerDeliver(n)
  PROVE  link[n] = "open"
BY DEF PodWorks, PodFails, PodGoesOn, WorkerDeliver, WorkerExecute,
       WorkerExecuteFails, WorkerFailWorkflow, WorkerCommit, WorkerCheck,
       WorkerMarkRunning, WorkerComplete, WorkerReadDag, WorkerFailTask

\* What holds of a step that touches only the callback and the link of n.
Alone(n) ==
  \A k \in Nodes \ {n} :
    npc'[k] = npc[k] /\ nmsg'[k] = nmsg[k] /\ nrows'[k] = nrows[k]
    /\ link'[k] = link[k]

LEMMA CallbackAlone ==
  ASSUME WorkerTypeOK, NEW n \in Nodes, WorkerStep(n) \/ WorkerFault(n),
         link' = link
  PROVE  Alone(n)
<1>. USE DEF Alone, WorkerTypeOK, txData, At
<1>1. CASE WorkerDeliver(n) \/ WorkerCheck(n) \/ WorkerMarkRunning(n)
  BY <1>1 DEF WorkerDeliver, WorkerCheck, WorkerMarkRunning
<1>2. CASE WorkerExecute(n) \/ WorkerExecuteFails(n) \/ WorkerComplete(n)
  BY <1>2 DEF WorkerExecute, WorkerExecuteFails, WorkerComplete
<1>3. CASE WorkerFatalCrash(n) \/ WorkerAck(n) \/ WorkerCrash(n)
  BY <1>3 DEF WorkerFatalCrash, WorkerAck, WorkerCrash, ResetWorker
<1>4. CASE WorkerReadDag(n) \/ WorkerFailTask(n) \/ WorkerFailWorkflow(n)
  BY <1>4 DEF WorkerReadDag, WorkerFailTask, WorkerFailWorkflow
<1>5. CASE WorkerPublish(n) \/ WorkerCommit(n)
  BY <1>5 DEF WorkerPublish, WorkerCommit
<1>6. CASE \/ WorkerUnsupported(n) \/ WorkerDeadlockVictim(n)
           \/ WorkerError(n) \/ WorkerPublishFails(n)
  BY <1>6 DEF WorkerUnsupported, WorkerDeadlockVictim, WorkerError,
     WorkerPublishFails, RollbackAndThrow, ResetWorker
<1>. QED BY <1>1, <1>2, <1>3, <1>4, <1>5, <1>6 DEF WorkerStep, WorkerFault

LEMMA ShutdownAlone ==
  ASSUME WorkerTypeOK, PodTypeOK, NEW n \in Nodes, PodShutdown(n)
  PROVE  Alone(n)
<1>. USE DEF Alone, WorkerTypeOK, PodTypeOK, Becomes, callbackVars, txData, At
<1>1. CASE PodSignal(n) \/ PodEndPool(n) \/ PodBoot(n)
  BY <1>1 DEF PodSignal, PodEndPool, PodBoot
<1>2. CASE PodThrow(n)
  BY <1>2 DEF PodThrow, RollbackAndThrow
<1>3. CASE PodGone(n)
  BY <1>3 DEF PodGone, ResetWorker
<1>. QED BY <1>1, <1>2, <1>3 DEF PodShutdown

LEMMA BrokersUntouched ==
  ASSUME UNCHANGED <<gateVars, brokerVars>>, Routed, HolderWorks, NoOrphans, Mono
  PROVE  /\ \A m \in gtodo' : m.queue \in Queues
         /\ \A c \in Consumers : BrokerRouted(c)'
         /\ HolderWorks' /\ NoOrphans'
<1>1. /\ jpc' = jpc /\ jmsg' = jmsg /\ jtodo' = jtodo /\ jcur' = jcur
      /\ rlock' = rlock /\ gtodo' = gtodo
  BY DEF gateVars, brokerVars, delivery, work
<1>2. HolderWorks'
  BY <1>1 DEF HolderWorks, Own, Mono
<1>. QED BY <1>1, <1>2 DEF Routed, BrokerRouted, NoOrphans

LEMMA WorkersOwe ==
  ASSUME UNCHANGED <<gateVars, brokerVars>>, Mono, NEW n \in Nodes, Alone(n),
         NEW t \in Tasks, Covered(t),
         Queued(t) => Covered(t)', WorkerOwes(n, t) => Covered(t)'
  PROVE  Covered(t)'
<1>1. CASE HasRun(t) \/ t \in faulted
  BY <1>1 DEF Mono, Covered
<1>2. CASE \/ \E m \in gtodo : m.task = t
           \/ \E c \in Consumers : BrokerOwes(c, t)
  BY <1>2 DEF gateVars, brokerVars, delivery, work, Covered, BrokerOwes, Own
<1>3. CASE \E k \in Nodes \ {n} : WorkerOwes(k, t)
  BY <1>3 DEF Alone, WorkerOwes, Mine, Covered
<1>. QED BY <1>1, <1>2, <1>3 DEF Covered

\* A step of n keeps CoverInv when it keeps what n itself owes.
LEMMA WorkersCover ==
  ASSUME UNCHANGED <<gateVars, brokerVars>>, Mono, CoverInv,
         NEW n \in Nodes, Alone(n), QueuesRouted', WorkerRouted(n)',
         \A t \in Tasks : Queued(t) => Covered(t)',
         \A t \in Tasks : WorkerOwes(n, t) => Covered(t)',
         \A t \in Tasks : st'[t] = "RUNNING" => Started(t) \/ Covered(t)',
         \A t \in Tasks : npc'[n] # "idle" /\ nmsg'[n].task = t =>
                            Started(t) \/ Covered(t)',
         \A t \in Tasks : t \in nrows'[n] => Started(t) \/ Covered(t)'
  PROVE  CoverInv'
<1>1. HolderWorks' /\ NoOrphans'
  BY BrokersUntouched DEF CoverInv
<1>2. \A k \in Nodes : WorkerRouted(k)'
  BY DEF Alone, WorkerRouted, CoverInv, Routed
<1>3. Routed'
  BY <1>2, BrokersUntouched DEF CoverInv, Routed
<1>4. ASSUME NEW t \in Tasks, Started(t)' PROVE Started(t) \/ Covered(t)'
  <2>1. CASE \E c \in Consumers : (jpc[c] # "idle" /\ Own(c) = t)'
    BY <2>1 DEF brokerVars, delivery, Own, Started
  <2>2. CASE \E k \in Nodes \ {n} :
               (npc[k] # "idle" /\ Mine(k) = t)' \/ t \in nrows'[k]
    BY <2>2 DEF Alone, Mine, Started
  <2>. QED BY <1>4, <2>1, <2>2 DEF Started, Mine
<1>5. ASSUME NEW t \in Tasks, Started(t)' PROVE Covered(t)'
  <2>1. Covered(t) => Covered(t)'
    BY WorkersOwe
  <2>. QED BY <1>4, <1>5, <2>1 DEF CoverInv, AllCovered
<1>6. AllCovered'
  BY <1>5 DEF AllCovered
<1>. QED BY <1>1, <1>3, <1>6 DEF CoverInv

\* A throw hands the message back or is the failure of the task.
LEMMA ThrowCovers ==
  ASSUME IInv, Mono, CoverInv, UNCHANGED <<gateVars, brokerVars>>,
         NEW n \in Nodes, npc[n] # "idle", RollbackAndThrow(n), Alone(n), st' = st
  PROVE  CoverInv'
<1>1. /\ queue \in [Queues -> Seq(Message)] /\ WorkerTypeOK
      /\ QueuesRouted /\ nmsg[n] \in Message /\ nmsg[n].queue = "node"
  BY DEF IInv, TypeOK, StoreTypeOK, WorkerTypeOK, CoverInv, Routed, WorkerRouted
<1>. USE DEF WorkerTypeOK, At
<1>2. QueuesRouted' /\ \A t : Queued(t) => Queued(t)'
  <2>1. queue' = queue \/ Requeue(nmsg[n])
    BY DEF RollbackAndThrow
  <2>. QED BY <1>1, <2>1, QueuesStay, Joins DEF Queues
<1>3. \A t : Mine(n) = t => Queued(t)' \/ t \in faulted'
  <2>1. CASE Requeue(nmsg[n])
    BY <1>1, <2>1, Joins DEF Queues, Mine
  <2>2. CASE faulted' = faulted \cup {Mine(n)}
    BY <2>2
  <2>. QED BY <2>1, <2>2 DEF RollbackAndThrow
<1>4. \/ npc'[n] = "idle" /\ nrows'[n] = {}
      \/ nmsg' = nmsg /\ nrows'[n] = {}
  BY <1>1 DEF RollbackAndThrow, ResetWorker
<1>5. WorkerRouted(n)'
  BY <1>1, <1>4 DEF WorkerRouted
<1>6. \A t \in Tasks : Queued(t) => Covered(t)'
  BY <1>2 DEF Covered
<1>7. \A t \in Tasks : Mine(n) = t => Covered(t)'
  BY <1>3 DEF Covered
<1>8. \A t \in Tasks : WorkerOwes(n, t) => Covered(t)'
  BY <1>7 DEF WorkerOwes
<1>9. \A t \in Tasks : st'[t] = "RUNNING" => Started(t)
  BY DEF Started
<1>10. \A t \in Tasks : npc'[n] # "idle" /\ nmsg'[n].task = t => Covered(t)'
  BY <1>4, <1>7 DEF Mine
<1>11. nrows'[n] = {}
  BY <1>4
<1>. QED BY <1>2, <1>5, <1>6, <1>8, <1>9, <1>10, <1>11, WorkersCover

LEMMA CallbackCovers ==
  ASSUME IInv, CoverInv, NEW n \in Nodes,
         PodWorks(n) \/ PodFails(n) \/ PodGoesOn(n), UNCHANGED <<gateVars, brokerVars>>
  PROVE  CoverInv'
<1>1. (WorkerStep(n) \/ WorkerFault(n)) /\ link' = link
  BY PodCallback
<1>2. /\ queue \in [Queues -> Seq(Message)] /\ WorkerTypeOK /\ WorkerOK(n)
      /\ QueuesRouted /\ TypeOK /\ InvRows /\ st \in [Tasks -> Status]
      /\ runs \in [Tasks -> 0 .. 2] /\ WorkerRouted(n)
      /\ npc[n] # "idle" => nmsg[n] \in Message
  BY DEF IInv, TypeOK, StoreTypeOK, InvWorker, CoverInv, Routed, WorkerTypeOK
<1>3. Mono /\ Alone(n)
  BY <1>1, <1>2, WorkerMono, CallbackAlone
<1>4. queue' = queue => QueuesRouted' /\ \A t \in Tasks : Queued(t) => Covered(t)'
  BY <1>2, QueuesStay DEF Covered
<1>5. \A t \in Tasks : npc[n] # "idle" /\ Mine(n) = t => Started(t)
  BY DEF Started
<1>6. \A t \in Tasks : t \in nrows[n] => Started(t)
  BY DEF Started
<1>7. st' = st => \A t \in Tasks : st'[t] = "RUNNING" => Started(t)
  BY DEF Started
<1>. USE DEF WorkerTypeOK, At, txData
<1>8. CASE WorkerDeliver(n)
  <2>1. link[n] = "open" /\ link' = link
    BY <1>1, <1>8, OpenDelivers
  <2>2. /\ QueuesRouted' /\ Head(queue["node"]).queue = "node"
        /\ \A t : Queued(t) => Queued(t)' \/ t = Head(queue["node"]).task
    BY <1>2, <1>8, Leaves DEF WorkerDeliver, Queues
  <2>3. \A t \in Tasks : t = Head(queue["node"]).task => WorkerOwes(n, t)'
    BY <1>2, <1>8, <2>1 DEF WorkerDeliver, WorkerOwes, Untouched, Mine
  <2>4. \A t \in Tasks : t = Head(queue["node"]).task => Covered(t)'
    BY <2>3 DEF Covered
  <2>5. \A t \in Tasks : Queued(t) => Covered(t)'
    BY <2>2, <2>4 DEF Covered
  <2>6. \A t \in Tasks : ~WorkerOwes(n, t)
    BY <1>8 DEF WorkerDeliver, WorkerOwes, Untouched
  <2>7. /\ WorkerRouted(n)' /\ st' = st /\ nrows' = nrows
        /\ nmsg'[n] = Head(queue["node"])
    BY <1>2, <1>8, <2>2 DEF WorkerDeliver, WorkerRouted
  <2>. QED BY <1>3, <1>6, <1>7, <2>2, <2>4, <2>5, <2>6, <2>7, WorkersCover
<1>9. CASE WorkerCheck(n)
  <2>1. /\ queue' = queue /\ st' = st /\ nrows' = nrows /\ nmsg' = nmsg
        /\ npc[n] # "idle" /\ runs' = runs /\ faulted' = faulted
    BY <1>9 DEF WorkerCheck, storeVars
  <2>2. ASSUME NEW t \in Tasks, WorkerOwes(n, t) PROVE Covered(t)'
    <3>1. CASE Terminal(st[t])
      <4>1. HasRun(t) \/ t \in faulted
        BY <1>2, <3>1 DEF InvRows, Terminal
      <4>. QED BY <1>3, <4>1 DEF Mono, Covered
    <3>2. CASE ~Terminal(st[t])
      <4>1. WorkerOwes(n, t)'
        BY <1>1, <1>2, <1>9, <2>2, <3>2 DEF WorkerCheck, WorkerOwes, Untouched, Mine
      <4>. QED BY <4>1 DEF Covered
    <3>. QED BY <3>1, <3>2
  <2>3. WorkerRouted(n)'
    BY <1>2, <2>1 DEF WorkerRouted
  <2>. QED
    BY <1>3, <1>4, <1>5, <1>6, <1>7, <2>1, <2>2, <2>3, WorkersCover DEF Mine
<1>10. CASE WorkerMarkRunning(n)
  <2>1. /\ queue' = queue /\ nrows' = nrows /\ nmsg' = nmsg /\ npc[n] # "idle"
        /\ st' = [st EXCEPT ![Mine(n)] = "RUNNING"]
    BY <1>10 DEF WorkerMarkRunning, UpdateTask
  <2>2. ASSUME NEW t \in Tasks, WorkerOwes(n, t) PROVE Covered(t)'
    <3>1. WorkerOwes(n, t)'
      BY <1>1, <1>2, <1>10, <2>2 DEF WorkerMarkRunning, WorkerOwes, Untouched, Mine
    <3>. QED BY <3>1 DEF Covered
  <2>3. WorkerRouted(n)'
    BY <1>2, <2>1 DEF WorkerRouted
  <2>4. \A t \in Tasks : st'[t] = "RUNNING" => Started(t)
    BY <1>2, <1>5, <2>1 DEF Started
  <2>. QED BY <1>3, <1>4, <1>5, <1>6, <2>1, <2>2, <2>3, <2>4, WorkersCover DEF Mine
<1>11. CASE WorkerExecute(n)
  <2>1. /\ queue' = queue /\ st' = st /\ nrows' = nrows /\ nmsg' = nmsg
        /\ npc[n] # "idle"
    BY <1>11 DEF WorkerExecute
  <2>2. ASSUME NEW t \in Tasks, WorkerOwes(n, t) PROVE Covered(t)'
    <3>1. HasRun(t)'
      BY <1>2, <1>11, <2>2, RanMono DEF WorkerExecute, WorkerOwes
    <3>. QED BY <3>1 DEF Covered
  <2>3. WorkerRouted(n)'
    BY <1>2, <2>1 DEF WorkerRouted
  <2>. QED
    BY <1>3, <1>4, <1>5, <1>6, <1>7, <2>1, <2>2, <2>3, WorkersCover DEF Mine
<1>12. CASE WorkerExecuteFails(n)
  <2>1. /\ queue' = queue /\ st' = st /\ nrows' = nrows /\ nmsg' = nmsg
        /\ npc[n] # "idle" /\ faulted' = faulted \cup {Mine(n)}
    BY <1>12 DEF WorkerExecuteFails
  <2>2. \A t \in Tasks : WorkerOwes(n, t) => Covered(t)'
    BY <2>1 DEF WorkerOwes, Covered
  <2>3. WorkerRouted(n)'
    BY <1>2, <2>1 DEF WorkerRouted
  <2>. QED
    BY <1>3, <1>4, <1>5, <1>6, <1>7, <2>1, <2>2, <2>3, WorkersCover DEF Mine
<1>13. CASE WorkerFatalCrash(n) \/ WorkerCrash(n)
  <2>1. Requeue(nmsg[n]) /\ ResetWorker(n) /\ npc[n] # "idle" /\ st' = st
    BY <1>13 DEF WorkerFatalCrash, WorkerCrash
  <2>2. nmsg[n] \in Message /\ nmsg[n].queue \in Queues
    BY <1>2, <2>1 DEF WorkerRouted, Queues
  <2>3. /\ QueuesRouted' /\ \A t : Queued(t) => Queued(t)'
        /\ \A t : t = nmsg[n].task => Queued(t)'
    BY <1>2, <2>1, <2>2, Joins
  <2>4. \A t \in Tasks : Queued(t) \/ WorkerOwes(n, t) => Covered(t)'
    BY <2>3 DEF WorkerOwes, Mine, Covered
  <2>5. WorkerRouted(n)' /\ npc'[n] = "idle" /\ nrows'[n] = {}
    BY <1>2, <2>1 DEF ResetWorker, WorkerRouted
  <2>. QED BY <1>3, <1>7, <2>1, <2>3, <2>4, <2>5, WorkersCover
<1>14. CASE \/ WorkerComplete(n) \/ WorkerReadDag(n) \/ WorkerFailTask(n)
            \/ WorkerFailWorkflow(n)
  <2>1. /\ queue' = queue /\ nrows' = nrows /\ nmsg' = nmsg
        /\ npc[n] # "idle"
    BY <1>14
       DEF WorkerComplete, WorkerReadDag, WorkerFailTask, WorkerFailWorkflow
  <2>2. \A t \in Tasks : ~WorkerOwes(n, t)
    BY <1>14 DEF WorkerComplete, WorkerReadDag, WorkerFailTask,
       WorkerFailWorkflow, WorkerOwes, Untouched
  <2>3. WorkerRouted(n)'
    BY <1>2, <2>1 DEF WorkerRouted
  <2>4. \A t \in Tasks : st'[t] = "RUNNING" => Started(t)
    BY <1>2, <1>14 DEF WorkerComplete, WorkerReadDag, WorkerFailTask,
       WorkerFailWorkflow, UpdateTask, Started
  <2>. QED
    BY <1>3, <1>4, <1>5, <1>6, <2>1, <2>2, <2>3, <2>4, WorkersCover DEF Mine
<1>15. CASE WorkerPublish(n)
  <2>1. PICK m \in ntodo[n] : /\ m.queue # "other" /\ Send(m)
                              /\ nrows' = [nrows EXCEPT ![n] = @ \cup {m.task}]
    BY <1>15 DEF WorkerPublish
  <2>2. m \in Message /\ m.queue \in Queues
    BY <1>2, <2>1 DEF Message
  <2>3. /\ QueuesRouted' /\ \A t : Queued(t) => Queued(t)'
        /\ \A t : t = m.task => Queued(t)'
    BY <1>2, <2>1, <2>2, Joins
  <2>4. \A t \in Tasks : t \in nrows'[n] => Started(t) \/ Covered(t)'
    BY <1>2, <1>6, <2>1, <2>3 DEF Covered
  <2>5. st' = st /\ nmsg' = nmsg /\ npc[n] = "publish" /\ npc' = npc
    BY <1>15 DEF WorkerPublish
  <2>6. \A t \in Tasks : Queued(t) => Covered(t)'
    BY <2>3 DEF Covered
  <2>7. \A t \in Tasks : ~WorkerOwes(n, t)
    BY <2>5 DEF WorkerOwes, Untouched
  <2>8. WorkerRouted(n)'
    BY <1>2, <2>5 DEF WorkerRouted
  <2>9. \A t \in Tasks : npc'[n] # "idle" /\ nmsg'[n].task = t => Started(t)
    BY <1>5, <2>5 DEF Mine
  <2>. QED BY <1>3, <1>7, <2>3, <2>4, <2>5, <2>6, <2>7, <2>8, <2>9, WorkersCover
<1>16. CASE WorkerCommit(n)
  <2>1. /\ queue' = queue /\ nrows' = nrows /\ nmsg' = nmsg /\ npc[n] = "publish"
    BY <1>16 DEF WorkerCommit
  <2>2. \A t \in Tasks : st'[t] = "RUNNING" => Started(t)
    BY <1>16 DEF WorkerCommit, Started
  <2>3. \A t \in Tasks : ~WorkerOwes(n, t)
    BY <2>1 DEF WorkerOwes, Untouched
  <2>4. WorkerRouted(n)'
    BY <1>2, <2>1 DEF WorkerRouted
  <2>. QED
    BY <1>3, <1>4, <1>5, <1>6, <2>1, <2>2, <2>3, <2>4, WorkersCover DEF Mine
<1>17. CASE WorkerAck(n)
  <2>1. /\ queue' = queue /\ st' = st /\ npc'[n] = "idle" /\ nrows'[n] = {}
    BY <1>2, <1>17 DEF WorkerAck, ResetWorker, storeVars
  <2>2. \A t \in Tasks : ~WorkerOwes(n, t)
    BY <1>17 DEF WorkerAck, WorkerOwes, Untouched
  <2>3. WorkerRouted(n)'
    BY <2>1 DEF WorkerRouted
  <2>. QED BY <1>3, <1>4, <1>7, <2>1, <2>2, <2>3, WorkersCover
<1>18. CASE \/ WorkerUnsupported(n) \/ WorkerDeadlockVictim(n)
            \/ WorkerError(n) \/ WorkerPublishFails(n)
  <2>1. RollbackAndThrow(n) /\ st' = st
    BY <1>18 DEF WorkerUnsupported, WorkerDeadlockVictim, WorkerError,
       WorkerPublishFails
  <2>2. npc[n] # "idle"
    BY <1>18 DEF WorkerUnsupported, WorkerDeadlockVictim, WorkerError,
       WorkerPublishFails, Victim, WaitsFor, Wanted
  <2>. QED BY <1>3, <2>1, <2>2, ThrowCovers
<1>. QED
  BY <1>1, <1>8, <1>9, <1>10, <1>11, <1>12, <1>13, <1>14, <1>15, <1>16, <1>17,
     <1>18 DEF WorkerStep, WorkerFault

\* A pod that is told to stop hands back what it has; one that is gone without
\* a trace had been told to stop before.
LEMMA ShutdownCovers ==
  ASSUME IInv, CoverInv, NEW n \in Nodes, PodShutdown(n),
         UNCHANGED <<gateVars, brokerVars>>
  PROVE  CoverInv'
<1>1. /\ queue \in [Queues -> Seq(Message)] /\ WorkerTypeOK /\ PodTypeOK
      /\ QueuesRouted /\ TypeOK /\ WorkerRouted(n)
      /\ npc[n] # "idle" => nmsg[n] \in Message
  BY DEF IInv, TypeOK, StoreTypeOK, CoverInv, Routed, WorkerTypeOK
<1>2. /\ st' = st /\ runs' = runs /\ faulted \subseteq faulted'
      /\ faults' = faults \/ faults' = faults + 1
  <2>1. faulted \subseteq faulted'
    BY <1>1, ShutdownCases DEF Detached, Vanished, RollbackAndThrow
  <2>. QED BY <1>1, <2>1, ShutdownCases
<1>3. Mono
  BY <1>1, <1>2, MonoStep DEF gateVars
<1>4. Alone(n)
  BY <1>1, ShutdownAlone
<1>5. \A t \in Tasks : st'[t] = "RUNNING" => Started(t)
  BY <1>2 DEF Started
<1>6. CASE PodSignal(n) \/ PodEndPool(n) \/ PodBoot(n)
  <2>1. npc' = npc /\ nmsg' = nmsg /\ nrows' = nrows
    BY <1>6 DEF PodSignal, PodEndPool, PodBoot, callbackVars, txData
  <2>2. /\ QueuesRouted' /\ \A t : Queued(t) => Queued(t)'
    <3>1. queue' = queue \/ (npc[n] # "idle" /\ Requeue(nmsg[n]))
      BY <1>6 DEF PodSignal, PodEndPool, PodBoot, storeVars
    <3>. QED BY <1>1, <3>1, QueuesStay, Joins DEF WorkerRouted, Queues
  <2>3. ASSUME NEW t \in Tasks, WorkerOwes(n, t) PROVE Queued(t)'
    <3>1. npc[n] # "idle" /\ Mine(n) = t /\ link[n] = "open"
      BY <2>3 DEF WorkerOwes, Untouched
    <3>2. PodSignal(n)
      BY <1>6, <3>1 DEF PodEndPool, PodBoot
    <3>3. Requeue(nmsg[n])
      BY <3>1, <3>2 DEF PodSignal
    <3>. QED BY <1>1, <3>1, <3>3, Joins DEF WorkerRouted, Queues, Mine
  <2>4. \A t \in Tasks : Queued(t) \/ WorkerOwes(n, t) => Covered(t)'
    BY <2>2, <2>3 DEF Covered
  <2>5. \A t \in Tasks : npc'[n] # "idle" /\ nmsg'[n].task = t => Started(t)
    BY <2>1 DEF Started, Mine
  <2>6. \A t \in Tasks : t \in nrows'[n] => Started(t)
    BY <2>1 DEF Started
  <2>7. WorkerRouted(n)'
    BY <1>1, <2>1 DEF WorkerRouted
  <2>. QED BY <1>3, <1>4, <1>5, <2>2, <2>4, <2>5, <2>6, <2>7, WorkersCover
<1>7. CASE PodThrow(n)
  <2>1. npc[n] # "idle"
    BY <1>7 DEF PodThrow, Breaks, Victim, WaitsFor, Wanted
  <2>. QED BY <1>2, <1>3, <1>4, <1>7, <2>1, ThrowCovers DEF PodThrow
<1>8. CASE PodGone(n)
  <2>1. /\ queue' = queue /\ npc'[n] = "idle" /\ nrows'[n] = {}
        /\ link[n] # "open"
    BY <1>1, <1>8 DEF PodGone, ResetWorker, WorkerTypeOK
  <2>2. QueuesRouted' /\ WorkerRouted(n)'
    BY <1>1, <2>1, QueuesStay DEF WorkerRouted
  <2>3. \A t \in Tasks : Queued(t) => Covered(t)'
    BY <2>1, QueuesStay DEF Covered
  <2>4. \A t \in Tasks : ~WorkerOwes(n, t)
    BY <2>1 DEF WorkerOwes
  <2>. QED BY <1>3, <1>4, <1>5, <2>1, <2>2, <2>3, <2>4, WorkersCover
<1>. QED BY <1>6, <1>7, <1>8 DEF PodShutdown

---------------------------------------------------------------------------
(* The gateway, and the whole. *)

LEMMA GateCovers ==
  ASSUME IInv, LoseNothing, CoverInv, GateNext, UNCHANGED <<brokerVars, workerVars>>
  PROVE  CoverInv'
<1>1. queue \in [Queues -> Seq(Message)] /\ QueuesRouted /\ TypeOK
  BY DEF IInv, TypeOK, StoreTypeOK, CoverInv, Routed
<1>2. Mono
  BY <1>1, GateMono
<1>3. runs' = runs /\ faulted' = faulted
  BY DEF GateNext, GateStep, GateSubmit, GatePublish, GatePublishFails, GateReply,
     GateCrash, storeVars
<1>4. /\ jpc' = jpc /\ jmsg' = jmsg /\ jtodo' = jtodo /\ jcur' = jcur
      /\ rlock' = rlock /\ npc' = npc /\ nmsg' = nmsg /\ nrows' = nrows
      /\ link' = link
  BY DEF brokerVars, delivery, work, workerVars, callbackVars, txData
<1>5. HolderWorks' /\ NoOrphans'
  BY <1>3, <1>4 DEF CoverInv, HolderWorks, NoOrphans, Own, HasRun
<1>6. ASSUME QueuesRouted', \A m \in gtodo' : m.queue \in Queues PROVE Routed'
  BY <1>4, <1>6 DEF CoverInv, Routed, BrokerRouted, WorkerRouted
<1>7. ASSUME NEW t \in Tasks, Queued(t) => Covered(t)', Covered(t),
             (\E m \in gtodo : m.task = t) => Covered(t)'
      PROVE  Covered(t)'
  BY <1>3, <1>4, <1>7 DEF Covered, HasRun, BrokerOwes, WorkerOwes, Own, Mine
<1>8. \A t \in Tasks : Started(t)' /\ st'[t] # "RUNNING" => Started(t)
  BY <1>4 DEF Started, Own, Mine
<1>9. CASE GateSubmit
  <2>1. gpc = "ready" /\ queue' = queue
    BY <1>9 DEF GateSubmit
  <2>2. gtodo = {}
    BY <2>1 DEF IInv, InvQueues, Good
  <2>3. QueuesRouted' /\ \A t : Queued(t) => Queued(t)'
    BY <1>1, <2>1, QueuesStay
  <2>4. \A m \in gtodo' : m.queue \in Queues
    <3>. TAKE m \in gtodo'
    <3>1. PICK t \in Roots : m = TaskMessage(t)
      BY <1>9 DEF GateSubmit
    <3>. QED BY <3>1, DagAssumption
             DEF LoseNothing, TaskMessage, Roots, Tasks, TaskDefinition
  <2>5. ASSUME NEW t \in Tasks, Started(t)' PROVE Covered(t)'
    <3>1. CASE st'[t] = "RUNNING"
      <4>1. t \in Roots
        BY <1>9, <3>1 DEF GateSubmit
      <4>2. TaskMessage(t) \in gtodo' /\ TaskMessage(t).task = t
        BY <1>9, <4>1 DEF GateSubmit, TaskMessage
      <4>. QED BY <4>2 DEF Covered
    <3>2. CASE st'[t] # "RUNNING"
      <4>1. Covered(t)
        BY <1>8, <2>5, <3>2 DEF CoverInv, AllCovered
      <4>. QED BY <1>7, <2>2, <2>3, <4>1 DEF Covered
    <3>. QED BY <3>1, <3>2
  <2>. QED BY <1>5, <1>6, <2>3, <2>4, <2>5 DEF CoverInv, AllCovered
<1>10. CASE GatePublish
  <2>1. PICK m \in gtodo : Send(m) /\ gtodo' = gtodo \ {m}
    BY <1>10 DEF GatePublish
  <2>2. m \in Message /\ m.queue \in Queues
    BY <2>1 DEF IInv, InvQueues, Good, CoverInv, Routed
  <2>3. /\ QueuesRouted' /\ \A t : Queued(t) => Queued(t)'
        /\ \A t : t = m.task => Queued(t)'
    BY <1>1, <2>1, <2>2, Joins
  <2>4. \A x \in gtodo' : x.queue \in Queues
    BY <2>1 DEF CoverInv, Routed
  <2>5. ASSUME NEW t \in Tasks, Started(t)' PROVE Covered(t)'
    <3>1. Started(t)
      BY <1>8, <1>10, <2>5 DEF GatePublish, Started
    <3>2. Covered(t)
      BY <3>1 DEF CoverInv, AllCovered
    <3>3. ASSUME NEW x \in gtodo, x.task = t PROVE Covered(t)'
      BY <2>1, <2>3, <3>3 DEF Covered
    <3>. QED BY <1>7, <2>3, <3>2, <3>3 DEF Covered
  <2>. QED BY <1>5, <1>6, <2>3, <2>4, <2>5 DEF CoverInv, AllCovered
<1>11. CASE GateReply
  <2>1. queue' = queue /\ gtodo' = gtodo /\ st' = st
    BY <1>11 DEF GateReply, storeVars
  <2>2. Routed'
    BY <1>1, <1>6, <2>1, QueuesStay DEF CoverInv, Routed
  <2>3. \A t : Queued(t) => Queued(t)'
    BY <2>1, QueuesStay
  <2>4. ASSUME NEW t \in Tasks, Started(t)' PROVE Covered(t)'
    <3>1. Covered(t)
      BY <1>8, <2>1, <2>4 DEF CoverInv, AllCovered, Started
    <3>. QED BY <1>7, <2>1, <2>3, <3>1 DEF Covered
  <2>. QED BY <1>5, <2>2, <2>4 DEF CoverInv, AllCovered
<1>. QED BY <1>9, <1>10, <1>11, NothingDropped DEF GateNext, GateStep

LEMMA InitCovers == Init => CoverInv
<1>. SUFFICES ASSUME Init PROVE CoverInv
  OBVIOUS
<1>1. Routed
  <2>1. \A q \in Queues : queue[q] = <<>>
    BY DEF Init, StoreInit
  <2>2. QueuesRouted
    BY <2>1, EmptySeq DEF QueuesRouted, Waiting
  <2>. QED BY <2>2
           DEF Init, GateInit, BrokerInit, WorkerInit, Routed, BrokerRouted, WorkerRouted
<1>2. HolderWorks /\ NoOrphans
  BY BrokerAssumption DEF Init, BrokerInit, HolderWorks, NoOrphans
<1>3. AllCovered
  BY DEF Init, StoreInit, BrokerInit, WorkerInit, AllCovered, Started
<1>. QED BY <1>1, <1>2, <1>3 DEF CoverInv

LEMMA StutterCovers ==
  ASSUME CoverInv, UNCHANGED vars
  PROVE  CoverInv'
BY DEF CoverInv, vars, storeVars, gateVars, brokerVars, delivery, work, workerVars,
       callbackVars, txData, Routed, QueuesRouted, Waiting, BrokerRouted,
       WorkerRouted, HolderWorks, NoOrphans, AllCovered, Started, Covered, Queued,
       BrokerOwes, WorkerOwes, Own, Mine, HasRun

LEMMA NextCovers ==
  ASSUME LoseNothing, IInv, CoverInv, [Next]_vars
  PROVE  CoverInv'
<1>1. CASE GateNext /\ UNCHANGED <<brokerVars, workerVars>>
  BY <1>1, GateCovers
<1>2. CASE BrokerNext /\ UNCHANGED <<gateVars, workerVars>>
  BY <1>2, BrokerCovers, LocksCover DEF BrokerNext
<1>3. CASE PodNext /\ UNCHANGED <<gateVars, brokerVars>>
  BY <1>3, CallbackCovers, ShutdownCovers DEF PodNext
<1>4. CASE UNCHANGED vars
  BY <1>4, StutterCovers
<1>. QED BY <1>1, <1>2, <1>3, <1>4 DEF Next

LEMMA CoverWork == CoverInv => NoLostWork
<1>. SUFFICES ASSUME CoverInv, NEW t \in Tasks, st[t] = "RUNNING", ~HasRun(t),
                     t \notin faulted
              PROVE  \/ Queued(t) \/ BeingPublished(t)
                     \/ \E c \in Consumers : jpc[c] # "idle" /\ Own(c) = t
                     \/ \E n \in Nodes : /\ npc[n] # "idle" /\ Mine(n) = t
                                         /\ link[n] = "open"
  BY DEF NoLostWork
<1>1. Covered(t)
  BY DEF CoverInv, AllCovered, Started
<1>. QED BY <1>1 DEF Covered, BeingPublished, BrokerOwes, WorkerOwes, Untouched

\* However pods are stopped and killed, errors strike, Redis forgets and
\* messages come twice, a RUNNING task that nobody has executed or given up is
\* in a queue, about to be, or with an executor that can still hand it back.
\* Not so where the gateway or a publish may fail, a broker die with its lock,
\* or a broker publish a task for a worker type that does not exist.
THEOREM WorkIsNotLost ==
  ASSUME LoseNothing
  PROVE  Spec => []NoLostWork
<1>1. IInv /\ CoverInv /\ [Next]_vars => CoverInv'
  BY NextCovers
<1>. QED BY <1>1, InitCovers, CoverWork, Invariance, PTL DEF Spec

-----------------------------------------------------------------------------
(* Nothing is done twice: the node queue, message by message. *)

LEMMA NodeSend ==
  ASSUME queue \in [Queues -> Seq(Message)], NoTwins,
         NEW m \in Message, m.queue = "node", ~Posted(m.task), Send(m)
  PROVE  /\ NoTwins' /\ Waiting("java")' = Waiting("java")
         /\ Waiting("node")' = Waiting("node") \cup {m}
         /\ \A t : Posted(t)' <=> Posted(t) \/ t = m.task
<1>. "node" \in Queues /\ "java" \in Queues /\ "java" # "node"
  BY DEF Queues
<1>1. /\ Waiting("node")' = Waiting("node") \cup {m}
      /\ Waiting("java")' = Waiting("java")
  BY SendWaiting
<1>3. \A t : Posted(t)' <=> Posted(t) \/ t = m.task
  BY <1>1 DEF Posted
<1>4. NoTwins'
  <2>. DEFINE old == queue["node"]
              s == Append(old, m)
  <2>1. queue'["node"] = s /\ old \in Seq(Message)
    BY DEF Send
  <2>2. /\ Len(old) \in Nat
        /\ Len(s) = Len(old) + 1
        /\ \A i \in 1 .. Len(old) : s[i] = old[i]
        /\ s[Len(old) + 1] = m
    BY <2>1, AppendProperties, LenProperties
  <2>3. \A i \in 1 .. Len(old) : old[i].task # m.task
    BY DEF Posted, Waiting
  <2>4. \A i, j \in 1 .. Len(old) : old[i].task = old[j].task => i = j
    BY DEF NoTwins
  <2>. HIDE DEF s, old
  <2>5. ASSUME NEW i \in 1 .. Len(s), NEW j \in 1 .. Len(s), s[i].task = s[j].task
        PROVE  i = j
    <3>1. /\ i \in 1 .. Len(old) \/ i = Len(old) + 1
          /\ j \in 1 .. Len(old) \/ j = Len(old) + 1
      BY <2>2
    <3>. QED BY <2>2, <2>3, <2>4, <2>5, <3>1
  <2>. QED BY <2>1, <2>5 DEF NoTwins
<1>. QED BY <1>1, <1>3, <1>4

LEMMA NodeRequeue ==
  ASSUME queue \in [Queues -> Seq(Message)], NoTwins,
         NEW m \in Message, m.queue = "node", ~Posted(m.task), Requeue(m)
  PROVE  /\ NoTwins' /\ Waiting("java")' = Waiting("java")
         /\ Waiting("node")' = Waiting("node") \cup {m}
         /\ \A t : Posted(t)' <=> Posted(t) \/ t = m.task
<1>. "node" \in Queues /\ "java" \in Queues /\ "java" # "node"
  BY DEF Queues
<1>1. /\ Waiting("node")' = Waiting("node") \cup {m}
      /\ Waiting("java")' = Waiting("java")
  BY RequeueWaiting
<1>3. \A t : Posted(t)' <=> Posted(t) \/ t = m.task
  BY <1>1 DEF Posted
<1>4. NoTwins'
  <2>. DEFINE old == queue["node"]
              s == <<m>> \o old
  <2>1. queue'["node"] = s /\ old \in Seq(Message) /\ <<m>> \in Seq(Message)
    BY DEF Requeue
  <2>2. Len(old) \in Nat /\ Len(<<m>>) = 1 /\ <<m>>[1] = m
    BY <2>1, LenProperties
  <2>3. /\ Len(s) = Len(old) + 1
        /\ \A i \in 1 .. Len(s) : s[i] = IF i <= 1 THEN <<m>>[i] ELSE old[i - 1]
    BY <2>1, <2>2, ConcatProperties
  <2>4. \A i \in 1 .. Len(old) : old[i].task # m.task
    BY DEF Posted, Waiting
  <2>5. \A i, j \in 1 .. Len(old) : old[i].task = old[j].task => i = j
    BY DEF NoTwins
  <2>. HIDE DEF s, old
  <2>6. ASSUME NEW i \in 1 .. Len(s)
        PROVE  \/ i = 1 /\ s[i] = m
               \/ i # 1 /\ i - 1 \in 1 .. Len(old) /\ s[i] = old[i - 1]
    BY <2>2, <2>3
  <2>7. ASSUME NEW i \in 1 .. Len(s), NEW j \in 1 .. Len(s), s[i].task = s[j].task
        PROVE  i = j
    <3>1. CASE i = 1 \/ j = 1
      BY <2>4, <2>6, <2>7, <3>1
    <3>2. CASE i # 1 /\ j # 1
      <4>1. i - 1 \in 1 .. Len(old) /\ s[i] = old[i - 1]
        BY <2>6, <3>2
      <4>2. j - 1 \in 1 .. Len(old) /\ s[j] = old[j - 1]
        BY <2>6, <3>2
      <4>3. i - 1 = j - 1
        BY <2>5, <2>7, <4>1, <4>2
      <4>4. i \in Nat /\ j \in Nat
        BY <2>2, <2>3
      <4>. QED BY <4>3, <4>4
    <3>. QED BY <3>1, <3>2
  <2>. QED BY <2>1, <2>7 DEF NoTwins
<1>. QED BY <1>1, <1>3, <1>4

LEMMA NodeTake ==
  ASSUME queue \in [Queues -> Seq(Message)], NoTwins,
         queue["node"] # <<>>, queue' = [queue EXCEPT !["node"] = Tail(@)],
         NEW m, m = Head(queue["node"])
  PROVE  /\ NoTwins' /\ Waiting("java")' = Waiting("java")
         /\ Waiting("node")' \subseteq Waiting("node") /\ m \in Waiting("node")
         /\ \A t : Posted(t)' <=> Posted(t) /\ t # m.task
<1>. "node" \in Queues /\ "java" \in Queues /\ "java" # "node"
  BY DEF Queues
<1>1. /\ Waiting("node")' \subseteq Waiting("node")
      /\ Waiting("node") \subseteq Waiting("node")' \cup {m}
      /\ m \in Waiting("node")
  BY TakeWaiting
<1>11. Waiting("java")' = Waiting("java")
  BY DEF Waiting
<1>. DEFINE old == queue["node"]
            s == Tail(old)
<1>2. /\ queue'["node"] = s /\ old \in Seq(Message)
  OBVIOUS
<1>3. /\ Len(old) \in Nat \ {0}
      /\ m = old[1]
      /\ Len(s) = Len(old) - 1
      /\ \A i \in 1 .. Len(s) : s[i] = old[i + 1]
  BY <1>2, HeadTailProperties, EmptySeq, LenProperties
<1>4. \A i, j \in 1 .. Len(old) : old[i].task = old[j].task => i = j
  BY DEF NoTwins
<1>5. Waiting("node")' = {s[i] : i \in 1 .. Len(s)}
  BY <1>2 DEF Waiting
<1>. HIDE DEF s, old
<1>6. ASSUME NEW i \in 1 .. Len(s)
      PROVE  i + 1 \in 1 .. Len(old) /\ s[i] = old[i + 1] /\ i + 1 # 1
  BY <1>3
<1>7. \A x \in Waiting("node")' : x.task # m.task
  <2>. SUFFICES ASSUME NEW i \in 1 .. Len(s), s[i].task = m.task PROVE FALSE
    BY <1>5
  <2>1. 1 \in 1 .. Len(old)
    BY <1>3
  <2>2. i + 1 = 1
    BY <1>3, <1>4, <1>6, <2>1
  <2>. QED BY <1>6, <2>2
<1>8. NoTwins'
  <2>1. ASSUME NEW i \in 1 .. Len(s), NEW j \in 1 .. Len(s), s[i].task = s[j].task
        PROVE  i = j
    <3>1. i + 1 \in 1 .. Len(old) /\ s[i] = old[i + 1]
      BY <1>6
    <3>2. j + 1 \in 1 .. Len(old) /\ s[j] = old[j + 1]
      BY <1>6
    <3>3. i + 1 = j + 1
      BY <1>4, <2>1, <3>1, <3>2
    <3>4. i \in Nat /\ j \in Nat
      BY <1>3
    <3>. QED BY <3>3, <3>4
  <2>. QED BY <1>2, <2>1 DEF NoTwins
<1>9. \A t : Posted(t)' <=> Posted(t) /\ t # m.task
  BY <1>1, <1>7 DEF Posted
<1>. QED BY <1>1, <1>8, <1>9, <1>11

LEMMA NodeStays ==
  ASSUME queue'["node"] = queue["node"]
  PROVE  /\ NoTwins <=> NoTwins'
         /\ Waiting("node")' = Waiting("node")
         /\ \A t : Posted(t)' <=> Posted(t)
BY DEF NoTwins, Waiting, Posted

LEMMA JavaSend ==
  ASSUME queue \in [Queues -> Seq(Message)],
         NEW m \in Message, m.queue = "java", Send(m)
  PROVE  /\ queue'["node"] = queue["node"]
         /\ Waiting("java")' = Waiting("java") \cup {m}
<1>. "node" \in Queues /\ "java" \in Queues /\ "java" # "node"
  BY DEF Queues
<1>1. queue'["node"] = queue["node"]
  BY DEF Send
<1>. QED BY <1>1, SendWaiting

---------------------------------------------------------------------------
(* What TakeTurns leaves of the engine. *)

\* A step of n leaves the callbacks and the locks of the other pods alone.
Apart(n) ==
  \A k \in Nodes \ {n} :
    /\ npc'[k] = npc[k] /\ nmsg'[k] = nmsg[k] /\ nsaga'[k] = nsaga[k]
    /\ ntodo'[k] = ntodo[k] /\ nrows'[k] = nrows[k] /\ txLocks'[k] = txLocks[k]

LEMMA StepApart ==
  ASSUME TypeOK, NEW n \in Nodes, WorkerStep(n), link' = link
  PROVE  Apart(n)
<1>1. WorkerTypeOK /\ txLocks \in [Nodes -> SUBSET Rows]
  BY DEF TypeOK, StoreTypeOK
<1>2. txLocks' = txLocks \/ \E rows : txLocks' = [txLocks EXCEPT ![n] = rows]
  BY DEF WorkerStep, WorkerDeliver, WorkerCheck, WorkerMarkRunning, WorkerExecute,
         WorkerExecuteFails, WorkerFatalCrash, WorkerComplete, WorkerReadDag,
         WorkerFailTask, WorkerFailWorkflow, WorkerPublish, WorkerCommit, WorkerAck,
         WorkerUnsupported, WorkerDeadlockVictim, RollbackAndThrow, LockRows,
         storeVars
<1>3. \A k \in Nodes \ {n} : txLocks'[k] = txLocks[k]
  BY <1>1, <1>2
<1>4. \A k \in Nodes \ {n} : WorkerSame(k)
  BY <1>1, WorkerAlone
<1>5. Alone(n)
  BY <1>1, CallbackAlone
<1>. QED BY <1>3, <1>4, <1>5 DEF Apart, Alone, WorkerSame

\* A message goes to the queue of the worker of its task.
LEMMA NodeMessage ==
  ASSUME TakeTurns, RowsTell, NEW m, Shaped(m), m.task \in Tasks
  PROVE  /\ m \in Message /\ m.queue = Dag[m.task].worker /\ m.queue \in Queues
         /\ Dag[m.input].chaos \in {"fail", "hang"} => MayFail(m.task)
         /\ ~Hidden(m.task) => m.input = m.task
<1>1. CASE m = TaskMessage(m.task) /\ ~Hidden(m.task)
  <2>1. m.input = m.task /\ m.queue = Dag[m.task].worker /\ m.queue \in Queues
    BY <1>1 DEF TakeTurns, TaskMessage
  <2>. QED BY <1>1, <2>1, TaskMessageType DEF MayFail
<1>2. ASSUME NEW o \in Tasks, Comp(o) # NoTask, HasRun(o), ~Hidden(o),
             m = WorkerCompensation(o)
      PROVE  /\ m \in Message /\ m.queue = Dag[m.task].worker /\ m.queue \in Queues
             /\ Hidden(m.task) /\ m.input = o /\ Dag[o].chaos = "none"
  <2>1. Comp(o) = m.task
    BY <1>2 DEF WorkerCompensation
  <2>. QED BY <1>2, <2>1 DEF TakeTurns, RowsTell, WorkerCompensation, Message
<1>. QED BY <1>1, <1>2 DEF Shaped

\* The steps of a pod: no one is a victim of the others.
NodeStep(n) ==
  \/ WorkerDeliver(n) \/ WorkerCheck(n) \/ WorkerMarkRunning(n)
  \/ WorkerExecute(n) \/ WorkerExecuteFails(n) \/ WorkerFatalCrash(n)
  \/ WorkerComplete(n) \/ WorkerReadDag(n)
  \/ WorkerFailTask(n) \/ WorkerFailWorkflow(n)
  \/ WorkerPublish(n) \/ WorkerCommit(n) \/ WorkerAck(n)

\* What a pod waits for is not locked by one that waits for it: of two pods that
\* want or hold the workflow row, only one is past it.
LEMMA NoVictim ==
  ASSUME NodeInv, WorkerTypeOK, NEW n \in Nodes
  PROVE  ~Victim(n)
<1>. SUFFICES ASSUME NEW k \in Nodes, k # n, WaitsFor(n, k), WaitsFor(k, n)
              PROVE  FALSE
  BY DEF Victim
<1>1. /\ npc[n] \in {"failwf", "publish"} /\ npc[k] \in {"failwf", "publish"}
      /\ txLocks[n] # {} /\ txLocks[k] # {}
  BY DEF WaitsFor, Wanted
<1>2. Transaction(n) /\ Transaction(k) /\ ~(npc[n] = "publish" /\ npc[k] = "publish")
  BY DEF NodeInv, OneTransaction
<1>3. ASSUME NEW p \in Nodes, NEW q \in Nodes, p # q, Transaction(p),
             npc[p] = "failwf", npc[q] = "publish", WaitsFor(q, p)
      PROVE  FALSE
  <2>1. txLocks[p] = {Mine(p)}
    BY <1>3 DEF Transaction
  <2>2. Listed(q, Mine(p))
    BY <1>3, <2>1 DEF WaitsFor, Wanted, Listed
  <2>3. Holds(p, Mine(p))
    BY <1>3 DEF Holds
  <2>4. Mine(p) \in Tasks
    BY <1>3, MessageTask DEF WorkerTypeOK, Mine
  <2>. QED BY <2>2, <2>3, <2>4 DEF NodeInv, OneMessage
<1>4. ASSUME npc[n] = "failwf", npc[k] = "failwf" PROVE FALSE
  <2>1. WfRow \in txLocks[k] /\ txLocks[k] = {Mine(k)}
    BY <1>2, <1>4 DEF WaitsFor, Wanted, Transaction
  <2>2. Mine(k) \in Tasks
    BY <1>4, MessageTask DEF WorkerTypeOK, Mine
  <2>. QED BY <2>1, <2>2, DagAssumption
<1>. QED BY <1>1, <1>2, <1>3, <1>4

\* A broker neither dies nor meets an error.
BrokersMove ==
  \/ \E c \in Consumers : BrokerStep(c) \/ BrokerRedeliver(c)
  \/ \E t \in Tasks : LockExpire(t)
  \/ RedisRestart

LEMMA NodeSteps ==
  ASSUME TakeTurns, IInv, NodeInv, Next
  PROVE  \/ /\ GateSubmit \/ GatePublish \/ GateReply \/ GateCrash
            /\ UNCHANGED <<brokerVars, workerVars>>
         \/ BrokersMove /\ UNCHANGED <<gateVars, workerVars>>
         \/ /\ \E n \in Nodes : NodeStep(n)
            /\ UNCHANGED <<gateVars, brokerVars, link>>
<1>1. /\ queue \in [Queues -> Seq(Message)] /\ WorkerTypeOK /\ TypeOK
  BY DEF IInv, TypeOK, StoreTypeOK
<1>2. CASE GateNext /\ UNCHANGED <<brokerVars, workerVars>>
  BY <1>2 DEF GateNext, GateStep, GatePublishFails, Fault, TakeTurns
<1>3. CASE BrokerNext /\ UNCHANGED <<gateVars, workerVars>>
  <2>1. \A c \in Consumers : BrokerFault(c) => BrokerRedeliver(c)
    BY DEF BrokerFault, BrokerError, BrokerPublishFails, BrokerCrash, Fault, TakeTurns
  <2>. QED BY <1>3, <2>1 DEF BrokerNext, BrokersMove
<1>4. CASE PodNext /\ UNCHANGED <<gateVars, brokerVars>>
  <2>1. PICK n \in Nodes :
          PodWorks(n) \/ PodFails(n) \/ PodGoesOn(n) \/ PodShutdown(n)
    BY <1>4 DEF PodNext
  <2>2. link[n] = "open"
    BY DEF NodeInv, PodsOpen
  <2>3. ~PodShutdown(n) /\ ~PodGoesOn(n)
    BY <2>2 DEF PodShutdown, PodSignal, PodEndPool, PodThrow, PodGone, PodBoot,
                PodGoesOn, Fault, TakeTurns
  <2>4. ~PodFails(n)
    BY DEF PodFails, WorkerFault, WorkerError, WorkerPublishFails, WorkerCrash,
           Fault, TakeTurns
  <2>5. WorkerStep(n) /\ link' = link
    BY <2>1, <2>3, <2>4 DEF PodWorks
  <2>6. ~WorkerUnsupported(n)
    <3>. SUFFICES ASSUME NEW m \in ntodo[n] PROVE m.queue # "other"
      BY DEF WorkerUnsupported
    <3>1. m.task \in Tasks /\ Shaped(m)
      BY <1>1, MessageTask DEF NodeInv, AllShaped, WorkerTypeOK
    <3>. QED BY <3>1, NodeMessage DEF NodeInv, Queues
  <2>7. ~WorkerDeadlockVictim(n)
    BY <1>1, NoVictim DEF WorkerDeadlockVictim
  <2>8. NodeStep(n)
    BY <2>5, <2>6, <2>7 DEF WorkerStep, NodeStep
  <2>. QED BY <1>4, <2>5, <2>8
<1>. QED BY <1>2, <1>3, <1>4 DEF Next

---------------------------------------------------------------------------
(* How a step of one pod moves the messages. *)

LEMMA ShapedMono ==
  ASSUME Mono, NEW m, Shaped(m)
  PROVE  Shaped(m)'
BY DEF Shaped, Mono

LEMMA ApartSame ==
  ASSUME NEW n \in Nodes, Apart(n), NEW k \in Nodes \ {n}
  PROVE  /\ \A t : Holds(k, t)' <=> Holds(k, t)
         /\ \A t : Listed(k, t)' <=> Listed(k, t)
         /\ Mine(k)' = Mine(k) /\ npc'[k] = npc[k] /\ nsaga'[k] = nsaga[k]
         /\ ntodo'[k] = ntodo[k] /\ nrows'[k] = nrows[k] /\ nmsg'[k] = nmsg[k]
         /\ Transaction(k) => Transaction(k)'
BY DEF Apart, Holds, Listed, Mine, Transaction

\* The shape of the messages when a step of n keeps the messages of n shaped.
LEMMA ShapesKept ==
  ASSUME Mono, AllShaped, NEW n \in Nodes, Apart(n), gtodo' = gtodo,
         \A m \in Waiting("node")' :
           m \in Waiting("node") \/ (Shaped(m) /\ m.queue = "node"),
         npc'[n] # "idle" => \/ npc[n] # "idle" /\ nmsg'[n] = nmsg[n]
                             \/ Shaped(nmsg'[n]) /\ nmsg'[n].queue = "node",
         \A m \in ntodo'[n] : m \in ntodo[n] \/ Shaped(m)
  PROVE  AllShaped'
<1>1. \A m \in Waiting("node")' : Shaped(m)' /\ m.queue = "node"
  BY ShapedMono DEF AllShaped
<1>2. \A m \in ntodo'[n] : Shaped(m)'
  BY ShapedMono DEF AllShaped
<1>3. ASSUME npc'[n] # "idle" PROVE Shaped(nmsg[n])' /\ nmsg'[n].queue = "node"
  <2>1. Shaped(nmsg'[n]) /\ nmsg'[n].queue = "node"
    BY <1>3 DEF AllShaped
  <2>2. \A m : Shaped(m) => Shaped(m)'
    BY ShapedMono
  <2>. QED BY <2>1, <2>2
<1>4. ASSUME NEW k \in Nodes \ {n}
      PROVE  /\ npc'[k] # "idle" => Shaped(nmsg[k])' /\ nmsg'[k].queue = "node"
             /\ \A m \in ntodo'[k] : Shaped(m)'
  <2>1. npc'[k] = npc[k] /\ nmsg'[k] = nmsg[k] /\ ntodo'[k] = ntodo[k]
    BY DEF Apart
  <2>. QED BY <2>1, ShapedMono DEF AllShaped
<1>. QED BY <1>1, <1>2, <1>3, <1>4 DEF AllShaped

\* A step on the task in hand leaves every message where it is.
InHand(n) ==
  /\ Apart(n)
  /\ npc[n] \notin {"idle", "publish"} /\ npc'[n] \notin {"idle", "publish"}
  /\ UNCHANGED <<queue, nmsg, ntodo, nrows, gateVars, brokerVars, link>>

LEMMA HandKeeps ==
  ASSUME NodeInv, Mono, NEW n \in Nodes, InHand(n)
  PROVE  /\ PodsOpen' /\ AllShaped' /\ NoTwins' /\ OneMessage'
         /\ \A t : AtGate(t)' <=> AtGate(t)
         /\ \A t : Posted(t)' <=> Posted(t)
         /\ \A t : InTx(t)' <=> InTx(t)
         /\ \A k \in Nodes : \A t : Holds(k, t)' <=> Holds(k, t)
         /\ \A k \in Nodes : \A t : Listed(k, t)' <=> Listed(k, t)
<1>1. gtodo' = gtodo /\ jpc' = jpc
  BY DEF InHand, gateVars, brokerVars
<1>2. \A k \in Nodes : \A t : Holds(k, t)' <=> Holds(k, t)
  BY DEF InHand, Apart, Holds, Mine
<1>3. \A k \in Nodes : \A t : Listed(k, t)' <=> Listed(k, t)
  BY DEF InHand, Listed
<1>4. \A t : AtGate(t)' <=> AtGate(t)
  BY <1>1 DEF AtGate
<1>5. /\ NoTwins' /\ Waiting("node")' = Waiting("node")
      /\ \A t : Posted(t)' <=> Posted(t)
  BY NodeStays DEF InHand, NodeInv
<1>6. \A t : InTx(t)' <=> InTx(t)
  BY DEF InHand, Apart, InTx
<1>7. PodsOpen'
  BY DEF NodeInv, PodsOpen, InHand
<1>8. OneMessage'
  BY <1>2, <1>3, <1>4, <1>5 DEF NodeInv, OneMessage
<1>9. AllShaped'
  BY <1>1, <1>5, ShapesKept DEF InHand, NodeInv
<1>. QED BY <1>2, <1>3, <1>4, <1>5, <1>6, <1>7, <1>8, <1>9

\* What it does to the row of that task, and to nothing else.
LEMMA HandNodeInv ==
  ASSUME TakeTurns, IInv, NodeInv, Mono, NEW n \in Nodes, InHand(n),
         npc[n] # "ack",
         \A t \in Tasks : t # Mine(n) => st'[t] = st[t] /\ runs'[t] = runs[t],
         runs'[Mine(n)] <= 1,
         HasRun(Mine(n))' =>
           /\ st'[Mine(n)] = "COMPLETED" \/ npc'[n] = "complete"
           /\ ~Hidden(Mine(n)) => Dag[Mine(n)].chaos = "none",
         InTx(Mine(n)) => st'[Mine(n)] = "PENDING",
         Transaction(n)', HandTells(n)'
  PROVE  NodeInv'
<1>. DEFINE u == Mine(n)
<1>1. /\ TypeOK /\ u \in Tasks /\ Holds(n, u) /\ Mine(n)' = u /\ npc[n] # "idle"
      /\ gpc' = gpc /\ gpc # "ready"
  <2>1. npc[n] # "idle" /\ nmsg' = nmsg /\ gpc' = gpc
    BY DEF InHand, gateVars
  <2>2. Good(nmsg[n])
    BY <2>1 DEF IInv, InvWorker, WorkerOK
  <2>. QED BY <2>1, <2>2, MineTask DEF IInv, Good, Holds, Mine
<1>2. /\ PodsOpen' /\ AllShaped' /\ NoTwins' /\ OneMessage'
      /\ \A t : AtGate(t)' <=> AtGate(t)
      /\ \A t : Posted(t)' <=> Posted(t)
      /\ \A t : InTx(t)' <=> InTx(t)
      /\ \A k \in Nodes : \A t : Holds(k, t)' <=> Holds(k, t)
      /\ \A k \in Nodes : \A t : Listed(k, t)' <=> Listed(k, t)
  BY HandKeeps
<1>3. /\ ~AtGate(u) /\ ~Posted(u)
      /\ \A k \in Nodes : ~Listed(k, u) /\ (Holds(k, u) => k = n)
  BY <1>1 DEF NodeInv, OneMessage
<1>4. \A k \in Nodes \ {n} :
        /\ npc'[k] = npc[k] /\ nsaga'[k] = nsaga[k] /\ Mine(k)' = Mine(k)
        /\ Transaction(k)'
  BY ApartSame DEF InHand, NodeInv, OneTransaction
<1>5. npc[n] # "publish" /\ npc'[n] # "publish"
  BY DEF InHand
<1>6. OneTransaction'
  BY <1>4, <1>5 DEF NodeInv, OneTransaction
<1>. HIDE DEF u
<1>7. /\ \A t \in Tasks : t # u => st'[t] = st[t] /\ runs'[t] = runs[t]
      /\ runs'[u] <= 1 /\ (InTx(u) => st'[u] = "PENDING")
      /\ HasRun(u)' =>
           /\ st'[u] = "COMPLETED" \/ npc'[n] = "complete"
           /\ ~Hidden(u) => Dag[u].chaos = "none"
      /\ u = Mine(n)
  BY DEF u
<1>8. RowsTell'
  <2>. SUFFICES ASSUME NEW t \in Tasks
       PROVE  /\ runs'[t] <= 1
              /\ HasRun(t)' => \/ st'[t] = "COMPLETED"
                               \/ \E k \in Nodes : npc'[k] = "complete" /\ Mine(k)' = t
                               \/ /\ st'[t] = "RUNNING"
                                  /\ \E c \in Consumers : jpc[c] = "complete" /\ Own(c) = t
              /\ HasRun(t)' /\ ~Hidden(t) => Dag[t].chaos = "none"
              /\ AtGate(t) => ~HasRun(t)' /\ st'[t] = "RUNNING"
              /\ Posted(t) => ~HasRun(t)' /\ (st'[t] = "RUNNING" \/ InTx(t))
              /\ \A k \in Nodes : Listed(k, t) => st'[t] = "PENDING"
              /\ InTx(t) => st'[t] = "PENDING" /\ \A k \in Nodes : ~Listed(k, t)
    <3>1. jpc' = jpc /\ \A c \in Consumers : Own(c)' = Own(c)
      BY DEF InHand, brokerVars, delivery, Own
    <3>. QED BY <1>1, <1>2, <3>1 DEF RowsTell
  <2>1. CASE t = u
    BY <1>1, <1>3, <1>7, <2>1
  <2>2. CASE t # u
    <3>1. HasRun(t)' <=> HasRun(t)
      BY <1>7, <2>2 DEF HasRun
    <3>2. ASSUME NEW k \in Nodes, npc[k] = "complete", Mine(k) = t
          PROVE  npc'[k] = "complete" /\ Mine(k)' = t
      BY <1>4, <1>7, <2>2, <3>2
    <3>3. st'[t] = st[t] /\ runs'[t] = runs[t]
      BY <1>7, <2>2
    <3>. QED BY <3>1, <3>2, <3>3 DEF NodeInv, RowsTell
  <2>. QED BY <2>1, <2>2
<1>9. HandsTell'
  <2>. SUFFICES ASSUME NEW k \in Nodes \ {n} PROVE HandTells(k)'
    BY DEF HandsTell
  <2>1. CASE npc[k] = "idle"
    BY <1>4, <2>1 DEF HandTells
  <2>2. CASE npc[k] # "idle"
    <3>1. Mine(k) # u /\ Mine(k) \in Tasks
      BY <1>1, <1>3, <2>2, MineTask DEF Holds
    <3>2. st'[Mine(k)] = st[Mine(k)] /\ (HasRun(Mine(k))' <=> HasRun(Mine(k)))
      <4>1. Mine(k)' = Mine(k) /\ st'[Mine(k)] = st[Mine(k)]
            /\ runs'[Mine(k)] = runs[Mine(k)]
        BY <1>4, <1>7, <3>1
      <4>. QED BY <4>1 DEF HasRun
    <3>3. InTx(Mine(k))' <=> InTx(Mine(k))
      <4>1. Mine(k)' = Mine(k)
        BY <1>4
      <4>2. ASSUME NEW t, t = Mine(k) PROVE InTx(t)' <=> InTx(t)
        BY <1>2
      <4>. QED BY <4>1, <4>2
    <3>. QED BY <1>4, <3>2, <3>3 DEF NodeInv, HandsTell, HandTells
  <2>. QED BY <2>1, <2>2
<1>10. HandledOnce'
  <2>1. ASSUME NEW t \in Tasks, Touched(t)' PROVE Touched(t)
    <3>1. CASE t = u
      BY <1>1, <3>1 DEF Touched
    <3>2. CASE t # u
      BY <1>2, <1>7, <2>1, <3>2 DEF Touched
    <3>. QED BY <3>1, <3>2
  <2>2. ASSUME NEW f \in Tasks, Handled(f) PROVE Handled(f)'
    <3>1. CASE f = u
      BY <1>1, <1>3, <1>5, <2>2, <3>1 DEF Handled
    <3>2. CASE f # u
      <4>1. st'[f] = st[f] /\ ~Holds(n, f)
        BY <1>7, <3>2 DEF Holds
      <4>. QED BY <1>2, <1>4, <2>2, <4>1 DEF Handled
    <3>. QED BY <3>1, <3>2
  <2>. QED BY <2>1, <2>2 DEF NodeInv, HandledOnce
<1>. QED BY <1>2, <1>6, <1>8, <1>9, <1>10 DEF NodeInv

\* The six steps of a callback on the task it holds.
LEMMA HandSteps ==
  ASSUME TakeTurns, IInv, NodeInv, Mono, NEW n \in Nodes, Apart(n),
         UNCHANGED <<gateVars, brokerVars, link>>,
         \/ WorkerCheck(n) \/ WorkerMarkRunning(n) \/ WorkerExecute(n)
         \/ WorkerExecuteFails(n) \/ WorkerComplete(n) \/ WorkerFailTask(n)
  PROVE  /\ NodeInv'
         /\ \A t \in Tasks : st[t] = "COMPLETED" => st'[t] # "RUNNING"
<1>. DEFINE u == Mine(n)
<1>1. /\ TypeOK /\ WorkerTypeOK /\ st \in [Tasks -> Status]
      /\ runs \in [Tasks -> 0 .. 2] /\ txLocks \in [Nodes -> SUBSET Rows]
      /\ WorkerOK(n)
  BY DEF IInv, TypeOK, StoreTypeOK, InvWorker
<1>2. /\ npc[n] \notin {"idle", "publish", "ack"} /\ npc'[n] \notin {"idle", "publish"}
      /\ UNCHANGED <<queue, nmsg, ntodo, nrows>> /\ npc'[n] # npc[n]
  BY <1>1 DEF WorkerCheck, WorkerMarkRunning, WorkerExecute, WorkerExecuteFails,
     WorkerComplete, WorkerFailTask, At, WorkerTypeOK, txData, storeVars
<1>3. InHand(n)
  BY <1>2 DEF InHand
<1>4. /\ u \in Tasks /\ Mine(n)' = u /\ Shaped(nmsg[n])
      /\ nmsg[n].task = u /\ Holds(n, u)
  BY <1>1, <1>2, MineTask DEF Mine, NodeInv, AllShaped, Holds
<1>5. /\ \A t : InTx(t)' <=> InTx(t)
      /\ Transaction(n) /\ HandTells(n)
  BY <1>3, HandKeeps DEF NodeInv, OneTransaction, HandsTell
<1>6. /\ runs[u] <= 1 /\ (InTx(u) => st[u] = "PENDING")
      /\ HasRun(u) /\ ~Hidden(u) => Dag[u].chaos = "none"
  BY <1>4 DEF NodeInv, RowsTell
<1>7. npc[n] \in {"check", "run", "exec", "fail"} => ~HasRun(u)
  BY <1>5 DEF HandTells
<1>8. /\ ntodo'[n] = {} /\ nrows'[n] = {} /\ ntodo[n] = {} /\ nrows[n] = {}
  BY <1>2, <1>5 DEF Transaction
<1>. HIDE DEF u
<1>9. Mine(n) = u /\ HasRun(Mine(n))' = (runs'[u] > 0)
  BY <1>4 DEF HasRun, u
<1>10. ASSUME runs' = runs, Transaction(n)', HandTells(n)',
              npc[n] \in {"check", "run", "exec", "fail"},
              \A t \in Tasks : t # u => st'[t] = st[t],
              InTx(u) => st'[u] = "PENDING", st[u] = "COMPLETED" => st'[u] = "COMPLETED"
       PROVE  NodeInv'
  <2>1. HasRun(u) <=> runs'[u] > 0
    BY <1>10 DEF HasRun
  <2>. QED BY <1>3, <1>2, <1>6, <1>7, <1>9, <1>10, <2>1, HandNodeInv
<1>11. CASE WorkerCheck(n)
  <2>1. /\ npc[n] = "check" /\ st' = st /\ runs' = runs /\ txLocks' = txLocks
        /\ nsaga' = nsaga /\ npc'[n] = IF Terminal(st[u]) THEN "ack" ELSE "run"
    BY <1>1, <1>9, <1>11 DEF WorkerCheck, WorkerTypeOK, At, txData, storeVars
  <2>2. /\ npc'[n] = "run" /\ ~nsaga[n] /\ ~HasRun(u)
        /\ st[u] = "RUNNING" \/ InTx(u)
    BY <1>5, <1>6, <1>9, <2>1 DEF HandTells, Transaction, Terminal
  <2>3. HandTells(n)'
    BY <1>4, <1>5, <1>9, <2>1, <2>2 DEF HandTells, HasRun
  <2>4. Transaction(n)'
    BY <1>5, <1>8, <2>1, <2>2 DEF Transaction
  <2>. QED BY <1>6, <1>10, <2>1, <2>3, <2>4
<1>12. CASE WorkerMarkRunning(n)
  <2>1. /\ npc[n] = "run" /\ st' = [st EXCEPT ![u] = "RUNNING"] /\ Unlocked(u)
        /\ runs' = runs /\ txLocks' = txLocks /\ nsaga' = nsaga /\ npc'[n] = "exec"
    BY <1>1, <1>9, <1>12 DEF WorkerMarkRunning, UpdateTask, WorkerTypeOK, At, txData
  <2>2. ~InTx(u)
    <3>1. ASSUME NEW k \in Nodes, npc[k] = "publish", u \in nrows[k]
          PROVE  u \in txLocks[k]
      BY <3>1 DEF NodeInv, OneTransaction, Transaction
    <3>. QED BY <2>1, <3>1 DEF InTx, Unlocked
  <2>3. ~nsaga[n] /\ ~HasRun(u) /\ st[u] = "RUNNING" /\ st' = st
    BY <1>1, <1>5, <1>9, <2>1, <2>2 DEF HandTells, Transaction
  <2>4. HandTells(n)'
    BY <1>4, <1>9, <2>1, <2>3 DEF HandTells, HasRun
  <2>5. Transaction(n)'
    BY <1>5, <1>8, <2>1, <2>3 DEF Transaction
  <2>. QED BY <1>6, <1>10, <2>1, <2>3, <2>4, <2>5
<1>13. CASE WorkerExecute(n)
  <2>1. /\ npc[n] = "exec" /\ st' = st /\ Ran(u) /\ txLocks' = txLocks
        /\ nsaga' = nsaga /\ npc'[n] = "complete"
        /\ Dag[nmsg[n].input].chaos = "none"
    BY <1>1, <1>9, <1>13 DEF WorkerExecute, WorkerTypeOK, At, txData
  <2>2. ~nsaga[n] /\ ~HasRun(u) /\ st[u] = "RUNNING"
    BY <1>5, <1>9, <2>1 DEF HandTells, Transaction
  <2>3. runs'[u] = 1 /\ \A t \in Tasks : t # u => runs'[t] = runs[t]
    <3>1. runs[u] = 0
      BY <1>1, <1>4, <1>9, <2>2 DEF HasRun
    <3>. QED BY <1>1, <1>4, <1>9, <2>1, <3>1 DEF Ran
  <2>4. ~Hidden(u) => Dag[u].chaos = "none"
    BY <1>4, <1>9, <2>1, NodeMessage DEF NodeInv
  <2>5. HandTells(n)'
    BY <1>9, <2>1, <2>2, <1>4 DEF HandTells
  <2>6. Transaction(n)'
    BY <1>5, <1>8, <2>1, <2>2 DEF Transaction
  <2>7. NodeInv'
    BY <1>2, <1>3, <1>6, <1>9, <2>1, <2>3, <2>4, <2>5, <2>6, HandNodeInv
  <2>. QED BY <2>1, <2>7
<1>14. CASE WorkerExecuteFails(n)
  <2>1. /\ npc[n] = "exec" /\ st' = st /\ runs' = runs /\ txLocks' = txLocks
        /\ nsaga'[n] = TRUE /\ npc'[n] = "fail"
        /\ Dag[nmsg[n].input].chaos \in {"fail", "hang"}
    BY <1>1, <1>14 DEF WorkerExecuteFails, WorkerTypeOK, At
  <2>2. ~HasRun(u) /\ st[u] = "RUNNING"
    BY <1>5, <1>9, <2>1 DEF HandTells
  <2>3. MayFail(u)
    BY <1>4, <2>1, NodeMessage DEF NodeInv
  <2>4. HandTells(n)'
    BY <1>4, <1>9, <2>1, <2>2 DEF HandTells, HasRun
  <2>5. Transaction(n)'
    BY <1>4, <1>5, <1>8, <1>9, <2>1, <2>3 DEF Transaction
  <2>. QED BY <1>6, <1>10, <2>1, <2>4, <2>5
<1>15. CASE WorkerComplete(n)
  <2>1. /\ npc[n] = "complete" /\ st' = [st EXCEPT ![u] = "COMPLETED"]
        /\ runs' = runs /\ txLocks' = txLocks /\ nsaga' = nsaga
        /\ npc'[n] = "readdag"
    BY <1>1, <1>9, <1>15 DEF WorkerComplete, UpdateTask, WorkerTypeOK, At, txData
  <2>2. ~nsaga[n] /\ st[u] = "RUNNING" /\ ~InTx(u) /\ HasRun(u)
    BY <1>1, <1>5, <1>6, <1>9, <2>1 DEF HandTells, Transaction, WorkerOK
  <2>3. HandTells(n)'
    BY <1>1, <1>4, <1>9, <2>1, <2>2 DEF HandTells
  <2>4. Transaction(n)'
    BY <1>5, <1>8, <2>1, <2>2 DEF Transaction
  <2>5. /\ st'[u] = "COMPLETED" /\ runs'[u] <= 1
        /\ \A t \in Tasks : t # u => st'[t] = st[t] /\ runs'[t] = runs[t]
        /\ ~Hidden(u) => Dag[u].chaos = "none"
    BY <1>1, <1>4, <1>6, <1>9, <2>1, <2>2
  <2>6. NodeInv'
    BY <1>2, <1>3, <1>9, <2>2, <2>3, <2>4, <2>5, HandNodeInv
  <2>. QED BY <2>5, <2>6
<1>16. CASE WorkerFailTask(n)
  <2>1. /\ npc[n] = "fail" /\ st' = st /\ runs' = runs /\ nsaga' = nsaga
        /\ npc'[n] = "failwf" /\ txLocks'[n] = txLocks[n] \cup {u}
    BY <1>1, <1>9, <1>16 DEF WorkerFailTask, LockRows, WorkerTypeOK, At, txData
  <2>2. ~HasRun(u) /\ st[u] = "RUNNING"
    BY <1>5, <1>9, <2>1 DEF HandTells
  <2>3. HandTells(n)'
    BY <1>4, <1>9, <2>1, <2>2 DEF HandTells, HasRun
  <2>4. txLocks'[n] = {Mine(n)'}
    BY <1>4, <1>5, <1>9, <2>1 DEF Transaction
  <2>5. Transaction(n)'
    BY <1>4, <1>5, <1>8, <1>9, <2>1, <2>4 DEF Transaction
  <2>. QED BY <1>6, <1>10, <2>1, <2>3, <2>5
<1>. QED BY <1>11, <1>12, <1>13, <1>14, <1>15, <1>16

\* What waits may exist; and the brokers, when they do not move.
LEMMA PostedTask ==
  ASSUME IInv
  PROVE  /\ \A q \in Queues : \A m \in Waiting(q) : Good(m) /\ m.task \in Tasks
         /\ \A t : Posted(t) => t \in Tasks /\ gpc # "ready"
<1>1. \A q \in Queues : \A m \in Waiting(q) : Good(m) /\ m.task \in Tasks
  BY MessageTask DEF IInv, InvQueues, Waiting, Good
<1>. QED BY <1>1 DEF Posted, Queues, Good

LEMMA BrokersStay ==
  ASSUME UNCHANGED brokerVars
  PROVE  jpc' = jpc /\ \A c \in Consumers : Own(c)' = Own(c)
BY DEF brokerVars, delivery, Own

\* The gateway: the rows come first, then the messages of the roots.
LEMMA GateKeepsPods ==
  ASSUME NodeInv, Mono, UNCHANGED <<brokerVars, workerVars, txLocks>>, NoTwins',
         \A m \in gtodo' : m = TaskMessage(m.task) /\ ~Hidden(m.task),
         \A m \in Waiting("node")' : Shaped(m) /\ m.queue = "node"
  PROVE  /\ PodsOpen' /\ AllShaped' /\ NoTwins' /\ OneTransaction'
         /\ \A n \in Nodes : \A t : /\ Holds(n, t)' <=> Holds(n, t)
                                    /\ Listed(n, t)' <=> Listed(n, t)
         /\ \A t : InTx(t)' <=> InTx(t)
         /\ UNCHANGED <<npc, nsaga>> /\ \A n \in Nodes : Mine(n)' = Mine(n)
<1>1. /\ jpc' = jpc
      /\ UNCHANGED <<npc, nmsg, nsaga, ntodo, nrows, txLocks, link>>
  BY DEF brokerVars, workerVars, callbackVars, txData
<1>2. /\ \A n \in Nodes : \A t : /\ Holds(n, t)' <=> Holds(n, t)
                                 /\ Listed(n, t)' <=> Listed(n, t)
      /\ \A t : InTx(t)' <=> InTx(t)
      /\ \A n \in Nodes : Mine(n)' = Mine(n)
  BY <1>1 DEF Holds, Listed, InTx, Mine
<1>3. PodsOpen'
  BY <1>1 DEF NodeInv, PodsOpen
<1>4. \A m : Shaped(m) => Shaped(m)'
  BY ShapedMono
<1>5. /\ \A n \in Nodes :
           npc'[n] # "idle" => Shaped(nmsg'[n]) /\ nmsg'[n].queue = "node"
      /\ \A n \in Nodes : \A m \in ntodo'[n] : Shaped(m)
  BY <1>1 DEF NodeInv, AllShaped
<1>6. \A n \in Nodes : npc'[n] # "idle" => Shaped(nmsg[n])'
  BY <1>4, <1>5
<1>7. AllShaped'
  BY <1>4, <1>5, <1>6 DEF AllShaped
<1>8. OneTransaction'
  BY <1>1 DEF NodeInv, OneTransaction, Transaction, Mine
<1>. QED BY <1>1, <1>2, <1>3, <1>7, <1>8

LEMMA GateNode ==
  ASSUME TakeTurns, IInv, NodeInv, Mono,
         GateSubmit \/ GatePublish \/ GateReply \/ GateCrash,
         UNCHANGED <<brokerVars, workerVars>>
  PROVE  /\ NodeInv'
         /\ \A t \in Tasks : st[t] = "COMPLETED" => st'[t] # "RUNNING"
<1>1. /\ TypeOK /\ WorkerTypeOK /\ st \in [Tasks -> Status]
      /\ queue \in [Queues -> Seq(Message)] /\ gtodo \subseteq Message
  BY DEF IInv, TypeOK, StoreTypeOK, GateTypeOK
<1>2. /\ NoTwins
      /\ \A m \in Waiting("node") : Shaped(m) /\ m.queue = "node"
      /\ \A m \in gtodo : m = TaskMessage(m.task) /\ ~Hidden(m.task)
  BY DEF NodeInv, PodsOpen, AllShaped
<1>. DEFINE Kept == /\ PodsOpen' /\ AllShaped' /\ NoTwins' /\ OneTransaction'
                    /\ \A n \in Nodes : \A t : /\ Holds(n, t)' <=> Holds(n, t)
                                               /\ Listed(n, t)' <=> Listed(n, t)
                    /\ \A t : InTx(t)' <=> InTx(t)
                    /\ UNCHANGED <<npc, nsaga>> /\ \A n \in Nodes : Mine(n)' = Mine(n)
<1>. HIDE DEF Kept
<1>3. CASE GateSubmit
  <2>1. /\ gpc = "ready" /\ UNCHANGED <<queue, runs, txLocks>> /\ gpc' # "ready"
        /\ gtodo' = {TaskMessage(t) : t \in Roots}
        /\ \A t \in Tasks : st'[t] = IF t \in Roots THEN "RUNNING" ELSE "PENDING"
        /\ \A t \in Tasks : st[t] = "NONE" /\ ~HasRun(t)
    <3>1. \A n \in Nodes : npc[n] = "idle"
      BY <1>3 DEF GateSubmit, IInv, InvWorker, WorkerOK, Good
    <3>. QED BY <1>3, <3>1 DEF GateSubmit, NodeInv, RowsTell
  <2>2. /\ \A n \in Nodes : \A t : ~Holds(n, t) /\ ~Listed(n, t)
        /\ \A t : ~InTx(t) /\ ~Posted(t)
    <3>1. \A n \in Nodes : npc[n] = "idle" /\ ntodo[n] = {}
      BY <2>1 DEF IInv, InvWorker, WorkerOK, Good
    <3>2. \A t : ~Posted(t)
      BY <2>1, PostedTask
    <3>. QED BY <3>1, <3>2 DEF Holds, Listed, InTx
  <2>3. \A t \in Roots : ~Hidden(t) /\ t \in Tasks
    BY DEF Roots, Hidden
  <2>4. \A m \in gtodo' : m = TaskMessage(m.task) /\ m.task \in Roots
    BY <2>1, TaskMessageType DEF TaskMessage
  <2>5. /\ NoTwins' /\ Waiting("node")' = Waiting("node")
        /\ \A t : Posted(t)' <=> Posted(t)
    BY <1>2, <2>1, NodeStays
  <2>6. \A m \in gtodo' : m = TaskMessage(m.task) /\ ~Hidden(m.task)
    BY <2>3, <2>4
  <2>7. Kept
    BY <1>2, <2>1, <2>5, <2>6, GateKeepsPods DEF Kept
  <2>8. \A t : AtGate(t)' => t \in Roots
    BY <2>4 DEF AtGate
  <2>9. OneMessage'
    BY <2>2, <2>5, <2>7 DEF Kept, OneMessage
  <2>10. \A t \in Tasks : runs'[t] <= 1 /\ ~HasRun(t)'
    BY <2>1 DEF NodeInv, RowsTell, HasRun
  <2>11. RowsTell'
    BY <2>1, <2>2, <2>3, <2>5, <2>7, <2>8, <2>10 DEF Kept, RowsTell
  <2>12. HandsTell'
    BY <2>1, <2>2, <2>7, MineTask DEF Kept, HandsTell, HandTells, Holds
  <2>13. HandledOnce'
    BY <2>1, <2>2, <2>3, <2>5, <2>7 DEF Kept, HandledOnce, Touched, Hidden, Roots
  <2>. QED BY <2>1, <2>7, <2>9, <2>11, <2>12, <2>13 DEF Kept, NodeInv
<1>4. ASSUME UNCHANGED <<st, runs, txLocks>>, gpc # "ready", gpc' # "ready",
             NoTwins',
             \A m \in Waiting("node")' : Shaped(m) /\ m.queue = "node",
             gtodo' \subseteq gtodo,
             \A t : Posted(t)' => ~AtGate(t)' /\ (Posted(t) \/ AtGate(t))
      PROVE  NodeInv' /\ UNCHANGED st
  <2>1. \A m \in gtodo' : m = TaskMessage(m.task) /\ ~Hidden(m.task)
    BY <1>2, <1>4
  <2>2. Kept
    BY <1>4, <2>1, GateKeepsPods DEF Kept
  <2>3. \A t : AtGate(t)' => AtGate(t) /\ ~Hidden(t)
    BY <1>4, <2>1 DEF AtGate
  <2>4. \A t : AtGate(t) => ~Hidden(t)
    BY <1>2 DEF AtGate
  <2>5. \A t : HasRun(t)' <=> HasRun(t)
    BY <1>4 DEF HasRun
  <2>6. OneMessage'
    BY <1>4, <2>2, <2>3 DEF Kept, NodeInv, OneMessage
  <2>7. RowsTell'
    BY <1>4, <2>2, <2>3, <2>5, BrokersStay DEF Kept, NodeInv, RowsTell
  <2>8. HandsTell'
    <3>1. ASSUME NEW n \in Nodes
          PROVE  /\ npc'[n] = npc[n] /\ nsaga'[n] = nsaga[n] /\ Mine(n)' = Mine(n)
                 /\ HasRun(Mine(n))' <=> HasRun(Mine(n))
                 /\ InTx(Mine(n))' <=> InTx(Mine(n))
                 /\ st'[Mine(n)'] = st[Mine(n)]
      <4>1. npc'[n] = npc[n] /\ nsaga'[n] = nsaga[n] /\ Mine(n)' = Mine(n)
        BY <2>2 DEF Kept
      <4>2. ASSUME NEW t, t = Mine(n) PROVE HasRun(t)' <=> HasRun(t)
        BY <2>5
      <4>3. ASSUME NEW t, t = Mine(n) PROVE InTx(t)' <=> InTx(t)
        BY <2>2 DEF Kept
      <4>. QED BY <1>4, <4>1, <4>2, <4>3
    <3>. QED BY <3>1 DEF NodeInv, HandsTell, HandTells
  <2>9. HandledOnce'
    <3>1. ASSUME NEW t \in Tasks, Touched(t)', Hidden(t) PROVE Touched(t)
      BY <1>4, <2>2, <2>4, <3>1 DEF Kept, Touched
    <3>2. ASSUME NEW f \in Tasks, Handled(f) PROVE Handled(f)'
      BY <1>4, <2>2, <3>2 DEF Kept, Handled
    <3>. QED BY <3>1, <3>2 DEF NodeInv, HandledOnce
  <2>. QED BY <1>4, <2>2, <2>6, <2>7, <2>8, <2>9 DEF Kept, NodeInv
<1>5. CASE GatePublish
  <2>1. PICK m \in gtodo : Send(m) /\ gtodo' = gtodo \ {m}
    BY <1>5 DEF GatePublish
  <2>2. /\ m \in Message /\ m.task \in Tasks /\ m = TaskMessage(m.task)
        /\ ~Hidden(m.task) /\ Shaped(m) /\ AtGate(m.task)
    BY <1>1, <1>2, <2>1, MessageTask DEF Shaped, AtGate
  <2>3. m.queue \in Queues /\ ~Posted(m.task)
    BY <2>2, NodeMessage DEF NodeInv, OneMessage
  <2>4. /\ NoTwins'
        /\ Waiting("node")' =
             IF m.queue = "node" THEN Waiting("node") \cup {m} ELSE Waiting("node")
        /\ \A t : Posted(t)' <=> Posted(t) \/ (t = m.task /\ m.queue = "node")
    <3>1. CASE m.queue = "node"
      BY <1>1, <1>2, <2>1, <2>2, <2>3, <3>1, NodeSend
    <3>2. CASE m.queue = "java"
      <4>1. queue'["node"] = queue["node"]
        BY <1>1, <2>1, <2>2, <3>2, JavaSend
      <4>. QED BY <1>2, <3>2, <4>1, NodeStays
    <3>. QED BY <2>3, <3>1, <3>2 DEF Queues
  <2>5. ASSUME NEW t, Posted(t)' PROVE ~AtGate(t)'
    <3>1. ASSUME NEW x \in gtodo', x.task = t PROVE FALSE
      <4>1. x \in gtodo /\ x # m /\ x = TaskMessage(x.task)
        BY <1>2, <2>1, <3>1
      <4>2. t # m.task
        BY <2>2, <3>1, <4>1
      <4>3. Posted(t) /\ AtGate(t) /\ t \in Tasks
        BY <1>1, <2>4, <2>5, <3>1, <4>1, <4>2, MessageTask DEF AtGate
      <4>. QED BY <4>3 DEF NodeInv, OneMessage
    <3>. QED BY <3>1 DEF AtGate
  <2>6. /\ UNCHANGED <<st, runs, txLocks, gpc>> /\ gpc # "ready"
        /\ gtodo' \subseteq gtodo
    BY <1>5, <2>1 DEF GatePublish
  <2>7. \A x \in Waiting("node")' : Shaped(x) /\ x.queue = "node"
    BY <1>2, <2>2, <2>4
  <2>8. \A t : Posted(t)' => ~AtGate(t)' /\ (Posted(t) \/ AtGate(t))
    BY <2>2, <2>4, <2>5
  <2>9. NodeInv' /\ UNCHANGED st
    BY <1>4, <2>4, <2>6, <2>7, <2>8
  <2>. QED BY <2>9
<1>6. CASE GateReply \/ GateCrash
  <2>1. /\ UNCHANGED <<st, runs, txLocks, queue>> /\ gpc # "ready" /\ gpc' # "ready"
        /\ gtodo' \subseteq gtodo
    BY <1>6 DEF GateReply, GateCrash, storeVars
  <2>2. /\ NoTwins' /\ Waiting("node")' = Waiting("node")
        /\ \A t : Posted(t)' <=> Posted(t)
    BY <1>2, <2>1, NodeStays
  <2>4. \A t : Posted(t) => ~AtGate(t)
    BY PostedTask DEF NodeInv, OneMessage
  <2>5. \A t : Posted(t)' => ~AtGate(t)' /\ (Posted(t) \/ AtGate(t))
    BY <2>1, <2>2, <2>4 DEF AtGate
  <2>6. NodeInv' /\ UNCHANGED st
    BY <1>2, <1>4, <2>1, <2>2, <2>5
  <2>. QED BY <2>6
<1>. QED BY <1>3, <1>5, <1>6

---------------------------------------------------------------------------
(* The steps of a pod that take a message, or let go of one. *)

\* What the other pods have in hand, when their rows stay.
LEMMA OthersTell ==
  ASSUME TypeOK, HandsTell, NEW n \in Nodes, Apart(n), NEW k \in Nodes \ {n},
         \A t \in Tasks : Holds(k, t) =>
           /\ runs'[t] = runs[t]
           /\ st[t] # "PENDING" => st'[t] = st[t]
           /\ InTx(t) => InTx(t)' \/ st'[t] = "RUNNING"
  PROVE  HandTells(k)'
<1>1. npc'[k] = npc[k] /\ nsaga'[k] = nsaga[k] /\ Mine(k)' = Mine(k)
  BY ApartSame
<1>2. CASE npc[k] = "idle"
  BY <1>1, <1>2 DEF HandTells
<1>3. CASE npc[k] # "idle"
  <2>1. ASSUME NEW t \in Tasks, t = Mine(k) PROVE HandTells(k)'
    <3>1. /\ runs'[t] = runs[t] /\ (st[t] # "PENDING" => st'[t] = st[t])
          /\ InTx(t) => InTx(t)' \/ st'[t] = "RUNNING"
      BY <1>3, <2>1 DEF Holds
    <3>2. (HasRun(t)' <=> HasRun(t)) /\ Mine(k)' = t
      BY <1>1, <2>1, <3>1 DEF HasRun
    <3>3. /\ npc[k] \in {"check", "run"} =>
               ~HasRun(t) /\ (st[t] = "RUNNING" \/ InTx(t))
          /\ npc[k] \in {"exec", "fail", "failwf"} \/ (npc[k] = "publish" /\ nsaga[k])
               => ~HasRun(t) /\ st[t] = "RUNNING"
          /\ npc[k] = "complete" => st[t] = "RUNNING"
          /\ npc[k] = "readdag" \/ (npc[k] \in {"publish", "ack"} /\ ~nsaga[k]) =>
               st[t] = "COMPLETED"
          /\ npc[k] = "ack" /\ nsaga[k] => st[t] = "FAILED"
      BY <2>1 DEF HandsTell, HandTells
    <3>4. InTx(Mine(k))' <=> InTx(t)'
      BY <3>2
    <3>5. HasRun(Mine(k))' <=> HasRun(t)'
      BY <3>2
    <3>. QED BY <1>1, <3>1, <3>2, <3>3, <3>4, <3>5 DEF HandTells
  <2>. QED BY <1>3, <2>1, MineTask
<1>. QED BY <1>2, <1>3

LEMMA DeliverNode ==
  ASSUME TakeTurns, IInv, NodeInv, Mono, NEW n \in Nodes, Apart(n),
         UNCHANGED <<gateVars, brokerVars, link>>, WorkerDeliver(n)
  PROVE  NodeInv' /\ UNCHANGED st
<1>. DEFINE m == Head(queue["node"])
<1>1. /\ TypeOK /\ WorkerTypeOK /\ queue \in [Queues -> Seq(Message)]
      /\ "node" \in Queues /\ WorkerOK(n)
  BY DEF IInv, TypeOK, StoreTypeOK, InvWorker, Queues
<1>2. /\ npc[n] = "idle" /\ queue["node"] # <<>>
      /\ nmsg'[n] = m /\ npc'[n] = "check"
      /\ queue' = [queue EXCEPT !["node"] = Tail(@)]
      /\ UNCHANGED <<st, txLocks, runs, nsaga, ntodo, nrows, gtodo, gpc, jpc, link>>
  BY <1>1 DEF WorkerDeliver, At, WorkerTypeOK, txData, gateVars, brokerVars
<1>3. /\ NoTwins
      /\ \A x \in Waiting("node") : Shaped(x) /\ x.queue = "node"
  BY DEF NodeInv, AllShaped
<1>4. /\ NoTwins'
      /\ Waiting("node")' \subseteq Waiting("node") /\ m \in Waiting("node")
      /\ \A t : Posted(t)' <=> Posted(t) /\ t # m.task
  BY <1>1, <1>2, <1>3, NodeTake
<1>5. m.task \in Tasks /\ Posted(m.task) /\ gpc # "ready"
  <2>1. Posted(m.task)
    BY <1>4 DEF Posted
  <2>. QED BY <2>1, PostedTask
<1>. HIDE DEF m
<1>. DEFINE u == m.task
<1>6. u \in Tasks /\ Posted(u) /\ Mine(n)' = u
  BY <1>2, <1>5 DEF Mine
<1>7. /\ \A t : Posted(t)' <=> Posted(t) /\ t # u
  BY <1>4
<1>. HIDE DEF u
<1>8. /\ \A t : Holds(n, t)' <=> t = u
      /\ \A t : ~Holds(n, t)
      /\ \A k \in Nodes \ {n} : \A t : Holds(k, t)' <=> Holds(k, t)
      /\ \A k \in Nodes : \A t : Listed(k, t)' <=> Listed(k, t)
      /\ \A t : InTx(t)' <=> InTx(t)
      /\ \A t : AtGate(t)' <=> AtGate(t)
      /\ \A t : HasRun(t)' <=> HasRun(t)
  BY <1>2, <1>6, ApartSame DEF Holds, Listed, InTx, AtGate, HasRun, Apart
<1>9. /\ \A k \in Nodes : ~Holds(k, u) /\ ~Listed(k, u)
      /\ ~AtGate(u) /\ ~HasRun(u) /\ (st[u] = "RUNNING" \/ InTx(u))
  BY <1>6 DEF NodeInv, OneMessage, RowsTell
<1>10. PodsOpen'
  BY <1>2, <1>4 DEF NodeInv, PodsOpen
<1>11. AllShaped'
  BY <1>2, <1>3, <1>4, ShapesKept DEF NodeInv
<1>12. OneMessage'
  BY <1>7, <1>8, <1>9 DEF NodeInv, OneMessage
<1>13. OneTransaction'
  <2>1. ~nsaga'[n] /\ ntodo'[n] = {} /\ nrows'[n] = {} /\ txLocks'[n] = {}
    <3>1. Transaction(n)
      BY DEF NodeInv, OneTransaction
    <3>. QED BY <1>1, <1>2, <3>1 DEF Transaction, WorkerOK
  <2>2. Transaction(n)'
    BY <1>2, <2>1 DEF Transaction
  <2>3. \A k \in Nodes \ {n} : Transaction(k)' /\ npc'[k] = npc[k]
    BY ApartSame DEF NodeInv, OneTransaction
  <2>. QED BY <1>2, <2>2, <2>3 DEF NodeInv, OneTransaction
<1>14. RowsTell'
  <2>1. ASSUME NEW k \in Nodes, npc[k] = "complete"
        PROVE  npc'[k] = "complete" /\ Mine(k)' = Mine(k)
    BY <1>2, <2>1, ApartSame
  <2>. QED BY <1>2, <1>7, <1>8, <2>1, BrokersStay DEF NodeInv, RowsTell
<1>15. HandsTell'
  <2>1. \A k \in Nodes \ {n} : HandTells(k)'
    BY <1>1, <1>2, <1>8, OthersTell DEF NodeInv
  <2>2. HandTells(n)'
    <3>1. ASSUME NEW t, t = u PROVE HandTells(n)'
      <4>1. Mine(n)' = t /\ (InTx(t)' <=> InTx(t)) /\ (HasRun(t)' <=> HasRun(t))
        BY <1>6, <1>8, <3>1
      <4>2. (InTx(Mine(n))' <=> InTx(t)') /\ (HasRun(Mine(n))' <=> HasRun(t)')
        BY <4>1
      <4>3. ~HasRun(t) /\ (st[t] = "RUNNING" \/ InTx(t))
        BY <1>9, <3>1
      <4>. QED BY <1>2, <4>1, <4>2, <4>3 DEF HandTells
    <3>. QED BY <3>1
  <2>. QED BY <2>1, <2>2 DEF HandsTell
<1>16. HandledOnce'
  <2>1. ASSUME NEW t \in Tasks, Touched(t)' PROVE Touched(t)
    BY <1>2, <1>6, <1>7, <1>8, <2>1 DEF Touched
  <2>2. ASSUME NEW f \in Tasks, Handled(f) PROVE Handled(f)'
    <3>1. CASE st[f] = "FAILED" /\ \A k \in Nodes : ~Holds(k, f)
      <4>1. f # u
        BY <1>6, <1>9, <3>1 DEF NodeInv, RowsTell
      <4>. QED BY <1>2, <1>8, <3>1, <4>1 DEF Handled
    <3>2. ASSUME NEW k \in Nodes, Holds(k, f), nsaga[k], npc[k] \in {"publish", "ack"}
          PROVE  Handled(f)'
      <4>1. k # n
        BY <1>2, <3>2
      <4>2. Holds(k, f)' /\ nsaga'[k] /\ npc'[k] = npc[k]
        BY <1>8, <3>2, <4>1, ApartSame
      <4>. QED BY <3>2, <4>2 DEF Handled
    <3>. QED BY <2>2, <3>1, <3>2 DEF Handled
  <2>. QED BY <2>1, <2>2 DEF NodeInv, HandledOnce
<1>. QED BY <1>2, <1>4, <1>10, <1>11, <1>12, <1>13, <1>14, <1>15, <1>16 DEF NodeInv

\* The pod has no message any more: acknowledged, or back in the queue.
LEMMA ResetNode ==
  ASSUME TakeTurns, IInv, NodeInv, Mono, NEW n \in Nodes, Apart(n),
         UNCHANGED <<gateVars, brokerVars, link>>, ResetWorker(n),
         npc[n] \in {"exec", "ack"}, UNCHANGED <<st, runs, txLocks>>,
         NEW u \in Tasks, u = Mine(n),
         NoTwins',
         \A m \in Waiting("node")' :
           m \in Waiting("node") \/ (Shaped(m) /\ m.queue = "node"),
         \A t : Posted(t)' => Posted(t) \/ (t = u /\ npc[n] = "exec")
  PROVE  NodeInv'
<1>1. /\ TypeOK /\ WorkerTypeOK /\ Holds(n, u)
      /\ npc'[n] = "idle" /\ ntodo'[n] = {} /\ nrows'[n] = {} /\ nsaga'[n] = FALSE
      /\ jpc' = jpc /\ gtodo' = gtodo /\ gpc' = gpc /\ link' = link
  BY DEF IInv, TypeOK, ResetWorker, WorkerTypeOK, brokerVars, gateVars, Holds
<1>2. /\ \A k \in Nodes : ~Listed(k, u) /\ (Holds(k, u) => k = n)
      /\ ~AtGate(u)
  BY <1>1 DEF NodeInv, OneMessage
<1>3. /\ Transaction(n) /\ HandTells(n)
  BY DEF NodeInv, OneTransaction, HandsTell
<1>4. ntodo[n] = {} /\ txLocks'[n] = {} /\ (npc[n] = "exec" => ~nsaga[n])
  BY <1>3 DEF Transaction
<1>5. /\ \A t : ~Holds(n, t)'
      /\ \A k \in Nodes \ {n} : \A t : Holds(k, t)' <=> Holds(k, t)
      /\ \A k \in Nodes : \A t : Listed(k, t)' <=> Listed(k, t)
  BY <1>1, <1>4, ApartSame DEF Holds, Listed
<1>6. \A t : InTx(t)' <=> InTx(t)
  BY <1>1 DEF InTx, Apart
<1>7. /\ \A t : AtGate(t)' <=> AtGate(t)
      /\ \A t : HasRun(t)' <=> HasRun(t)
  BY <1>1 DEF AtGate, HasRun
<1>8. PodsOpen'
  BY <1>1 DEF NodeInv, PodsOpen
<1>9. AllShaped'
  BY <1>1, ShapesKept DEF NodeInv
<1>10. OneMessage'
  BY <1>2, <1>5, <1>7 DEF NodeInv, OneMessage
<1>11. OneTransaction'
  <2>1. Transaction(n)'
    BY <1>1, <1>4 DEF Transaction
  <2>2. \A k \in Nodes \ {n} : Transaction(k)' /\ npc'[k] = npc[k]
    BY ApartSame DEF NodeInv, OneTransaction
  <2>. QED BY <1>1, <2>1, <2>2 DEF NodeInv, OneTransaction
<1>12. RowsTell'
  <2>1. ASSUME NEW k \in Nodes, npc[k] = "complete"
        PROVE  npc'[k] = "complete" /\ Mine(k)' = Mine(k)
    <3>1. k # n
      BY <2>1
    <3>. QED BY <2>1, <3>1, ApartSame
  <2>2. npc[n] = "exec" => ~HasRun(u) /\ st[u] = "RUNNING"
    BY <1>3 DEF HandTells
  <2>. QED
    BY <1>1, <1>2, <1>5, <1>6, <1>7, <2>1, <2>2, BrokersStay DEF NodeInv, RowsTell
<1>13. HandsTell'
  <2>1. \A k \in Nodes \ {n} : HandTells(k)'
    BY <1>1, <1>6, OthersTell DEF NodeInv
  <2>2. HandTells(n)'
    BY <1>1 DEF HandTells
  <2>. QED BY <2>1, <2>2 DEF HandsTell
<1>14. HandledOnce'
  <2>1. ASSUME NEW t \in Tasks, Touched(t)' PROVE Touched(t)
    BY <1>1, <1>5, <1>6, <2>1 DEF Touched
  <2>2. ASSUME NEW f \in Tasks, Handled(f) PROVE Handled(f)'
    <3>1. CASE st[f] = "FAILED" /\ \A k \in Nodes : ~Holds(k, f)
      BY <1>5, <3>1 DEF Handled
    <3>2. ASSUME NEW k \in Nodes, Holds(k, f), nsaga[k], npc[k] \in {"publish", "ack"}
          PROVE  Handled(f)'
      <4>1. CASE k = n
        <5>1. f = u /\ st[f] = "FAILED"
          BY <1>3, <3>2, <4>1 DEF Holds, HandTells
        <5>. QED BY <1>2, <1>5, <5>1 DEF Handled
      <4>2. CASE k # n
        <5>1. Holds(k, f)' /\ nsaga'[k] /\ npc'[k] = npc[k]
          BY <1>5, <3>2, <4>2, ApartSame
        <5>. QED BY <3>2, <5>1 DEF Handled
      <4>. QED BY <4>1, <4>2
    <3>. QED BY <2>2, <3>1, <3>2 DEF Handled
  <2>. QED BY <2>1, <2>2 DEF NodeInv, HandledOnce
<1>. QED BY <1>8, <1>9, <1>10, <1>11, <1>12, <1>13, <1>14 DEF NodeInv

LEMMA LetGoNode ==
  ASSUME TakeTurns, IInv, NodeInv, Mono, NEW n \in Nodes, Apart(n),
         UNCHANGED <<gateVars, brokerVars, link>>,
         WorkerFatalCrash(n) \/ WorkerAck(n)
  PROVE  NodeInv' /\ UNCHANGED st
<1>. DEFINE u == Mine(n)
<1>1. /\ TypeOK /\ queue \in [Queues -> Seq(Message)]
  BY DEF IInv, TypeOK, StoreTypeOK
<1>2. /\ npc[n] \in {"exec", "ack"} /\ ResetWorker(n)
      /\ UNCHANGED <<st, runs, txLocks>>
  BY DEF WorkerFatalCrash, WorkerAck, storeVars
<1>3. /\ u \in Tasks /\ Shaped(nmsg[n]) /\ nmsg[n].task = u /\ Holds(n, u)
  BY <1>1, <1>2, MineTask DEF Mine, NodeInv, AllShaped, Holds
<1>4. nmsg[n] \in Message /\ nmsg[n].queue = "node" /\ ~Posted(u)
  BY <1>2, <1>3, NodeMessage DEF NodeInv, OneMessage, AllShaped
<1>5. NoTwins
  BY DEF NodeInv
<1>6. CASE WorkerFatalCrash(n)
  <2>1. npc[n] = "exec" /\ Requeue(nmsg[n])
    BY <1>6 DEF WorkerFatalCrash
  <2>2. ~Posted(nmsg[n].task)
    BY <1>3, <1>4
  <2>3. /\ NoTwins'
        /\ Waiting("node")' = Waiting("node") \cup {nmsg[n]}
        /\ \A t : Posted(t)' <=> Posted(t) \/ t = nmsg[n].task
    BY <1>1, <1>4, <1>5, <2>1, <2>2, NodeRequeue
  <2>4. /\ \A m \in Waiting("node")' :
             m \in Waiting("node") \/ (Shaped(m) /\ m.queue = "node")
        /\ \A t : Posted(t)' => Posted(t) \/ (t = Mine(n) /\ npc[n] = "exec")
    BY <1>3, <1>4, <2>1, <2>3
  <2>. QED BY <1>2, <1>3, <2>3, <2>4, ResetNode
<1>7. CASE WorkerAck(n)
  <2>1. queue' = queue
    BY <1>7 DEF WorkerAck, storeVars
  <2>2. /\ NoTwins' /\ Waiting("node")' = Waiting("node")
        /\ \A t : Posted(t)' <=> Posted(t)
    BY <1>5, <2>1, NodeStays
  <2>. QED BY <1>2, <1>3, <2>2, ResetNode
<1>. QED BY <1>6, <1>7

---------------------------------------------------------------------------
(* The steps of a pod's transaction. *)

\* Who has locked the workflow row is the only one to publish.
LEMMA FirstToPublish ==
  ASSUME NodeInv, NEW n \in Nodes, npc[n] # "publish", LockRows(n, {WfRow})
  PROVE  /\ \A k \in Nodes : npc[k] # "publish" /\ ntodo[k] = {}
         /\ \A k \in Nodes : \A t : ~Listed(k, t)
         /\ \A t : ~InTx(t)
<1>1. \A k \in Nodes : Transaction(k)
  BY DEF NodeInv, OneTransaction
<1>2. ASSUME NEW k \in Nodes, npc[k] = "publish" PROVE FALSE
  <2>1. k # n /\ WfRow \in txLocks[k]
    BY <1>1, <1>2 DEF Transaction
  <2>. QED BY <2>1 DEF LockRows, LockedByOther
<1>3. \A k \in Nodes : ntodo[k] = {}
  BY <1>1, <1>2 DEF Transaction
<1>. QED BY <1>2, <1>3 DEF Listed, InTx

\* It lists what it is to publish: PENDING tasks that nobody has a message for.
LEMMA ListNode ==
  ASSUME TakeTurns, IInv, NodeInv, Mono, NEW n \in Nodes, Apart(n),
         UNCHANGED <<gateVars, brokerVars, link>>,
         npc[n] \in {"readdag", "failwf"}, npc'[n] = "publish",
         LockRows(n, {WfRow}), UNCHANGED <<st, runs, queue, nmsg, nsaga, nrows>>,
         \A m \in ntodo'[n] : Shaped(m) /\ m.task \in Tasks,
         \A m, x \in ntodo'[n] : m.task = x.task => m = x,
         \A m \in ntodo'[n] :
           /\ st[m.task] = "PENDING" /\ ~HasRun(m.task)
           /\ ~AtGate(m.task) /\ ~Posted(m.task)
           /\ \A k \in Nodes : ~Holds(k, m.task),
         \A m \in ntodo'[n] : Hidden(m.task) => npc[n] = "failwf"
  PROVE  NodeInv'
<1>. DEFINE u == Mine(n)
<1>1. /\ TypeOK /\ WorkerTypeOK /\ WorkerOK(n) /\ Transaction(n) /\ HandTells(n)
      /\ txLocks \in [Nodes -> SUBSET Rows]
      /\ gtodo' = gtodo /\ gpc' = gpc /\ jpc' = jpc
  BY DEF IInv, TypeOK, StoreTypeOK, InvWorker, NodeInv, OneTransaction, HandsTell,
         gateVars, brokerVars
<1>2. /\ u \in Tasks /\ Holds(n, u) /\ Mine(n)' = u
  BY <1>1, MineTask DEF Holds, Mine
<1>3. /\ \A k \in Nodes : npc[k] # "publish" /\ ntodo[k] = {}
      /\ \A k \in Nodes : \A t : ~Listed(k, t)
      /\ \A t : ~InTx(t)
  BY FirstToPublish
<1>4. /\ \A k \in Nodes \ {n} : npc'[k] = npc[k] /\ ntodo'[k] = {}
      /\ nrows'[n] = {}
  BY <1>1, <1>3 DEF Apart, Transaction
<1>5. /\ \A k \in Nodes \ {n} : \A t : ~Listed(k, t)'
      /\ \A t : ~InTx(t)'
      /\ \A t : Listed(n, t)' => \E m \in ntodo'[n] : m.task = t
      /\ \A k \in Nodes : \A t : Holds(k, t)' <=> Holds(k, t)
  BY <1>3, <1>4 DEF Listed, InTx, Holds, Mine
<1>6. /\ \A t : AtGate(t)' <=> AtGate(t)
      /\ \A t : HasRun(t)' <=> HasRun(t)
  BY <1>1 DEF AtGate, HasRun
<1>7. /\ NoTwins' /\ Waiting("node")' = Waiting("node")
      /\ \A t : Posted(t)' <=> Posted(t)
  BY NodeStays DEF NodeInv
<1>8. PodsOpen'
  BY <1>1, <1>7 DEF NodeInv, PodsOpen
<1>9. AllShaped'
  BY <1>1, <1>7, ShapesKept DEF NodeInv
<1>10. OneMessage'
  BY <1>5, <1>6, <1>7 DEF NodeInv, OneMessage
<1>11. OneTransaction'
  <2>1. /\ nsaga[n] <=> npc[n] = "failwf"
        /\ nsaga[n] => MayFail(u)
    BY <1>1 DEF WorkerOK, Transaction
  <2>2. txLocks'[n] = txLocks[n] \cup {WfRow}
    BY <1>1 DEF LockRows
  <2>3. txLocks'[n] = {WfRow} \cup {t \in Tasks : nsaga[n] /\ t = u}
    BY <1>1, <1>2, <2>1, <2>2 DEF Transaction
  <2>4. Transaction(n)'
    BY <1>2, <1>4, <2>1, <2>3 DEF Transaction
  <2>5. \A k \in Nodes \ {n} : Transaction(k)'
    BY ApartSame DEF NodeInv, OneTransaction
  <2>. QED BY <1>3, <1>4, <2>4, <2>5 DEF OneTransaction
<1>. HIDE DEF u
<1>12. RowsTell'
  <2>1. ASSUME NEW k \in Nodes, npc[k] = "complete"
        PROVE  npc'[k] = "complete" /\ Mine(k)' = Mine(k)
    BY <1>4, <2>1 DEF Mine
  <2>. QED BY <1>1, <1>3, <1>5, <1>6, <1>7, <2>1, BrokersStay DEF NodeInv, RowsTell
<1>13. HandsTell'
  <2>1. \A k \in Nodes \ {n} : HandTells(k)'
    BY <1>1, <1>3, OthersTell DEF NodeInv
  <2>2. HandTells(n)'
    <3>1. st'[u] = st[u] /\ u = Mine(n) /\ (npc[n] = "failwf" => nsaga[n])
          /\ (npc[n] = "readdag" => ~nsaga[n])
      BY <1>1 DEF u, WorkerOK, Transaction
    <3>2. ASSUME NEW t, t = u PROVE HasRun(Mine(n))' <=> HasRun(Mine(n))
      <4>1. Mine(n)' = t /\ Mine(n) = t
        BY <1>2, <3>1, <3>2
      <4>. QED BY <1>6, <4>1
    <3>. QED BY <1>1, <1>2, <3>1, <3>2 DEF HandTells
  <2>. QED BY <2>1, <2>2 DEF HandsTell
<1>14. HandledOnce'
  <2>1. ASSUME NEW t \in Tasks, Touched(t)' PROVE Touched(t) \/ Listed(n, t)'
    BY <1>5, <1>7, <2>1 DEF Touched
  <2>2. ASSUME NEW f \in Tasks, Handled(f) PROVE Handled(f)'
    BY <1>4, <1>5, <2>2 DEF Handled
  <2>3. ASSUME NEW t \in Tasks, Hidden(t), Listed(n, t)'
        PROVE  \E f \in Tasks : MayFail(f) /\ Handled(f)'
    <3>1. npc[n] = "failwf" /\ nsaga[n] /\ MayFail(u)
      BY <1>1, <1>5, <2>3 DEF WorkerOK, Transaction, u
    <3>2. ASSUME NEW f, f = u PROVE Handled(f)'
      <4>1. Holds(n, f)'
        BY <1>2, <1>5, <3>2
      <4>. QED BY <3>1, <4>1 DEF Handled
    <3>. QED BY <1>2, <3>1, <3>2
  <2>. QED BY <1>2, <2>1, <2>2, <2>3 DEF NodeInv, HandledOnce
<1>. QED BY <1>7, <1>8, <1>9, <1>10, <1>11, <1>12, <1>13, <1>14 DEF NodeInv

\* Nobody holds a PENDING task while no transaction publishes.
LEMMA PendingIsFree ==
  ASSUME TypeOK, NodeInv, \A t : ~InTx(t),
         NEW t \in Tasks, st[t] = "PENDING"
  PROVE  /\ ~AtGate(t) /\ ~Posted(t) /\ ~HasRun(t)
         /\ \A k \in Nodes : ~Holds(k, t)
<1>1. ASSUME NEW k \in Nodes, Holds(k, t) PROVE FALSE
  <2>1. npc[k] \in WorkerPoints \ {"idle"} /\ nsaga[k] \in BOOLEAN /\ Mine(k) = t
    BY <1>1 DEF TypeOK, WorkerTypeOK, Holds
  <2>2. HandTells(k)
    BY DEF NodeInv, HandsTell
  <2>. QED BY <2>1, <2>2 DEF HandTells, WorkerPoints
<1>2. ~AtGate(t) /\ ~Posted(t)
  BY DEF NodeInv, RowsTell
<1>3. ~HasRun(t)
  BY <1>1 DEF NodeInv, RowsTell, Holds
<1>. QED BY <1>1, <1>2, <1>3

LEMMA ReadDagNode ==
  ASSUME TakeTurns, IInv, NodeInv, Mono, NEW n \in Nodes, Apart(n),
         UNCHANGED <<gateVars, brokerVars, link>>, WorkerReadDag(n)
  PROVE  NodeInv' /\ UNCHANGED st
<1>1. TypeOK /\ WorkerTypeOK
  BY DEF IInv, TypeOK
<1>2. /\ npc[n] = "readdag" /\ npc'[n] = "publish" /\ LockRows(n, {WfRow})
      /\ UNCHANGED <<st, runs, queue, nmsg, nsaga, nrows>>
      /\ ntodo'[n] = {} \/ ntodo'[n] = {TaskMessage(t) : t \in Ready(st)}
  BY <1>1 DEF WorkerReadDag, At, WorkerTypeOK
<1>3. \A t : ~InTx(t)
  BY <1>2, FirstToPublish
<1>4. ASSUME NEW m \in ntodo'[n]
      PROVE  /\ m = TaskMessage(m.task) /\ m.task \in Tasks
             /\ st[m.task] = "PENDING" /\ ~Hidden(m.task)
  BY <1>2 DEF TaskMessage, Ready, DepsMet, Hidden
<1>5. ASSUME NEW m \in ntodo'[n]
      PROVE  /\ Shaped(m) /\ ~HasRun(m.task) /\ ~AtGate(m.task) /\ ~Posted(m.task)
             /\ \A k \in Nodes : ~Holds(k, m.task)
  BY <1>1, <1>3, <1>4, PendingIsFree DEF Shaped
<1>6. \A m, x \in ntodo'[n] : m.task = x.task => m = x
  BY <1>4
<1>7. NodeInv'
  BY <1>2, <1>4, <1>5, <1>6, ListNode
<1>. QED BY <1>2, <1>7

\* The failure handler finds every compensation as the gateway left it: nobody
\* but the one task that can fail ever called for one.
LEMMA FailWorkflowNode ==
  ASSUME TakeTurns, IInv, NodeInv, Mono, NEW n \in Nodes, Apart(n),
         UNCHANGED <<gateVars, brokerVars, link>>, WorkerFailWorkflow(n)
  PROVE  NodeInv' /\ UNCHANGED st
<1>. DEFINE u == Mine(n)
            seen == [st EXCEPT ![u] = "FAILED"]
<1>1. /\ TypeOK /\ WorkerTypeOK /\ WorkerOK(n) /\ Transaction(n) /\ HandTells(n)
      /\ st \in [Tasks -> Status]
  BY DEF IInv, TypeOK, StoreTypeOK, InvWorker, NodeInv, OneTransaction, HandsTell
<1>2. /\ npc[n] = "failwf" /\ npc'[n] = "publish" /\ LockRows(n, {WfRow})
      /\ UNCHANGED <<st, runs, queue, nmsg, nsaga, nrows>>
      /\ ntodo'[n] = {WorkerCompensation(o) : o \in Compensable(seen)}
  BY <1>1 DEF WorkerFailWorkflow, At, WorkerTypeOK
<1>3. \A t : ~InTx(t)
  BY <1>2, FirstToPublish
<1>4. /\ u \in Tasks /\ MayFail(u) /\ st[u] = "RUNNING" /\ Holds(n, u)
      /\ \A k \in Nodes : Holds(k, u) => k = n
  <2>1. u \in Tasks /\ Holds(n, u) /\ nsaga[n]
    BY <1>1, <1>2, MineTask DEF Holds, WorkerOK
  <2>2. \A k \in Nodes : Holds(k, u) => k = n
    BY <2>1 DEF NodeInv, OneMessage
  <2>. QED BY <1>1, <1>2, <2>1, <2>2 DEF Transaction, HandTells
<1>5. ASSUME NEW o \in Compensable(seen)
      PROVE  o \in Tasks /\ Comp(o) # NoTask /\ st[o] = "COMPLETED" /\ HasRun(o)
  <2>1. o \in Tasks /\ Comp(o) # NoTask /\ seen[o] = "COMPLETED"
    BY DEF Compensable
  <2>2. st[o] = "COMPLETED"
    BY <1>1, <1>4, <2>1
  <2>. QED BY <2>1, <2>2 DEF IInv, InvRows
<1>. HIDE DEF u, seen
<1>6. ~Handled(u)
  BY <1>2, <1>4 DEF Handled
<1>7. ASSUME NEW o \in Compensable(seen), NEW t \in Tasks, Hidden(t)
      PROVE  ~Touched(t)
  <2>1. \A f \in Tasks : MayFail(f) => f = u
    BY <1>4, <1>5 DEF TakeTurns
  <2>. QED BY <1>6, <1>7, <2>1 DEF NodeInv, HandledOnce
<1>8. ASSUME NEW o \in Compensable(seen)
      PROVE  /\ ~Hidden(o) /\ Comp(o) \in Tasks /\ Hidden(Comp(o))
             /\ st[Comp(o)] = "PENDING" 
  <2>1. ~Hidden(o)
    BY <1>5, <1>7 DEF Touched
  <2>2. Comp(o) \in Tasks
    BY <1>5, DagAssumption DEF TaskDefinition, Comp
  <2>3. Hidden(Comp(o))
    BY <1>5 DEF TakeTurns
  <2>4. st[Comp(o)] \in {"NONE", "PENDING"}
    BY <1>7, <2>2, <2>3 DEF Touched
  <2>5. gpc # "ready"
    BY <1>1, <1>2 DEF WorkerOK, Good
  <2>. QED BY <2>1, <2>2, <2>3, <2>4, <2>5 DEF IInv, InvRows
<1>9. ASSUME NEW m \in ntodo'[n]
      PROVE  \E o \in Compensable(seen) : m = WorkerCompensation(o) /\ m.task = Comp(o)
  BY <1>2 DEF WorkerCompensation
<1>10. ASSUME NEW m \in ntodo'[n]
       PROVE  Shaped(m) /\ m.task \in Tasks /\ st[m.task] = "PENDING"
  BY <1>5, <1>8, <1>9 DEF Shaped
<1>11. ASSUME NEW m \in ntodo'[n]
       PROVE  /\ ~HasRun(m.task) /\ ~AtGate(m.task) /\ ~Posted(m.task)
              /\ \A k \in Nodes : ~Holds(k, m.task)
  BY <1>1, <1>3, <1>10, PendingIsFree
<1>12. ASSUME NEW m \in ntodo'[n], NEW x \in ntodo'[n], m.task = x.task PROVE m = x
  <2>1. PICK o \in Compensable(seen) : m = WorkerCompensation(o) /\ m.task = Comp(o)
    BY <1>9
  <2>2. PICK p \in Compensable(seen) : x = WorkerCompensation(p) /\ x.task = Comp(p)
    BY <1>9
  <2>3. o = p
    BY <1>5, <1>12, <2>1, <2>2 DEF TakeTurns
  <2>. QED BY <2>1, <2>2, <2>3
<1>13. NodeInv'
  BY <1>2, <1>10, <1>11, <1>12, ListNode
<1>. QED BY <1>2, <1>13

LEMMA PublishNode ==
  ASSUME TakeTurns, IInv, NodeInv, Mono, NEW n \in Nodes, Apart(n),
         UNCHANGED <<gateVars, brokerVars, link>>, WorkerPublish(n)
  PROVE  NodeInv' /\ UNCHANGED st
<1>1. /\ TypeOK /\ WorkerTypeOK /\ Transaction(n) /\ HandTells(n)
      /\ txLocks \in [Nodes -> SUBSET Rows] /\ queue \in [Queues -> Seq(Message)]
      /\ gtodo' = gtodo /\ gpc' = gpc /\ jpc' = jpc
  BY DEF IInv, TypeOK, StoreTypeOK, NodeInv, OneTransaction, HandsTell,
         gateVars, brokerVars
<1>2. PICK m \in ntodo[n] :
        /\ LockRows(n, {m.task}) /\ Send(m)
        /\ ntodo' = [ntodo EXCEPT ![n] = @ \ {m}]
        /\ nrows' = [nrows EXCEPT ![n] = @ \cup {m.task}]
  BY DEF WorkerPublish
<1>3. PICK u : u = m.task
  OBVIOUS
<1>4. /\ npc[n] = "publish" /\ UNCHANGED <<st, runs, npc, nmsg, nsaga>>
      /\ m \in Message /\ u \in Tasks /\ Shaped(m) /\ Listed(n, u)
  BY <1>1, <1>3, MessageTask
     DEF WorkerPublish, WorkerTypeOK, NodeInv, AllShaped, Listed
<1>5. /\ m.queue \in Queues /\ ~AtGate(u) /\ ~Posted(u)
      /\ \A k \in Nodes : ~Holds(k, u)
      /\ st[u] = "PENDING"
  BY <1>3, <1>4, NodeMessage DEF NodeInv, OneMessage, RowsTell
<1>6. \A k \in Nodes : npc[k] = "publish" => k = n
  BY <1>4 DEF NodeInv, OneTransaction
<1>7. /\ \A k \in Nodes \ {n} : ntodo[k] = {} /\ \A t : ~Listed(k, t)
      /\ \A t : InTx(t) <=> t \in nrows[n]
  BY <1>4, <1>6 DEF NodeInv, OneTransaction, Transaction, Listed, InTx
<1>8. ~HasRun(u)
  <2>1. ASSUME NEW k \in Nodes, npc[k] = "complete" PROVE Mine(k) # u
    BY <1>5, <2>1 DEF Holds
  <2>. QED BY <1>4, <1>5, <2>1 DEF NodeInv, RowsTell
<1>9. /\ NoTwins'
      /\ Waiting("node")' =
           IF m.queue = "node" THEN Waiting("node") \cup {m} ELSE Waiting("node")
      /\ \A t : Posted(t)' <=> Posted(t) \/ (t = u /\ m.queue = "node")
  <2>1. CASE m.queue = "node"
    BY <1>1, <1>2, <1>3, <1>4, <1>5, <2>1, NodeSend DEF NodeInv
  <2>2. CASE m.queue = "java"
    <3>1. queue'["node"] = queue["node"]
      BY <1>1, <1>2, <1>4, <2>2, JavaSend
    <3>. QED BY <2>2, <3>1, NodeStays DEF NodeInv
  <2>. QED BY <1>5, <2>1, <2>2 DEF Queues
<1>10. /\ ntodo'[n] = ntodo[n] \ {m} /\ nrows'[n] = nrows[n] \cup {u}
       /\ txLocks'[n] = txLocks[n] \cup {u}
  BY <1>1, <1>2, <1>3 DEF WorkerTypeOK, LockRows
<1>11. \A x \in ntodo'[n] : x \in ntodo[n] /\ x.task # u
  BY <1>1, <1>3, <1>10 DEF Transaction
<1>12. /\ \A k \in Nodes : \A t : Holds(k, t)' <=> Holds(k, t)
       /\ \A k \in Nodes : \A t : Listed(k, t)' => Listed(k, t) /\ t # u
       /\ \A t : InTx(t)' <=> InTx(t) \/ t = u
  <2>1. ASSUME NEW k \in Nodes, NEW t, Listed(k, t)' PROVE Listed(k, t) /\ t # u
    <3>1. CASE k = n
      BY <1>11, <2>1, <3>1 DEF Listed
    <3>2. CASE k # n
      BY <1>7, <2>1, <3>2 DEF Listed, Apart
    <3>. QED BY <3>1, <3>2
  <2>2. \A t : InTx(t)' <=> t \in nrows'[n]
    BY <1>4, <1>6 DEF InTx
  <2>3. \A k \in Nodes : \A t : Holds(k, t)' <=> Holds(k, t)
    BY <1>4 DEF Holds, Mine
  <2>. QED BY <1>7, <1>10, <2>1, <2>2, <2>3
<1>13. /\ \A t : AtGate(t)' <=> AtGate(t)
       /\ \A t : HasRun(t)' <=> HasRun(t)
  BY <1>1, <1>4 DEF AtGate, HasRun
<1>14. PodsOpen'
  BY <1>1, <1>9 DEF NodeInv, PodsOpen
<1>15. AllShaped'
  BY <1>1, <1>4, <1>9, <1>10, ShapesKept DEF NodeInv
<1>16. OneMessage'
  BY <1>5, <1>9, <1>12, <1>13 DEF NodeInv, OneMessage
<1>17. OneTransaction'
  <2>1. Transaction(n)'
    BY <1>1, <1>4, <1>10 DEF Transaction, Mine
  <2>2. \A k \in Nodes \ {n} : Transaction(k)'
    BY ApartSame DEF NodeInv, OneTransaction
  <2>. QED BY <1>4, <1>6, <2>1, <2>2 DEF OneTransaction
<1>18. RowsTell'
  <2>1. \A k \in Nodes : npc'[k] = npc[k] /\ Mine(k)' = Mine(k)
    BY <1>4 DEF Mine
  <2>2. \A t : InTx(t) => \A k \in Nodes : ~Listed(k, t) \/ t \notin Tasks
    BY DEF NodeInv, RowsTell
  <2>. QED
    BY <1>1, <1>4, <1>5, <1>8, <1>9, <1>12, <1>13, <2>1, <2>2, BrokersStay
       DEF NodeInv, RowsTell
<1>19. HandsTell'
  <2>1. \A k \in Nodes \ {n} : HandTells(k)'
    BY <1>1, <1>4, <1>12, OthersTell DEF NodeInv
  <2>2. HandTells(n)'
    <3>1. PICK v : v = Mine(n)
      OBVIOUS
    <3>2. Mine(n)' = v
      BY <1>4, <3>1 DEF Mine
    <3>3. (HasRun(Mine(n))' <=> HasRun(v)') /\ (HasRun(v)' <=> HasRun(v))
      BY <1>13, <3>2
    <3>. QED BY <1>1, <1>4, <3>1, <3>2, <3>3 DEF HandTells
  <2>. QED BY <2>1, <2>2 DEF HandsTell
<1>20. HandledOnce'
  <2>1. ASSUME NEW t \in Tasks, Touched(t)' PROVE Touched(t)
    BY <1>4, <1>9, <1>12, <2>1 DEF Touched
  <2>2. ASSUME NEW f \in Tasks, Handled(f) PROVE Handled(f)'
    BY <1>4, <1>12, <2>2 DEF Handled
  <2>. QED BY <2>1, <2>2 DEF NodeInv, HandledOnce
<1>. QED
  BY <1>4, <1>9, <1>14, <1>15, <1>16, <1>17, <1>18, <1>19, <1>20 DEF NodeInv

LEMMA CommitNode ==
  ASSUME TakeTurns, IInv, NodeInv, Mono, NEW n \in Nodes, Apart(n),
         UNCHANGED <<gateVars, brokerVars, link>>, WorkerCommit(n)
  PROVE  /\ NodeInv'
         /\ \A t \in Tasks : st[t] = "COMPLETED" => st'[t] # "RUNNING"
<1>1. /\ TypeOK /\ WorkerTypeOK /\ Transaction(n) /\ HandTells(n)
      /\ txLocks \in [Nodes -> SUBSET Rows] /\ queue \in [Queues -> Seq(Message)]
      /\ gtodo' = gtodo /\ gpc' = gpc /\ jpc' = jpc
  BY DEF IInv, TypeOK, StoreTypeOK, NodeInv, OneTransaction, HandsTell,
         gateVars, brokerVars
<1>2. /\ npc[n] = "publish" /\ ntodo[n] = {} /\ npc'[n] = "ack"
      /\ txLocks'[n] = {} /\ UNCHANGED <<runs, queue, nmsg, nsaga, ntodo, nrows>>
  BY <1>1 DEF WorkerCommit, At, WorkerTypeOK, txData
<1>3. PICK u : u = Mine(n)
  OBVIOUS
<1>4. /\ u \in Tasks /\ Holds(n, u) /\ Mine(n)' = u
      /\ \A k \in Nodes : Holds(k, u) => k = n
      /\ ~AtGate(u) /\ ~Posted(u)
  <2>1. u \in Tasks /\ Holds(n, u) /\ Mine(n)' = u
    BY <1>1, <1>2, <1>3, MineTask DEF Holds, Mine
  <2>. QED BY <2>1 DEF NodeInv, OneMessage
<1>5. \A t \in Tasks :
        /\ t \in nrows[n] => st'[t] = "RUNNING"
        /\ t \notin nrows[n] /\ nsaga[n] /\ t = u => st'[t] = "FAILED"
        /\ t \notin nrows[n] /\ ~(nsaga[n] /\ t = u) => st'[t] = st[t]
  BY <1>3 DEF WorkerCommit
<1>6. \A k \in Nodes : npc[k] = "publish" => k = n
  BY <1>2 DEF NodeInv, OneTransaction
<1>7. /\ \A k \in Nodes : \A t : ~Listed(k, t) /\ ~Listed(k, t)'
      /\ \A t : InTx(t) <=> t \in nrows[n]
      /\ \A t : ~InTx(t)'
  <2>1. \A k \in Nodes : ntodo[k] = {}
    BY <1>2, <1>6 DEF NodeInv, OneTransaction, Transaction
  <2>2. \A t : InTx(t) <=> t \in nrows[n]
    BY <1>2, <1>6 DEF InTx
  <2>3. \A k \in Nodes : npc'[k] # "publish"
    BY <1>2, <1>6 DEF Apart
  <2>. QED BY <1>2, <2>1, <2>2, <2>3 DEF Listed, InTx
<1>8. /\ nsaga[n] => ~HasRun(u) /\ st[u] = "RUNNING"
      /\ ~nsaga[n] => st[u] = "COMPLETED"
      /\ u \notin nrows[n]
  <2>1. /\ nsaga[n] => ~HasRun(u) /\ st[u] = "RUNNING"
        /\ ~nsaga[n] => st[u] = "COMPLETED"
    BY <1>1, <1>2, <1>3 DEF HandTells
  <2>2. InTx(u) => st[u] = "PENDING"
    BY <1>4 DEF NodeInv, RowsTell
  <2>. QED BY <1>7, <2>1, <2>2
<1>9. \A t \in Tasks : t \in nrows[n] => st[t] = "PENDING"
  BY <1>7 DEF NodeInv, RowsTell
<1>10. /\ \A k \in Nodes : \A t : Holds(k, t)' <=> Holds(k, t)
       /\ \A t : AtGate(t)' <=> AtGate(t)
       /\ \A t : HasRun(t)' <=> HasRun(t)
  BY <1>1, <1>2 DEF Holds, Mine, Apart, AtGate, HasRun
<1>11. /\ NoTwins' /\ Waiting("node")' = Waiting("node")
       /\ \A t : Posted(t)' <=> Posted(t)
  BY <1>2, NodeStays DEF NodeInv
<1>12. PodsOpen'
  BY <1>1, <1>11 DEF NodeInv, PodsOpen
<1>13. AllShaped'
  BY <1>1, <1>2, <1>11, ShapesKept DEF NodeInv
<1>14. OneMessage'
  BY <1>7, <1>10, <1>11 DEF NodeInv, OneMessage
<1>15. OneTransaction'
  <2>1. Transaction(n)'
    BY <1>1, <1>2 DEF Transaction, Mine
  <2>2. \A k \in Nodes \ {n} : Transaction(k)'
    BY ApartSame DEF NodeInv, OneTransaction
  <2>3. \A k \in Nodes : npc'[k] # "publish"
    BY <1>2, <1>6 DEF Apart
  <2>. QED BY <2>1, <2>2, <2>3 DEF OneTransaction
<1>16. RowsTell'
  <2>1. ASSUME NEW k \in Nodes, npc[k] = "complete"
        PROVE  npc'[k] = "complete" /\ Mine(k)' = Mine(k)
    <3>1. k # n
      BY <1>2, <2>1
    <3>. QED BY <2>1, <3>1, ApartSame
  <2>2. ASSUME NEW t \in Tasks, t \in nrows[n] PROVE ~HasRun(t)
    <3>1. ASSUME NEW k \in Nodes, npc[k] = "complete", Mine(k) = t PROVE FALSE
      BY <1>9, <2>2, <3>1 DEF NodeInv, HandsTell, HandTells
    <3>. QED BY <1>9, <2>2, <3>1 DEF NodeInv, RowsTell
  <2>. SUFFICES ASSUME NEW t \in Tasks
       PROVE  /\ gpc' = "ready" => st'[t] = "NONE"
              /\ runs'[t] <= 1
              /\ HasRun(t) => \/ st'[t] = "COMPLETED"
                              \/ \E k \in Nodes : npc'[k] = "complete" /\ Mine(k)' = t
                              \/ /\ st'[t] = "RUNNING"
                                 /\ \E c \in Consumers : jpc[c] = "complete" /\ Own(c) = t
              /\ HasRun(t) /\ ~Hidden(t) => Dag[t].chaos = "none"
              /\ AtGate(t) => ~HasRun(t) /\ st'[t] = "RUNNING"
              /\ Posted(t) => ~HasRun(t) /\ st'[t] = "RUNNING"
    BY <1>7, <1>10, <1>11, BrokersStay DEF RowsTell
  <2>3. gpc' # "ready"
    BY <1>1, <1>2 DEF IInv, InvWorker, WorkerOK, Good
  <2>4. /\ runs[t] <= 1
        /\ HasRun(t) => \/ st[t] = "COMPLETED"
                        \/ \E k \in Nodes : npc[k] = "complete" /\ Mine(k) = t
                        \/ /\ st[t] = "RUNNING"
                           /\ \E c \in Consumers : jpc[c] = "complete" /\ Own(c) = t
        /\ HasRun(t) /\ ~Hidden(t) => Dag[t].chaos = "none"
        /\ AtGate(t) => ~HasRun(t) /\ st[t] = "RUNNING"
        /\ Posted(t) => ~HasRun(t) /\ (st[t] = "RUNNING" \/ InTx(t))
    BY DEF NodeInv, RowsTell
  <2>5. HasRun(t) => \/ st'[t] = "COMPLETED"
                     \/ \E k \in Nodes : npc'[k] = "complete" /\ Mine(k)' = t
                     \/ /\ st'[t] = "RUNNING"
                        /\ \E c \in Consumers : jpc[c] = "complete" /\ Own(c) = t
    BY <1>5, <1>8, <2>1, <2>2, <2>4
  <2>. QED BY <1>2, <1>4, <1>5, <1>7, <1>9, <2>3, <2>4, <2>5
<1>17. HandsTell'
  <2>1. ASSUME NEW k \in Nodes \ {n} PROVE HandTells(k)'
    <3>1. ASSUME NEW t \in Tasks, Holds(k, t)
          PROVE  /\ runs'[t] = runs[t]
                 /\ st[t] # "PENDING" => st'[t] = st[t]
                 /\ InTx(t) => InTx(t)' \/ st'[t] = "RUNNING"
      <4>1. t # u
        BY <1>4, <3>1
      <4>. QED BY <1>2, <1>5, <1>7, <1>9, <4>1
    <3>. QED BY <1>1, <3>1, OthersTell DEF NodeInv
  <2>2. HandTells(n)'
    <3>1. st'[u] = IF nsaga[n] THEN "FAILED" ELSE "COMPLETED"
      BY <1>4, <1>5, <1>8
    <3>. QED BY <1>2, <1>4, <3>1 DEF HandTells
  <2>. QED BY <2>1, <2>2 DEF HandsTell
<1>18. HandledOnce'
  <2>1. ASSUME NEW t \in Tasks, Touched(t)' PROVE Touched(t)
    <3>1. CASE t = u
      BY <1>4, <3>1 DEF Touched
    <3>2. CASE t \in nrows[n]
      BY <1>7, <3>2 DEF Touched
    <3>3. CASE t # u /\ t \notin nrows[n]
      BY <1>5, <1>7, <1>10, <1>11, <2>1, <3>3 DEF Touched
    <3>. QED BY <3>1, <3>2, <3>3
  <2>2. ASSUME NEW f \in Tasks, Handled(f) PROVE Handled(f)'
    <3>1. CASE st[f] = "FAILED" /\ \A k \in Nodes : ~Holds(k, f)
      <4>1. st'[f] = "FAILED"
        BY <1>5, <1>9, <3>1
      <4>. QED BY <1>10, <3>1, <4>1 DEF Handled
    <3>2. ASSUME NEW k \in Nodes, Holds(k, f), nsaga[k], npc[k] \in {"publish", "ack"}
          PROVE  Handled(f)'
      <4>1. npc'[k] \in {"publish", "ack"} /\ nsaga'[k]
        BY <1>2, <3>2 DEF Apart
      <4>. QED BY <1>10, <3>2, <4>1 DEF Handled
    <3>. QED BY <2>2, <3>1, <3>2 DEF Handled
  <2>. QED BY <2>1, <2>2 DEF NodeInv, HandledOnce
<1>19. NodeInv'
  BY <1>11, <1>12, <1>13, <1>14, <1>15, <1>16, <1>17, <1>18 DEF NodeInv
<1>20. \A t \in Tasks : st[t] = "COMPLETED" => st'[t] # "RUNNING"
  BY <1>5, <1>9
<1>. QED BY <1>19, <1>20

---------------------------------------------------------------------------
(* The whole. *)

LEMMA InitNode == Init => NodeInv
<1>. SUFFICES ASSUME Init PROVE NodeInv
  OBVIOUS
<1>1. /\ \A n \in Nodes :
           /\ npc[n] = "idle" /\ nsaga[n] = FALSE /\ ntodo[n] = {}
           /\ nrows[n] = {} /\ link[n] = "open" /\ txLocks[n] = {}
      /\ \A c \in Consumers : jpc[c] = "idle"
      /\ \A q \in Queues : queue[q] = <<>>
      /\ \A t \in Tasks : st[t] = "NONE" /\ runs[t] = 0
      /\ gtodo = {} /\ gpc = "ready"
  BY DEF Init, StoreInit, GateInit, BrokerInit, WorkerInit, PodInit
<1>2. queue["node"] = <<>>
  BY <1>1 DEF Queues
<1>3. Waiting("node") = {} /\ NoTwins /\ \A t : ~Posted(t)
  BY <1>2, EmptySeq DEF Waiting, NoTwins, Posted
<1>4. /\ \A n \in Nodes : \A t : ~Holds(n, t) /\ ~Listed(n, t)
      /\ \A t : ~InTx(t) /\ ~AtGate(t)
      /\ \A t \in Tasks : ~HasRun(t)
  BY <1>1 DEF Holds, Listed, InTx, AtGate, HasRun
<1>5. PodsOpen /\ AllShaped
  BY <1>1, <1>3 DEF PodsOpen, AllShaped
<1>6. OneMessage /\ RowsTell
  BY <1>1, <1>3, <1>4 DEF OneMessage, RowsTell
<1>7. OneTransaction
  BY <1>1 DEF OneTransaction, Transaction
<1>8. HandsTell
  BY <1>1 DEF HandsTell, HandTells
<1>9. HandledOnce
  BY <1>1, <1>3, <1>4 DEF HandledOnce, Touched
<1>. QED BY <1>3, <1>5, <1>6, <1>7, <1>8, <1>9 DEF NodeInv

LEMMA StutterNode ==
  ASSUME NodeInv, UNCHANGED <<st, runs, txLocks, gateVars, workerVars>>,
         queue'["node"] = queue["node"],
         \A c \in Consumers :
           jpc[c] = "complete" => jpc'[c] = "complete" /\ Own(c)' = Own(c)
  PROVE  NodeInv'
<1>1. UNCHANGED <<npc, nmsg, nsaga, ntodo, nrows, link, gpc, gtodo>>
  BY DEF gateVars, workerVars, callbackVars, txData
<1>2. /\ \A n \in Nodes : \A t : /\ Holds(n, t)' <=> Holds(n, t)
                                 /\ Listed(n, t)' <=> Listed(n, t)
      /\ \A t : InTx(t)' <=> InTx(t)
      /\ \A t : AtGate(t)' <=> AtGate(t)
      /\ \A t : HasRun(t)' <=> HasRun(t)
      /\ \A n : Mine(n)' = Mine(n)
  BY <1>1 DEF Holds, Listed, InTx, AtGate, HasRun, Mine
<1>3. /\ NoTwins' /\ Waiting("node")' = Waiting("node")
      /\ \A t : Posted(t)' <=> Posted(t)
  BY NodeStays DEF NodeInv
<1>4. PodsOpen' /\ NoTwins'
  BY <1>1, <1>3 DEF NodeInv, PodsOpen
<1>5. AllShaped'
  <2>1. \A m : Shaped(m)' <=> Shaped(m)
    BY <1>2 DEF Shaped
  <2>2. \A n \in Nodes : npc'[n] # "idle" => Shaped(nmsg[n])'
    <3>. SUFFICES ASSUME NEW n \in Nodes, npc'[n] # "idle" PROVE Shaped(nmsg[n])'
      OBVIOUS
    <3>1. PICK m : m = nmsg[n] /\ nmsg'[n] = m
      BY <1>1
    <3>2. Shaped(m)'
      BY <1>1, <2>1, <3>1 DEF NodeInv, AllShaped
    <3>. QED BY <3>1, <3>2
  <2>. QED BY <1>1, <1>3, <2>1, <2>2 DEF NodeInv, AllShaped
<1>6. OneMessage'
  BY <1>2, <1>3 DEF NodeInv, OneMessage
<1>7. OneTransaction'
  <2>1. \A n \in Nodes : Transaction(n)'
    BY <1>1, <1>2 DEF NodeInv, OneTransaction, Transaction
  <2>. QED BY <1>1, <2>1 DEF NodeInv, OneTransaction
<1>8. RowsTell'
  BY <1>1, <1>2, <1>3 DEF NodeInv, RowsTell
<1>9. HandsTell'
  BY <1>1 DEF NodeInv, HandsTell, HandTells, InTx, HasRun, Mine
<1>10. HandledOnce'
  BY <1>1, <1>2, <1>3 DEF NodeInv, HandledOnce, Touched, Handled
<1>. QED BY <1>4, <1>5, <1>6, <1>7, <1>8, <1>9, <1>10 DEF NodeInv

LEMMA StepNode ==
  ASSUME TakeTurns, IInv, NodeInv, NEW n \in Nodes, NodeStep(n),
         UNCHANGED <<gateVars, brokerVars, link>>
  PROVE  /\ NodeInv' /\ Mono /\ Apart(n)
         /\ \A t \in Tasks : st[t] = "COMPLETED" => st'[t] # "RUNNING"
<1>1. TypeOK /\ WorkerStep(n)
  BY DEF IInv, NodeStep, WorkerStep
<1>2. Mono /\ Apart(n)
  BY <1>1, WorkerMono, StepApart
<1>3. CASE \/ WorkerCheck(n) \/ WorkerMarkRunning(n) \/ WorkerExecute(n)
           \/ WorkerExecuteFails(n) \/ WorkerComplete(n) \/ WorkerFailTask(n)
  BY <1>2, <1>3, HandSteps
<1>4. CASE WorkerDeliver(n)
  BY <1>2, <1>4, DeliverNode
<1>5. CASE WorkerFatalCrash(n) \/ WorkerAck(n)
  BY <1>2, <1>5, LetGoNode
<1>6. CASE WorkerReadDag(n)
  BY <1>2, <1>6, ReadDagNode
<1>7. CASE WorkerFailWorkflow(n)
  BY <1>2, <1>7, FailWorkflowNode
<1>8. CASE WorkerPublish(n)
  BY <1>2, <1>8, PublishNode
<1>9. CASE WorkerCommit(n)
  BY <1>2, <1>9, CommitNode
<1>. QED BY <1>2, <1>3, <1>4, <1>5, <1>6, <1>7, <1>8, <1>9 DEF NodeStep


---------------------------------------------------------------------------
(* The order of the DAG. *)

\* What a pod does to the rows: it starts what it published, completes or fails
\* the RUNNING task in its hands.
LEMMA RowsMove ==
  ASSUME TakeTurns, IInv, NodeInv, NEW n \in Nodes, NodeStep(n)
  PROVE  \A t \in Tasks :
           \/ st'[t] = st[t]
           \/ /\ st[t] = "PENDING" /\ st'[t] = "RUNNING"
              /\ npc[n] = "publish" /\ t \in nrows[n]
           \/ st[t] = "RUNNING" /\ st'[t] = "COMPLETED" /\ Holds(n, t)
           \/ st[t] = "RUNNING" /\ st'[t] = "FAILED" /\ MayFail(t) /\ Holds(n, t)
<1>1. /\ TypeOK /\ WorkerTypeOK /\ Transaction(n) /\ HandTells(n)
      /\ st \in [Tasks -> Status]
  BY DEF IInv, TypeOK, StoreTypeOK, NodeInv, OneTransaction, HandsTell
<1>2. CASE WorkerMarkRunning(n)
  <2>1. npc[n] = "run" /\ Unlocked(Mine(n)) /\ st' = [st EXCEPT ![Mine(n)] = "RUNNING"]
    BY <1>2 DEF WorkerMarkRunning, UpdateTask
  <2>2. ~InTx(Mine(n))
    BY <2>1 DEF InTx, Unlocked, NodeInv, OneTransaction, Transaction
  <2>3. st[Mine(n)] = "RUNNING"
    BY <1>1, <2>1, <2>2 DEF HandTells
  <2>. QED BY <1>1, <2>1, <2>3
<1>3. CASE WorkerComplete(n)
  <2>1. npc[n] = "complete" /\ st' = [st EXCEPT ![Mine(n)] = "COMPLETED"]
    BY <1>3 DEF WorkerComplete, UpdateTask
  <2>. QED BY <1>1, <2>1 DEF HandTells, Holds
<1>4. CASE WorkerCommit(n)
  <2>1. /\ npc[n] = "publish"
        /\ \A t \in Tasks :
             /\ t \in nrows[n] => st'[t] = "RUNNING"
             /\ t \notin nrows[n] /\ nsaga[n] /\ t = Mine(n) => st'[t] = "FAILED"
             /\ t \notin nrows[n] /\ ~(nsaga[n] /\ t = Mine(n)) => st'[t] = st[t]
    BY <1>4 DEF WorkerCommit
  <2>2. \A t \in Tasks : t \in nrows[n] => st[t] = "PENDING"
    BY <2>1 DEF NodeInv, RowsTell, InTx
  <2>3. nsaga[n] => st[Mine(n)] = "RUNNING" /\ MayFail(Mine(n))
    BY <1>1, <2>1 DEF HandTells, Transaction
  <2>. QED BY <2>1, <2>2, <2>3 DEF Holds
<1>. QED
  BY <1>2, <1>3, <1>4
     DEF NodeStep, WorkerDeliver, WorkerCheck, WorkerExecute, WorkerExecuteFails,
         WorkerFatalCrash, WorkerReadDag, WorkerFailTask, WorkerFailWorkflow,
         WorkerPublish, WorkerAck, storeVars

\* What a pod begins has all it depends on.
LEMMA BegunStep ==
  ASSUME TakeTurns, IInv, NodeInv, NEW n \in Nodes, NodeStep(n), link' = link,
         NEW t \in Tasks, Begun(t)', ~Hidden(t)
  PROVE  Begun(t) \/ \A d \in Deps(t) : st[d] = "COMPLETED"
<1>1. TypeOK /\ WorkerTypeOK /\ Transaction(n)
  BY DEF IInv, TypeOK, NodeInv, OneTransaction
<1>2. \A k \in Nodes \ {n} :
        /\ npc'[k] = npc[k] /\ nrows'[k] = nrows[k]
        /\ Listed(k, t)' <=> Listed(k, t)
  <2>1. WorkerStep(n)
    BY DEF NodeStep, WorkerStep
  <2>2. Apart(n)
    BY <1>1, <2>1, StepApart
  <2>. QED BY <2>2, ApartSame
<1>3. CASE st'[t] \notin {"NONE", "PENDING"}
  BY <1>3, RowsMove DEF Begun, InTx
<1>4. CASE \E k \in Nodes \ {n} :
             Listed(k, t)' \/ (npc'[k] = "publish" /\ t \in nrows'[k])
  BY <1>2, <1>4 DEF Begun, InTx
<1>5. CASE Listed(n, t)' \/ (npc'[n] = "publish" /\ t \in nrows'[n])
  <2>1. CASE WorkerReadDag(n)
    <3>1. ntodo'[n] \subseteq {TaskMessage(u) : u \in Ready(st)} /\ nrows'[n] = {}
      BY <1>1, <2>1 DEF WorkerReadDag, WorkerTypeOK, Transaction
    <3>2. Listed(n, t)'
      BY <1>5, <3>1
    <3>3. t \in Ready(st)
      BY <3>1, <3>2 DEF Listed, TaskMessage
    <3>. QED BY <3>3 DEF Ready, DepsMet
  <2>2. CASE WorkerFailWorkflow(n)
    <3>1. /\ nrows'[n] = {}
          /\ \A m \in ntodo'[n] : \E o \in Tasks : Comp(o) # NoTask /\ m.task = Comp(o)
      <4>1. npc[n] = "failwf" /\ nrows' = nrows
        BY <2>2 DEF WorkerFailWorkflow
      <4>2. ntodo'[n] = {WorkerCompensation(o) :
                           o \in Compensable([st EXCEPT ![Mine(n)] = "FAILED"])}
        BY <1>1, <2>2 DEF WorkerFailWorkflow, WorkerTypeOK
      <4>. QED BY <1>1, <4>1, <4>2 DEF Transaction, WorkerCompensation, Compensable
    <3>2. PICK m \in ntodo'[n] : m.task = t
      BY <1>5, <3>1 DEF Listed
    <3>. QED BY <3>1, <3>2 DEF TakeTurns
  <2>3. CASE WorkerPublish(n)
    <3>1. PICK m \in ntodo[n] :
            /\ ntodo' = [ntodo EXCEPT ![n] = @ \ {m}]
            /\ nrows' = [nrows EXCEPT ![n] = @ \cup {m.task}]
      BY <2>3 DEF WorkerPublish
    <3>2. ntodo'[n] = ntodo[n] \ {m} /\ nrows'[n] = nrows[n] \cup {m.task}
          /\ npc[n] = "publish"
      BY <1>1, <2>3, <3>1 DEF WorkerTypeOK, WorkerPublish
    <3>. QED BY <1>5, <3>2 DEF Begun, Listed, InTx
  <2>4. CASE \/ WorkerDeliver(n) \/ WorkerCheck(n) \/ WorkerMarkRunning(n)
             \/ WorkerExecute(n) \/ WorkerExecuteFails(n) \/ WorkerFatalCrash(n)
             \/ WorkerComplete(n) \/ WorkerFailTask(n) \/ WorkerCommit(n)
             \/ WorkerAck(n)
    <3>1. npc'[n] # "publish" /\ (ntodo'[n] = ntodo[n] \/ ntodo'[n] = {})
      BY <1>1, <2>4 DEF WorkerDeliver, WorkerCheck, WorkerMarkRunning, WorkerExecute,
         WorkerExecuteFails, WorkerFatalCrash, WorkerComplete, WorkerFailTask,
         WorkerCommit, WorkerAck, At, ResetWorker, WorkerTypeOK, txData, storeVars
    <3>. QED BY <1>5, <3>1 DEF Listed, Begun
  <2>. QED BY <2>1, <2>2, <2>3, <2>4 DEF NodeStep
<1>. QED BY <1>3, <1>4, <1>5 DEF Begun, InTx

LEMMA OrderStep ==
  ASSUME InOrder,
         \A t \in Tasks : st[t] = "COMPLETED" => st'[t] = "COMPLETED",
         \A t \in Tasks : Begun(t)' /\ ~Hidden(t) =>
            Begun(t) \/ \A d \in Deps(t) : st[d] = "COMPLETED"
  PROVE  InOrder'
<1>. SUFFICES ASSUME NEW t \in Tasks, ~Hidden(t), Begun(t)', NEW d \in Deps(t)
     PROVE  st'[d] = "COMPLETED"
  BY DEF InOrder, Hidden
<1>1. st[d] = "COMPLETED"
  BY DEF InOrder
<1>. QED BY <1>1, DepsType

\* What precedes a task whose dependencies are COMPLETED is COMPLETED.
LEMMA DoneBefore ==
  ASSUME InOrder, NEW f \in Tasks, \A d \in Deps(f) : st[d] = "COMPLETED",
         NEW o \in Tasks, Precedes(o, f), o # f
  PROVE  st[o] = "COMPLETED"
<1>. DEFINE S == {f} \cup {t \in Tasks : st[t] = "COMPLETED"}
<1>1. ASSUME NEW t \in S, ~Hidden(t) PROVE Deps(t) \subseteq S
  <2>1. CASE t = f
    BY <2>1, DepsType
  <2>2. CASE t # f
    <3>1. t \in Tasks /\ Begun(t)
      BY <2>2 DEF Begun
    <3>2. \A d \in Deps(t) : st[d] = "COMPLETED"
      BY <1>1, <3>1 DEF InOrder
    <3>. QED BY <3>1, <3>2, DepsType
  <2>. QED BY <2>1, <2>2
<1>2. S \in SUBSET Tasks /\ f \in S
  OBVIOUS
<1>. HIDE DEF S
<1>3. o \in S
  BY <1>1, <1>2 DEF Precedes
<1>. QED BY <1>3 DEF S

\* Nor is it behind one that may fail: a Java task whose turn has come leads.
LEMMA TurnComes ==
  ASSUME IInv, NodeInv, InOrder, NEW t \in Tasks,
         \A d \in Deps(t) : st[d] = "COMPLETED"
  PROVE  /\ ~Doomed(t)
         /\ Dag[t].worker = "java" /\ ~Hidden(t) => t \in Leading
<1>1. ASSUME NEW f \in Tasks, MayFail(f), f # t, Precedes(f, t) PROVE FALSE
  <2>1. st[f] = "COMPLETED"
    BY <1>1, DoneBefore
  <2>2. HasRun(f)
    BY <2>1 DEF IInv, InvRows
  <2>. QED BY <1>1, <2>2 DEF NodeInv, RowsTell, MayFail
<1>. QED BY <1>1 DEF Doomed, Leading

\* Of the tasks the brokers have to themselves, one at most can start.
LEMMA OneTurn ==
  ASSUME TakeTurns, InOrder, Leading # {},
         \A t \in Tasks : st[t] = "COMPLETED" => t \in Leading,
         NEW u \in Tasks, NEW v \in Tasks,
         st[u] # "COMPLETED", st[v] # "COMPLETED", ~Hidden(u), ~Hidden(v),
         \A d \in Deps(u) \cup Deps(v) : st[d] = "COMPLETED"
  PROVE  u = v
<1>. DEFINE S == {t \in Tasks : st[t] = "COMPLETED"}
<1>1. S \in SUBSET Leading
  OBVIOUS
<1>2. \A t \in S : Deps(t) \subseteq S
  <2>1. \A t \in S : Begun(t) /\ ~Hidden(t)
    BY <1>1 DEF Begun, Leading
  <2>. QED BY <2>1, DepsType DEF InOrder
<1>3. Deps(u) \cup Deps(v) \subseteq S /\ u \in Tasks \ S /\ v \in Tasks \ S
  BY DepsType
<1>. HIDE DEF S
<1>. QED BY <1>1, <1>2, <1>3 DEF TakeTurns, JavaLeads

\* Before anything has failed, nobody has looked at a compensation.
LEMMA HiddenRests ==
  ASSUME IInv, NodeInv, faulted = {}, \A n \in Nodes : npc[n] = "idle",
         NEW t \in Tasks, Hidden(t)
  PROVE  ~Touched(t)
<1>1. ASSUME NEW f \in Tasks, Handled(f) PROVE FALSE
  <2>1. st[f] # "FAILED"
    BY DEF IInv, InvRows
  <2>. QED BY <1>1, <2>1 DEF Handled, Holds
<1>. QED BY <1>1 DEF NodeInv, HandledOnce

---------------------------------------------------------------------------
(* What a broker has in hand. *)

LEMMA JavaHands ==
  ASSUME TakeTurns, IInv, NodeInv, BrokersTell, NEW c \in Consumers, jpc[c] # "idle"
  PROVE  /\ Own(c) \in Tasks /\ jmsg[c] \in Message /\ gpc # "ready"
         /\ Dag[Own(c)].worker = "java" /\ Shaped(jmsg[c]) /\ jmsg[c].queue = "java"
         /\ ~AtGate(Own(c)) /\ ~Posted(Own(c)) /\ \A n \in Nodes : ~Holds(n, Own(c))
<1>1. /\ Own(c) \in Tasks /\ jmsg[c] \in Message /\ gpc # "ready"
  BY OwnTask DEF IInv, InvBroker, BrokerOK, Good
<1>2. Shaped(jmsg[c]) /\ jmsg[c].queue = "java" /\ ~AtGate(Own(c))
  BY DEF BrokersTell, BrokerTells, Unheard, AtGate
<1>3. Dag[Own(c)].worker = "java"
  BY <1>1, <1>2, NodeMessage DEF NodeInv, Own
<1>4. ASSUME NEW m, Shaped(m), m.queue = "node", m.task \in Tasks
      PROVE  m.task # Own(c)
  <2>1. Dag[m.task].worker = "node"
    BY <1>4, NodeMessage DEF NodeInv
  <2>. QED BY <1>3, <2>1
<1>5. ~Posted(Own(c))
  <2>1. \A m \in Waiting("node") : Shaped(m) /\ m.queue = "node" /\ m.task \in Tasks
    BY PostedTask DEF NodeInv, AllShaped, Queues
  <2>. QED BY <1>4, <2>1 DEF Posted
<1>6. \A n \in Nodes : ~Holds(n, Own(c))
  <2>1. \A n \in Nodes : npc[n] # "idle" =>
          Shaped(nmsg[n]) /\ nmsg[n].queue = "node" /\ nmsg[n].task \in Tasks
    BY MineTask DEF IInv, NodeInv, AllShaped, Mine
  <2>. QED BY <1>4, <2>1 DEF Holds, Mine
<1>. QED BY <1>1, <1>2, <1>3, <1>5, <1>6

\* Nor does a pod have it on its list, once its row is no longer PENDING.
LEMMA JavaApart ==
  ASSUME NodeInv, NEW t \in Tasks, st[t] # "PENDING"
  PROVE  ~InTx(t) /\ \A n \in Nodes : ~Listed(n, t)
BY DEF NodeInv, RowsTell

\* Who holds the lock and finds the row RUNNING is the first to execute the task.
LEMMA FirstToExecute ==
  ASSUME TakeTurns, IInv, NodeInv, BrokersTell, NEW c \in Consumers,
         jpc[c] = "check", st[Own(c)] # "COMPLETED"
  PROVE  ~HasRun(Own(c))
<1>1. Own(c) \in Tasks /\ \A n \in Nodes : ~Holds(n, Own(c))
  BY JavaHands
<1>2. rlock[Own(c)] = c
  BY DEF BrokersTell, BrokerTells, Resting
<1>3. ASSUME NEW d \in Consumers, jpc[d] = "complete", Own(d) = Own(c) PROVE FALSE
  <2>1. rlock[Own(d)] = d
    BY <1>3 DEF BrokersTell, BrokerTells, Resting
  <2>. QED BY <1>2, <1>3, <2>1
<1>. QED BY <1>1, <1>3 DEF NodeInv, RowsTell, Holds

---------------------------------------------------------------------------
(* What a step of a broker leaves of the invariants. *)

\* A step on a task of its own leaves the pods alone.
LEMMA JavaNode ==
  ASSUME TypeOK, NodeInv, Mono, gpc # "ready", NEW v \in Tasks,
         UNCHANGED <<txLocks, gateVars, workerVars>>, queue'["node"] = queue["node"],
         ~AtGate(v), ~Posted(v), ~InTx(v),
         \A n \in Nodes : ~Holds(n, v) /\ ~Listed(n, v),
         \A t \in Tasks : t # v => st'[t] = st[t] /\ runs'[t] = runs[t],
         runs'[v] <= 1, st[v] # "FAILED",
         HasRun(v)' =>
           /\ ~Hidden(v) => Dag[v].chaos = "none"
           /\ \/ st'[v] = "COMPLETED"
              \/ /\ st'[v] = "RUNNING"
                 /\ \E d \in Consumers : jpc'[d] = "complete" /\ Own(d)' = v,
         Hidden(v) => st[v] \notin {"NONE", "PENDING"},
         \A d \in Consumers :
           jpc[d] = "complete" /\ Own(d) # v =>
             jpc'[d] = "complete" /\ Own(d)' = Own(d)
  PROVE  NodeInv'
<1>1. UNCHANGED <<npc, nmsg, nsaga, ntodo, nrows, link, gpc, gtodo>>
  BY DEF gateVars, workerVars, callbackVars, txData
<1>2. /\ \A n \in Nodes : \A t : /\ Holds(n, t)' <=> Holds(n, t)
                                 /\ Listed(n, t)' <=> Listed(n, t)
      /\ \A t : InTx(t)' <=> InTx(t)
      /\ \A t : AtGate(t)' <=> AtGate(t)
      /\ \A n : Mine(n)' = Mine(n)
  BY <1>1 DEF Holds, Listed, InTx, AtGate, Mine
<1>3. \A t \in Tasks : t # v => (HasRun(t)' <=> HasRun(t))
  BY DEF HasRun
<1>4. /\ NoTwins' /\ Waiting("node")' = Waiting("node")
      /\ \A t : Posted(t)' <=> Posted(t)
  BY NodeStays DEF NodeInv
<1>5. PodsOpen' /\ NoTwins'
  BY <1>1, <1>4 DEF NodeInv, PodsOpen
<1>6. AllShaped'
  <2>1. \A m : Shaped(m) => Shaped(m)'
    BY ShapedMono
  <2>2. ASSUME NEW n \in Nodes, npc'[n] # "idle" PROVE Shaped(nmsg[n])'
    <3>1. PICK m : m = nmsg[n] /\ nmsg'[n] = m
      BY <1>1
    <3>2. Shaped(m)'
      BY <1>1, <2>1, <2>2, <3>1 DEF NodeInv, AllShaped
    <3>. QED BY <3>1, <3>2
  <2>. QED BY <1>1, <1>4, <2>1, <2>2 DEF NodeInv, AllShaped
<1>7. OneMessage'
  BY <1>2, <1>4 DEF NodeInv, OneMessage
<1>8. OneTransaction'
  <2>1. \A n \in Nodes : Transaction(n)'
    BY <1>1, <1>2 DEF NodeInv, OneTransaction, Transaction
  <2>. QED BY <1>1, <2>1 DEF NodeInv, OneTransaction
<1>9. RowsTell'
  <2>. SUFFICES ASSUME NEW t \in Tasks
       PROVE  /\ runs'[t] <= 1
              /\ HasRun(t)' => \/ st'[t] = "COMPLETED"
                               \/ \E n \in Nodes : npc[n] = "complete" /\ Mine(n) = t
                               \/ /\ st'[t] = "RUNNING"
                                  /\ \E d \in Consumers :
                                       jpc'[d] = "complete" /\ Own(d)' = t
              /\ HasRun(t)' /\ ~Hidden(t) => Dag[t].chaos = "none"
              /\ AtGate(t) => ~HasRun(t)' /\ st'[t] = "RUNNING"
              /\ Posted(t) => ~HasRun(t)' /\ (st'[t] = "RUNNING" \/ InTx(t))
              /\ \A n \in Nodes : Listed(n, t) => st'[t] = "PENDING"
              /\ InTx(t) => st'[t] = "PENDING" /\ \A n \in Nodes : ~Listed(n, t)
    BY <1>1, <1>2, <1>4 DEF RowsTell
  <2>1. CASE t = v
    BY <2>1
  <2>2. CASE t # v
    <3>1. (HasRun(t)' <=> HasRun(t)) /\ st'[t] = st[t] /\ runs'[t] = runs[t]
      BY <1>3, <2>2
    <3>2. ASSUME NEW d \in Consumers, jpc[d] = "complete", Own(d) = t
          PROVE  jpc'[d] = "complete" /\ Own(d)' = t
      BY <2>2, <3>2
    <3>. QED BY <3>1, <3>2 DEF NodeInv, RowsTell
  <2>. QED BY <2>1, <2>2
<1>10. HandsTell'
  <2>. SUFFICES ASSUME NEW n \in Nodes PROVE HandTells(n)'
    BY DEF HandsTell
  <2>1. CASE npc[n] = "idle"
    BY <1>1, <2>1 DEF HandTells
  <2>2. ASSUME NEW t \in Tasks, npc[n] # "idle", t = Mine(n) PROVE HandTells(n)'
    <3>1. t # v
      BY <2>2 DEF Holds
    <3>2. (HasRun(t)' <=> HasRun(t)) /\ st'[t] = st[t] /\ (InTx(t)' <=> InTx(t))
      BY <1>2, <1>3, <3>1
    <3>3. HandTells(n)
      BY DEF NodeInv, HandsTell
    <3>4. Mine(n)' = t
      BY <1>2, <2>2
    <3>5. (HasRun(Mine(n))' <=> HasRun(t)) /\ (InTx(Mine(n))' <=> InTx(t))
      <4>1. (HasRun(Mine(n))' <=> HasRun(t)') /\ (InTx(Mine(n))' <=> InTx(t)')
        BY <3>4 DEF HasRun, InTx
      <4>. QED BY <3>2, <4>1
    <3>. QED BY <1>1, <2>2, <3>2, <3>3, <3>4, <3>5 DEF HandTells
  <2>. QED BY <2>1, <2>2, MineTask
<1>11. HandledOnce'
  <2>1. ASSUME NEW t \in Tasks, Hidden(t), Touched(t)' PROVE Touched(t)
    BY <1>2, <1>4, <2>1 DEF Touched
  <2>2. ASSUME NEW f \in Tasks, Handled(f) PROVE Handled(f)'
    BY <1>1, <1>2, <2>2 DEF Handled
  <2>. QED BY <2>1, <2>2 DEF NodeInv, HandledOnce
<1>. QED BY <1>5, <1>6, <1>7, <1>8, <1>9, <1>10, <1>11 DEF NodeInv

\* A thread takes its own lock and lets go of its own.
LEMMA OthersLocked ==
  ASSUME TypeOK, NEW c \in Consumers, BrokerStep(c) \/ BrokerRedeliver(c),
         NEW d \in Consumers \ {c}, NEW t \in Tasks, rlock[t] = d
  PROVE  rlock'[t] = d
<1>1. rlock \in [Tasks -> Consumers \cup {Free, Orphan}] /\ Free \notin Consumers
  BY BrokerAssumption DEF TypeOK, BrokerTypeOK
<1>2. CASE BrokerLock(c)
  BY <1>1, <1>2 DEF BrokerLock
<1>3. CASE BrokerFinish(c)
  BY <1>1, <1>3 DEF BrokerFinish, PassLock
<1>4. CASE ~BrokerLock(c) /\ ~BrokerFinish(c)
  BY <1>4
     DEF BrokerStep, BrokerDeliver, BrokerLockTimeout, BrokerCheck, BrokerMarkRunning,
     BrokerExecute, BrokerRefuse, BrokerComplete, BrokerReadWorkflow, BrokerReadTasks,
     BrokerTrigger, BrokerPublish, BrokerSaveWorkflow, BrokerFailTask,
     BrokerFailWorkflow, BrokerCompensate, BrokerRedeliver
<1>. QED BY <1>2, <1>3, <1>4

\* The other threads, and the messages, when a thread steps: rows go from PENDING
\* to RUNNING, and the task in its hands to COMPLETED.
LEMMA BrokersGoOn ==
  ASSUME TakeTurns, IInv, NodeInv, BrokersTell, Mono, NEW c \in Consumers,
         BrokerStep(c) \/ BrokerRedeliver(c), UNCHANGED <<gateVars, workerVars>>,
         \A t \in Tasks : \/ st'[t] = st[t]
                          \/ st[t] = "PENDING" /\ ~InTx(t)
                          \/ t = Own(c) /\ rlock[t] = c /\ st'[t] = "COMPLETED",
         \A t \in Tasks : runs'[t] = runs[t] \/ (t = Own(c) /\ rlock[t] = c),
         BrokerTells(c)', jpc'[c] # "idle" => ~AtGate(Own(c)'),
         \A m \in Waiting("java")' :
           \/ m \in Waiting("java")
           \/ Shaped(m) /\ m.queue = "java" /\ Told(m.task)' /\ ~AtGate(m.task)
  PROVE  BrokersTell'
<1>1. TypeOK /\ BrokerTypeOK /\ gtodo' = gtodo
  BY DEF IInv, TypeOK, gateVars
<1>2. \A t : InTx(t)' <=> InTx(t)
  BY DEF InTx, workerVars, callbackVars, txData
<1>3. \A t \in Tasks : Told(t) => Told(t)'
  BY <1>2 DEF Told
<1>4. \A m : Shaped(m) => Shaped(m)'
  BY ShapedMono
<1>5. \A d \in Consumers \ {c} : BrokerSame(d)
  BY <1>1, BrokerAlone DEF BrokerFault
<1>6. ASSUME NEW d \in Consumers \ {c}, jpc[d] = "idle" PROVE BrokerTells(d)'
  BY <1>5, <1>6 DEF BrokersTell, BrokerTells, BrokerSame, Resting, Progress
<1>7. ASSUME NEW d \in Consumers \ {c}, jpc[d] # "idle", NEW t \in Tasks, t = Own(d)
      PROVE  BrokerTells(d)'
  <2>1. jpc'[d] = jpc[d] /\ jmsg'[d] = jmsg[d] /\ Own(d)' = t
    BY <1>5, <1>7 DEF BrokerSame, Own
  <2>2. BrokerTells(d)
    BY DEF BrokersTell
  <2>3. Shaped(jmsg[d])' /\ Told(t)'
    <3>1. PICK m : m = jmsg[d] /\ jmsg'[d] = m
      BY <2>1
    <3>. QED BY <1>3, <1>4, <1>7, <2>2, <3>1 DEF BrokerTells
  <2>4. CASE jpc[d] \in Resting
    <3>1. Told(Own(d))'
      BY <2>1, <2>3 DEF Told, InTx
    <3>. QED BY <1>7, <2>1, <2>2, <2>3, <2>4, <3>1
             DEF BrokerTells, Resting, Progress
  <2>5. CASE jpc[d] \notin Resting
    <3>1. rlock[t] = d
      BY <1>7, <2>2, <2>5 DEF BrokerTells
    <3>2. rlock'[t] = d
      BY <1>1, <3>1, OthersLocked
    <3>3. runs'[t] = runs[t]
      BY <3>1
    <3>4. st'[t] = st[t]
      BY <1>7, <2>2, <3>1 DEF BrokerTells, Told
    <3>5. Told(Own(d))' /\ (HasRun(Own(d))' <=> HasRun(t))
      BY <2>1, <2>3, <3>3 DEF Told, InTx, HasRun
    <3>. QED BY <1>7, <2>1, <2>2, <2>3, <3>2, <3>4, <3>5 DEF BrokerTells
  <2>. QED BY <2>4, <2>5
<1>8. \A d \in Consumers \ {c} : jpc[d] # "idle" => Own(d) \in Tasks
  BY <1>1, OwnTask
<1>9. \A d \in Consumers : BrokerTells(d)'
  BY <1>6, <1>7, <1>8
<1>10. \A m \in Waiting("java")' : Shaped(m)' /\ m.queue = "java" /\ Told(m.task)'
  <2>1. \A m \in Waiting("java") : m.task \in Tasks
    BY PostedTask DEF Queues
  <2>. QED BY <1>3, <1>4, <2>1 DEF BrokersTell
<1>11. ASSUME NEW x \in gtodo PROVE Unheard(x.task)'
  <2>1. AtGate(x.task) /\ Unheard(x.task)
    BY DEF AtGate, BrokersTell
  <2>2. \A m \in Waiting("java")' : m.task # x.task
    BY <2>1 DEF Unheard
  <2>3. \A d \in Consumers \ {c} : jpc'[d] # "idle" => Own(d)' # x.task
    BY <1>5, <2>1 DEF Unheard, BrokerSame, Own
  <2>4. jpc'[c] # "idle" => Own(c)' # x.task
    BY <2>1
  <2>. QED BY <2>2, <2>3, <2>4 DEF Unheard
<1>. QED BY <1>1, <1>9, <1>10, <1>11 DEF BrokersTell

---------------------------------------------------------------------------
(* Whose turn it is, while a broker reads and waits. *)

LEMMA OpeningStays ==
  ASSUME NEW a \in Tasks, Opening(a), NEW c \in Consumers,
         \A d \in Consumers \ {c} : BrokerSame(d),
         UNCHANGED <<st, faulted, gateVars, workerVars>>,
         \A t \in Tasks : HasRun(t)' => HasRun(t) \/ t = a,
         Waiting("node")' = Waiting("node"),
         \A t \in Tasks : Unheard(t) => Unheard(t)',
         jpc[c] = "publish" => jpc'[c] = "publish" /\ jcur'[c] = jcur[c],
         Waits(c) => \/ Waits(c)'
                     \/ /\ st[a] = "RUNNING" /\ Own(c)' = a
                        /\ jpc'[c] \in {"run", "exec", "complete"},
         ~Waits(c) =>
           /\ Own(c)' = Own(c)
           /\ \/ jpc'[c] = jpc[c] /\ jtodo'[c] = jtodo[c]
              \/ {jpc[c], jpc'[c]} \subseteq {"run", "exec", "complete"}
              \/ {jpc[c], jpc'[c]} \subseteq Progress /\ HandsOn(c)'
  PROVE  Opening(a)'
<1>1. UNCHANGED <<npc, gtodo>>
  BY DEF gateVars, workerVars, callbackVars
<1>2. \A d \in Consumers \ {c} :
        /\ jpc'[d] = jpc[d] /\ Own(d)' = Own(d) /\ jtodo'[d] = jtodo[d]
        /\ jcur'[d] = jcur[d] /\ (Waits(d)' <=> Waits(d))
  BY DEF BrokerSame, Own, Waits
<1>4. ASSUME NEW d \in Consumers, jpc'[d] = jpc[d], jtodo'[d] = jtodo[d],
             jcur'[d] = jcur[d] \/ jpc[d] # "publish", HandsOn(d),
             st[a] = "COMPLETED"
      PROVE  HandsOn(d)'
  BY <1>4 DEF HandsOn, Ready
<1>5. \A t \in Tasks \ {a} :
        \/ Hidden(t)
        \/ st'[t] = "PENDING"
        \/ st'[t] = "COMPLETED" /\ t \in Leading
        \/ \E d \in Consumers : jpc'[d] = "publish" /\ jcur'[d].task = t
  <2>. SUFFICES ASSUME NEW t \in Tasks, NEW d \in Consumers,
                       jpc[d] = "publish", jcur[d].task = t
       PROVE  jpc'[d] = "publish" /\ jcur'[d].task = t
    BY DEF Opening
  <2>. QED BY <1>2
<1>6. CASE /\ st[a] = "RUNNING"
           /\ \A d \in Consumers :
                Waits(d) \/ (Own(d) = a /\ jpc[d] \in {"run", "exec", "complete"})
  <2>1. Waits(c)' \/ (Own(c)' = a /\ jpc'[c] \in {"run", "exec", "complete"})
    <3>1. CASE Waits(c)
      BY <3>1
    <3>2. CASE ~Waits(c)
      BY <1>6, <3>2 DEF Progress
    <3>. QED BY <3>1, <3>2
  <2>2. \A d \in Consumers :
          Waits(d)' \/ (Own(d)' = a /\ jpc'[d] \in {"run", "exec", "complete"})
    BY <1>2, <1>6, <2>1
  <2>. QED BY <1>1, <1>5, <1>6, <2>2 DEF Opening
<1>7. ASSUME st[a] = "COMPLETED",
             NEW b \in Consumers, Own(b) = a, jpc[b] \in Progress, HandsOn(b),
             \A d \in Consumers \ {b} : Waits(d)
      PROVE  Opening(a)'
  <2>0. ~Waits(b)
    BY <1>7 DEF Waits, Resting, Progress
  <2>1. Own(b)' = a /\ jpc'[b] \in Progress /\ HandsOn(b)'
    <3>1. CASE b # c
      BY <1>2, <1>4, <1>7, <3>1
    <3>2. CASE b = c
      BY <1>4, <1>7, <2>0, <3>2 DEF Progress
    <3>. QED BY <3>1, <3>2
  <2>2. \A d \in Consumers \ {b} : Waits(d)'
    BY <1>2, <1>7
  <2>. QED BY <1>1, <1>5, <1>7, <2>1, <2>2 DEF Opening
<1>. QED BY <1>6, <1>7 DEF Opening

LEMMA OpenedStays ==
  ASSUME TakeTurns, Opened, NEW c \in Consumers, \A d \in Consumers \ {c} : BrokerSame(d),
         UNCHANGED workerVars, \A t \in Leading : st'[t] = st[t],
         jpc'[c] \notin {"trigger", "publish"},
         jpc'[c] \in {"run", "exec", "complete", "readwf", "readtasks"} =>
           Hidden(Own(c)')
  PROVE  Opened'
<1>1. /\ \A t : InTx(t)' <=> InTx(t)
      /\ \A n \in Nodes : \A t : Listed(n, t)' <=> Listed(n, t)
  BY DEF InTx, Listed, workerVars, callbackVars, txData
<1>2. ASSUME NEW d \in Consumers
      PROVE  /\ jpc'[d] \notin {"trigger", "publish"}
             /\ jpc'[d] \in {"run", "exec", "complete", "readwf", "readtasks"} =>
                  Hidden(Own(d)')
  <2>1. CASE d = c
    BY <2>1
  <2>2. CASE d # c
    <3>1. jpc'[d] = jpc[d] /\ Own(d)' = Own(d)
      BY <2>2 DEF BrokerSame, Own
    <3>. QED BY <3>1 DEF Opened
  <2>. QED BY <2>1, <2>2
<1>3. ASSUME NEW a \in Leading
      PROVE  \/ st'[a] = "COMPLETED"
             \/ st'[a] = "PENDING" /\ \E d \in Deps(a) : st'[d] # "COMPLETED"
  <2>1. Deps(a) \subseteq Leading
    BY DEF TakeTurns, JavaLeads
  <2>. QED BY <2>1 DEF Opened
<1>. QED BY <1>1, <1>2, <1>3 DEF Opened

\* A thread that takes or gives back its message, waits, checks or reads.
BrokerLooks(c) ==
  \/ BrokerDeliver(c) \/ BrokerLock(c) \/ BrokerLockTimeout(c) \/ BrokerCheck(c)
  \/ BrokerMarkRunning(c) \/ BrokerReadWorkflow(c) \/ BrokerReadTasks(c)
  \/ BrokerSaveWorkflow(c) \/ BrokerFinish(c) \/ BrokerRedeliver(c)

\* The row a thread marks RUNNING was RUNNING.
LEMMA MarkedAlready ==
  ASSUME TakeTurns, IInv, NodeInv, BrokersTell, NEW c \in Consumers,
         BrokerMarkRunning(c)
  PROVE  st' = st /\ st[Own(c)] = "RUNNING"
<1>1. /\ jpc[c] = "run" /\ SaveTask(Own(c), "RUNNING")
      /\ Own(c) \in Tasks /\ st \in [Tasks -> Status]
  BY JavaHands DEF BrokerMarkRunning, IInv, TypeOK, StoreTypeOK
<1>2. ~HasRun(Own(c)) /\ Told(Own(c))
  BY <1>1 DEF BrokersTell, BrokerTells
<1>3. st[Own(c)] = "RUNNING" \/ InTx(Own(c))
  BY <1>1, <1>2 DEF IInv, InvRows, Told
<1>4. InTx(Own(c)) => ~Unlocked(Own(c)) /\ st[Own(c)] = "PENDING"
  BY <1>1 DEF NodeInv, RowsTell, InTx, OneTransaction, Transaction, Unlocked
<1>5. st[Own(c)] = "RUNNING"
  BY <1>1, <1>3, <1>4 DEF SaveTask
<1>. QED BY <1>1, <1>5 DEF SaveTask

LEMMA LooksOnly ==
  ASSUME TakeTurns, IInv, NodeInv, BrokersTell, NEW c \in Consumers, BrokerLooks(c)
  PROVE  /\ UNCHANGED <<st, runs, txLocks, faulted>> /\ gpc # "ready"
         /\ queue'["node"] = queue["node"]
         /\ (jpc[c] # "complete" /\ jpc'[c] # "complete") \/ jpc'[c] = jpc[c]
         /\ \/ jmsg'[c] = jmsg[c] /\ jpc[c] # "idle"
            \/ jmsg'[c] \in Waiting("java") /\ jpc'[c] = "lock"
            \/ jpc'[c] = "idle"
         /\ \A m \in Waiting("java")' :
              m \in Waiting("java") \/ (m = jmsg[c] /\ jpc[c] # "idle")
<1>1. TypeOK /\ BrokerTypeOK /\ queue \in [Queues -> Seq(Message)]
  BY DEF IInv, TypeOK, StoreTypeOK
<1>2. CASE BrokerDeliver(c)
  <2>1. /\ queue["java"] # <<>> /\ "java" \in Queues /\ "node" \in Queues
        /\ queue' = [queue EXCEPT !["java"] = Tail(@)]
        /\ jmsg'[c] = Head(queue["java"]) /\ jpc'[c] = "lock" /\ jpc[c] = "idle"
    BY <1>1, <1>2 DEF BrokerDeliver, Goto, BrokerTypeOK, Queues
  <2>2. /\ Waiting("java")' \subseteq Waiting("java")
        /\ jmsg'[c] \in Waiting("java")
    BY <1>1, <2>1, TakeWaiting
  <2>3. gpc # "ready"
    BY <2>1, <2>2, PostedTask DEF Good
  <2>. QED BY <1>1, <1>2, <2>1, <2>2, <2>3 DEF BrokerDeliver, Queues
<1>3. CASE BrokerRedeliver(c)
  <2>1. jpc[c] # "idle" /\ jheld[c]
    BY <1>3 DEF BrokerRedeliver, IInv, InvBroker, BrokerOK
  <2>2. jmsg[c] \in Message /\ jmsg[c].queue = "java" /\ gpc # "ready"
        /\ "java" \in Queues /\ "node" \in Queues
    BY <2>1, JavaHands DEF Queues
  <2>3. Waiting("java")' = Waiting("java") \cup {jmsg[c]}
    BY <1>1, <1>3, <2>2, RequeueWaiting DEF BrokerRedeliver
  <2>4. queue'["node"] = queue["node"]
    BY <1>1, <1>3, <2>2 DEF BrokerRedeliver, Requeue
  <2>. QED BY <1>3, <2>1, <2>2, <2>3, <2>4 DEF BrokerRedeliver
<1>4. CASE BrokerMarkRunning(c)
  <2>1. jpc[c] = "run" /\ queue' = queue /\ jmsg' = jmsg /\ jpc'[c] = "exec"
    BY <1>1, <1>4 DEF BrokerMarkRunning, Goto, delivery, BrokerTypeOK
  <2>2. gpc # "ready"
    BY <2>1, JavaHands
  <2>. QED BY <1>4, <2>1, <2>2, MarkedAlready DEF BrokerMarkRunning, Waiting
<1>5. CASE \/ BrokerLock(c) \/ BrokerLockTimeout(c) \/ BrokerCheck(c)
           \/ BrokerReadWorkflow(c) \/ BrokerReadTasks(c) \/ BrokerSaveWorkflow(c)
           \/ BrokerFinish(c)
  <2>1. /\ UNCHANGED <<st, runs, txLocks, faulted, queue>>
        /\ jpc[c] \notin {"idle", "complete"} /\ jpc'[c] # "complete"
        /\ jmsg'[c] = jmsg[c] \/ jpc'[c] = "idle"
    BY <1>1, <1>5 DEF BrokerLock, BrokerLockTimeout, BrokerCheck, BrokerReadWorkflow,
       BrokerReadTasks, BrokerSaveWorkflow, BrokerFinish, Goto, Reset, delivery,
       storeVars, BrokerTypeOK
  <2>2. gpc # "ready"
    BY <2>1, JavaHands
  <2>. QED BY <2>1, <2>2 DEF Waiting
<1>. QED BY <1>2, <1>3, <1>4, <1>5 DEF BrokerLooks

\* What it has in hand after the step.
LEMMA LooksTells ==
  ASSUME TakeTurns, IInv, NodeInv, BrokersTell, NEW c \in Consumers, BrokerLooks(c),
         UNCHANGED workerVars
  PROVE  BrokerTells(c)'
<1>1. TypeOK /\ BrokerTypeOK /\ BrokerTells(c) /\ UNCHANGED <<st, runs>>
  BY LooksOnly DEF IInv, TypeOK, BrokersTell
<1>2. /\ \A t : (Told(t)' <=> Told(t)) /\ (HasRun(t)' <=> HasRun(t))
      /\ \A m : Shaped(m)' <=> Shaped(m)
  BY <1>1 DEF Told, InTx, workerVars, callbackVars, txData, HasRun, Shaped
<1>3. CASE BrokerDeliver(c)
  <2>1. jmsg'[c] \in Waiting("java") /\ jpc'[c] = "lock"
    BY <1>1, <1>3, LooksOnly DEF BrokerDeliver, Goto, BrokerTypeOK
  <2>2. PICK m \in Waiting("java") : jmsg'[c] = m
    BY <2>1
  <2>3. Shaped(m)' /\ m.queue = "java" /\ Told(m.task)'
    BY <1>2 DEF BrokersTell
  <2>4. Shaped(jmsg[c])' /\ Told(Own(c))'
    BY <2>2, <2>3 DEF Told, InTx, Own
  <2>. QED BY <2>1, <2>2, <2>3, <2>4 DEF BrokerTells, Resting, FailurePoints, Progress
<1>4. CASE BrokerFinish(c)
  <2>1. jpc'[c] = "idle"
    BY <1>1, <1>4 DEF BrokerFinish, Reset, BrokerTypeOK
  <2>. QED BY <2>1 DEF BrokerTells, Resting, FailurePoints, Progress
<1>5. ASSUME NEW m, m = jmsg[c], jmsg'[c] = m, jpc[c] # "idle",
             jpc'[c] \notin FailurePoints \cup {"rescue"},
             jpc'[c] \notin Resting => rlock'[m.task] = c,
             jpc'[c] \in {"run", "exec"} => ~HasRun(m.task),
             jpc'[c] \in {"exec", "complete"} => st[m.task] = "RUNNING",
             jpc'[c] \in Progress \cup {"savewf"} => st[m.task] = "COMPLETED"
      PROVE  BrokerTells(c)'
  <2>1. Shaped(m)' /\ Told(m.task)' /\ m.queue = "java"
    BY <1>1, <1>2, <1>5 DEF BrokerTells, Own
  <2>2. Shaped(jmsg[c])' /\ (Told(Own(c))' <=> Told(m.task)')
    BY <1>5, <2>1 DEF Told, InTx, Own
  <2>3. HasRun(Own(c))' <=> HasRun(m.task)
    BY <1>1, <1>5 DEF HasRun, Own
  <2>4. Own(c)' = m.task
    BY <1>5 DEF Own
  <2>. QED BY <1>1, <1>5, <2>1, <2>2, <2>3, <2>4 DEF BrokerTells
<1>. USE DEF BrokerTells, FailurePoints, Resting, Progress
<1>6. CASE BrokerLock(c) \/ BrokerLockTimeout(c)
  <2>1. /\ jmsg' = jmsg /\ jpc[c] = "lock"
        /\ \/ jpc'[c] = "check" /\ rlock'[Own(c)] = c
           \/ jpc'[c] = "finish"
    <3>1. Own(c) \in Tasks
      BY <1>1, <1>6, OwnTask DEF BrokerLock, BrokerLockTimeout
    <3>. QED BY <1>1, <1>6, <3>1
             DEF BrokerLock, BrokerLockTimeout, Goto, delivery, BrokerTypeOK
  <2>. QED BY <1>5, <2>1 DEF Own
<1>7. CASE BrokerCheck(c)
  <2>1. /\ jmsg' = jmsg /\ jpc[c] = "check" /\ rlock' = rlock
        /\ \/ jpc'[c] = "run" /\ st[Own(c)] # "COMPLETED"
           \/ jpc'[c] = "finish"
    BY <1>1, <1>7 DEF BrokerCheck, Goto, delivery, BrokerTypeOK, Terminal
  <2>2. jpc'[c] = "run" => ~HasRun(Own(c))
    BY <2>1, FirstToExecute
  <2>3. PICK m : m = jmsg[c]
    OBVIOUS
  <2>. QED BY <1>1, <1>5, <2>1, <2>2, <2>3 DEF Own
<1>8. CASE BrokerMarkRunning(c)
  <2>1. /\ jmsg' = jmsg /\ jpc[c] = "run" /\ rlock' = rlock /\ jpc'[c] = "exec"
        /\ st[Own(c)] = "RUNNING"
    BY <1>1, <1>8, MarkedAlready DEF BrokerMarkRunning, Goto, delivery, BrokerTypeOK
  <2>. QED BY <1>1, <1>5, <2>1 DEF Own
<1>9. CASE BrokerReadWorkflow(c) \/ BrokerReadTasks(c) \/ BrokerSaveWorkflow(c)
  <2>1. /\ jmsg' = jmsg /\ rlock' = rlock /\ jpc[c] \in Progress \cup {"savewf"}
        /\ jpc'[c] \in {"readtasks", "finish", "savewf", "trigger"}
    BY <1>1, <1>9 DEF BrokerReadWorkflow, BrokerReadTasks, BrokerSaveWorkflow, Goto,
       delivery, BrokerTypeOK
  <2>. QED BY <1>1, <1>5, <2>1 DEF Own
<1>10. CASE BrokerRedeliver(c)
  <2>1. jmsg' = jmsg /\ rlock' = rlock /\ jpc' = jpc /\ jpc[c] # "idle"
    BY <1>10 DEF BrokerRedeliver, IInv, InvBroker, BrokerOK
  <2>. QED BY <1>1, <1>5, <2>1 DEF Own
<1>. QED BY <1>3, <1>4, <1>6, <1>7, <1>8, <1>9, <1>10 DEF BrokerLooks

LEMMA LooksKeep ==
  ASSUME TakeTurns, IInv, NodeInv, InOrder, BrokersTell, NEW c \in Consumers,
         BrokerLooks(c), UNCHANGED <<gateVars, workerVars>>
  PROVE  /\ NodeInv' /\ InOrder' /\ BrokersTell'
         /\ \A t : Unheard(t) => Unheard(t)'
         /\ \A d \in Consumers \ {c} : BrokerSame(d)
<1>1. /\ UNCHANGED <<st, runs, txLocks, faulted>> /\ gpc # "ready"
      /\ queue'["node"] = queue["node"]
      /\ \/ jmsg'[c] = jmsg[c] /\ jpc[c] # "idle"
         \/ jmsg'[c] \in Waiting("java") /\ jpc'[c] = "lock"
         \/ jpc'[c] = "idle"
      /\ \A m \in Waiting("java")' :
           m \in Waiting("java") \/ (m = jmsg[c] /\ jpc[c] # "idle")
  BY LooksOnly
<1>2. TypeOK /\ BrokerTypeOK /\ (BrokerStep(c) \/ BrokerRedeliver(c))
  BY DEF IInv, TypeOK, BrokerLooks, BrokerStep
<1>3. \A d \in Consumers \ {c} : BrokerSame(d)
  BY <1>2, BrokerAlone DEF BrokerFault
<1>4. Mono
  BY <1>2, BrokerMono DEF BrokerFault
<1>5. NodeInv'
  <2>1. (jpc[c] # "complete" /\ jpc'[c] # "complete") \/ jpc'[c] = jpc[c]
    BY LooksOnly
  <2>2. \A d \in Consumers :
          jpc[d] = "complete" => jpc'[d] = "complete" /\ Own(d)' = Own(d)
    BY <1>1, <1>3, <2>1 DEF BrokerSame, Own
  <2>. QED BY <1>1, <2>2, StutterNode
<1>6. InOrder'
  <2>1. \A t : Begun(t)' => Begun(t)
    BY <1>1 DEF Begun, InTx, Listed, workerVars, callbackVars, txData
  <2>. QED BY <1>1, <2>1, OrderStep
<1>7. jpc'[c] # "idle" =>
        \/ jpc[c] # "idle" /\ Own(c)' = Own(c)
        \/ \E m \in Waiting("java") : Own(c)' = m.task
  BY <1>1 DEF Own
<1>8. ASSUME NEW t, Unheard(t) PROVE Unheard(t)'
  <2>1. \A m \in Waiting("java")' : m.task # t
    BY <1>1, <1>8 DEF Unheard, Own
  <2>2. \A d \in Consumers : jpc'[d] # "idle" => Own(d)' # t
    BY <1>3, <1>7, <1>8 DEF Unheard, BrokerSame, Own
  <2>. QED BY <2>1, <2>2 DEF Unheard
<1>9. BrokersTell'
  <2>1. BrokerTells(c)'
    BY LooksTells
  <2>2. jpc'[c] # "idle" => ~AtGate(Own(c)')
    BY <1>7 DEF BrokersTell, AtGate, Unheard
  <2>3. \A m \in Waiting("java")' :
           \/ m \in Waiting("java")
           \/ Shaped(m) /\ m.queue = "java" /\ Told(m.task)' /\ ~AtGate(m.task)
    <3>1. jpc[c] # "idle" => /\ Shaped(jmsg[c]) /\ jmsg[c].queue = "java"
                             /\ Told(Own(c)) /\ ~AtGate(Own(c))
      BY JavaHands DEF BrokersTell, BrokerTells
    <3>2. \A t : Told(t) => Told(t)'
      BY <1>1 DEF Told, InTx, workerVars, callbackVars, txData
    <3>. QED BY <1>1, <3>1, <3>2 DEF Own
  <2>. QED BY <1>1, <1>2, <1>4, <2>1, <2>2, <2>3, BrokersGoOn
<1>. QED BY <1>3, <1>5, <1>6, <1>8, <1>9

\* A Java task that nobody was called to undo runs in its turn.
LEMMA OwnTurn ==
  ASSUME TakeTurns, IInv, NodeInv, InOrder, BrokersTell, NEW c \in Consumers,
         jpc[c] # "idle"
  PROVE  /\ ~Hidden(Own(c)) => Own(c) \in Leading
         /\ Told(Own(c)) /\ Own(c) \in Tasks
<1>1. Own(c) \in Tasks /\ Dag[Own(c)].worker = "java"
  BY JavaHands
<1>2. Told(Own(c))
  BY DEF BrokersTell, BrokerTells
<1>3. Begun(Own(c))
  BY <1>2 DEF Told, Begun
<1>4. ~Hidden(Own(c)) => \A d \in Deps(Own(c)) : st[d] = "COMPLETED"
  BY <1>1, <1>3 DEF InOrder
<1>. QED BY <1>1, <1>2, <1>4, TurnComes

LEMMA LooksOpening ==
  ASSUME TakeTurns, IInv, NodeInv, InOrder, BrokersTell, NEW c \in Consumers,
         BrokerLooks(c), UNCHANGED <<gateVars, workerVars>>,
         NEW a \in Leading, Opening(a)
  PROVE  Turns'
<1>1. /\ UNCHANGED <<st, runs, txLocks, faulted>>
      /\ queue'["node"] = queue["node"]
  BY LooksOnly
<1>2. /\ \A t : Unheard(t) => Unheard(t)'
      /\ \A d \in Consumers \ {c} : BrokerSame(d)
  BY LooksKeep
<1>3. /\ TypeOK /\ BrokerTypeOK /\ a \in Tasks /\ Waiting("node")' = Waiting("node")
      /\ \A t \in Tasks : HasRun(t)' => HasRun(t) \/ t = a
  BY <1>1, NodeStays DEF IInv, TypeOK, Leading, HasRun
<1>4. /\ faulted = {} /\ \A n \in Nodes : npc[n] = "idle"
      /\ \A t \in Tasks \ {a} :
           \/ Hidden(t)
           \/ st[t] = "PENDING"
           \/ st[t] = "COMPLETED" /\ t \in Leading
           \/ \E b \in Consumers : jpc[b] = "publish" /\ jcur[b].task = t
      /\ \/ /\ st[a] = "RUNNING"
            /\ \A d \in Consumers :
                 Waits(d) \/ (Own(d) = a /\ jpc[d] \in {"run", "exec", "complete"})
         \/ /\ st[a] = "COMPLETED"
            /\ \E b \in Consumers :
                 /\ Own(b) = a /\ jpc[b] \in Progress /\ HandsOn(b)
                 /\ \A d \in Consumers \ {b} : Waits(d)
  BY DEF Opening
<1>5. \A t \in Tasks : Hidden(t) => ~Touched(t)
  BY <1>4, HiddenRests
<1>6. \A t \in Tasks : st[t] = "COMPLETED" => t \in Leading
  <2>. SUFFICES ASSUME NEW t \in Tasks, st[t] = "COMPLETED", t # a PROVE t \in Leading
    OBVIOUS
  <2>1. ~Hidden(t)
    BY <1>5 DEF Touched
  <2>2. ASSUME NEW b \in Consumers, jpc[b] = "publish", jcur[b].task = t PROVE FALSE
    <3>1. HandsOn(b)
      BY <1>4, <2>2 DEF Waits, Resting
    <3>2. \E u \in Tasks : jcur[b] = TaskMessage(u) /\ st[u] = "RUNNING"
      BY <2>2, <3>1 DEF HandsOn
    <3>. QED BY <2>2, <3>2 DEF TaskMessage
  <2>. QED BY <1>4, <2>1, <2>2
<1>. SUFFICES ASSUME ~BrokerReadTasks(c) PROVE Opening(a)'
  <2>. SUFFICES ASSUME BrokerReadTasks(c) PROVE Turns'
    BY DEF Turns
  <2>1. jpc[c] = "readtasks" /\ ~Waits(c)
    BY DEF BrokerReadTasks, Waits, Resting
  <2>2. /\ st[a] = "COMPLETED" /\ Own(c) = a
        /\ \A d \in Consumers \ {c} : Waits(d)
    BY <1>4, <2>1
  <2>3. jwf[c] # "COMPENSATING"
    BY <1>4 DEF IInv, InvBroker, BrokerOK, Backed
  <2>4. CASE Ready(st) # {}
    <3>1. PICK u \in Ready(st) : TRUE
      BY <2>4
    <3>2. \A v \in Ready(st) :
            /\ v \in Tasks /\ st[v] # "COMPLETED" /\ ~Hidden(v)
            /\ \A d \in Deps(v) : st[d] = "COMPLETED"
      BY DEF Ready, DepsMet, Hidden
    <3>3. \A v \in Ready(st) : v = u
      <4>. SUFFICES ASSUME NEW v \in Ready(st) PROVE v = u
        OBVIOUS
      <4>. QED BY <1>6, <3>2, OneTurn
    <3>4. jpc'[c] = "trigger" /\ jtodo'[c] = {TaskMessage(t) : t \in Ready(st)}
      BY <1>3, <2>3, <2>4 DEF BrokerReadTasks, Goto, BrokerTypeOK
    <3>5. jtodo'[c] = {TaskMessage(u)}
      BY <3>1, <3>3, <3>4
    <3>6. HandsOn(c)'
      BY <1>1, <3>1, <3>4, <3>5 DEF HandsOn
    <3>7. Own(c)' = Own(c)
      BY DEF BrokerReadTasks, delivery, Own
    <3>8. Opening(a)'
      BY <1>1, <1>2, <1>3, <2>1, <3>4, <3>6, <3>7, OpeningStays DEF Progress
    <3>. QED BY <3>8 DEF Turns
  <2>5. CASE Ready(st) = {}
    <3>1. jpc'[c] \in {"savewf", "finish"}
      BY <1>3, <2>3, <2>5 DEF BrokerReadTasks, Goto, BrokerTypeOK
    <3>2. UNCHANGED <<npc, nrows, ntodo>>
      BY DEF workerVars, callbackVars, txData
    <3>3. ASSUME NEW l \in Leading
          PROVE  /\ \/ st'[l] = "COMPLETED"
                    \/ st'[l] = "PENDING" /\ \E d \in Deps(l) : st'[d] # "COMPLETED"
                 /\ ~InTx(l)' /\ \A n \in Nodes : ~Listed(n, l)'
      <4>1. l \in Tasks /\ ~Hidden(l)
        BY DEF Leading
      <4>2. ~InTx(l)' /\ \A n \in Nodes : ~Listed(n, l)'
        BY <1>4, <3>2 DEF InTx, Listed, NodeInv, OneTransaction, Transaction
      <4>3. \A b \in Consumers : jpc[b] # "publish"
        BY <2>1, <2>2 DEF Waits, Resting
      <4>4. st[l] = "COMPLETED" \/ st[l] = "PENDING"
        BY <1>4, <2>2, <4>1, <4>3
      <4>5. st[l] = "PENDING" => \E d \in Deps(l) : st[d] # "COMPLETED"
        BY <2>5, <4>1 DEF Ready, DepsMet, Hidden
      <4>. QED BY <1>1, <4>2, <4>4, <4>5
    <3>4. ASSUME NEW d \in Consumers
          PROVE  jpc'[d] \in Resting \cup {"check", "savewf"}
      <4>1. CASE d = c
        BY <3>1, <4>1 DEF Resting
      <4>2. CASE d # c
        BY <1>2, <2>2, <4>2 DEF BrokerSame, Waits
      <4>. QED BY <4>1, <4>2
    <3>5. Opened'
      BY <3>3, <3>4 DEF Opened, Resting
    <3>. QED BY <3>5 DEF Turns
  <2>. QED BY <2>4, <2>5
<1>7. jpc[c] # "savewf" /\ jpc[c] # "rescue"
  BY <1>4 DEF Waits, Resting, Progress
<1>8. ASSUME jpc[c] = "check", st[Own(c)] \notin {"COMPLETED", "FAILED"}
      PROVE  st[a] = "RUNNING" /\ Own(c) = a
  <2>1. Own(c) \in Tasks /\ ~InTx(Own(c)) /\ st[Own(c)] = "RUNNING"
    BY <1>4, <1>8, OwnTurn DEF Told, InTx
  <2>2. ~Hidden(Own(c))
    BY <1>5, <2>1 DEF Touched
  <2>3. ASSUME NEW b \in Consumers, jpc[b] = "publish", jcur[b].task = Own(c)
        PROVE  FALSE
    <3>1. HandsOn(b)
      BY <1>4, <2>3 DEF Waits, Resting
    <3>2. PICK u \in Tasks : jcur[b] = TaskMessage(u) /\ Unheard(u)
      BY <2>3, <3>1 DEF HandsOn
    <3>3. u = Own(c)
      BY <2>3, <3>2 DEF TaskMessage
    <3>. QED BY <1>8, <3>2, <3>3 DEF Unheard
  <2>. QED BY <1>4, <2>1, <2>2, <2>3
<1>9. CASE BrokerDeliver(c)
  <2>1. jpc[c] = "idle" /\ jpc'[c] = "lock"
    BY <1>3, <1>9 DEF BrokerDeliver, Goto, BrokerTypeOK
  <2>. QED BY <1>1, <1>2, <1>3, <2>1, OpeningStays DEF Waits, Resting
<1>10. CASE BrokerLock(c) \/ BrokerLockTimeout(c) \/ BrokerFinish(c)
  <2>1. jpc[c] \in {"lock", "finish"} /\ jpc'[c] \in {"check", "finish", "idle"}
    BY <1>3, <1>10
       DEF BrokerLock, BrokerLockTimeout, BrokerFinish, Reset, Goto, BrokerTypeOK
  <2>. QED BY <1>1, <1>2, <1>3, <2>1, OpeningStays DEF Waits, Resting
<1>11. CASE BrokerCheck(c)
  <2>1. /\ jpc[c] = "check" /\ Own(c)' = Own(c)
        /\ \/ jpc'[c] = "run" /\ st[Own(c)] \notin {"COMPLETED", "FAILED"}
           \/ jpc'[c] = "finish"
    BY <1>3, <1>11 DEF BrokerCheck, Goto, BrokerTypeOK, Terminal, delivery, Own
  <2>. QED BY <1>1, <1>2, <1>3, <1>8, <2>1, OpeningStays DEF Waits, Resting
<1>12. CASE BrokerMarkRunning(c)
  <2>1. jpc[c] = "run" /\ jpc'[c] = "exec" /\ Own(c)' = Own(c)
    BY <1>3, <1>12 DEF BrokerMarkRunning, Goto, BrokerTypeOK, delivery, Own
  <2>. QED BY <1>1, <1>2, <1>3, <2>1, OpeningStays DEF Waits, Resting
<1>13. CASE BrokerReadWorkflow(c)
  <2>1. jpc[c] = "readwf" /\ jpc'[c] = "readtasks" /\ Own(c)' = Own(c)
    BY <1>3, <1>13 DEF BrokerReadWorkflow, Goto, BrokerTypeOK, delivery, Own
  <2>2. HandsOn(c)'
    BY <2>1 DEF HandsOn
  <2>. QED BY <1>1, <1>2, <1>3, <2>1, <2>2, OpeningStays DEF Waits, Resting, Progress
<1>14. CASE BrokerRedeliver(c)
  <2>1. jpc' = jpc /\ jtodo' = jtodo /\ jcur' = jcur /\ Own(c)' = Own(c)
    BY <1>14 DEF BrokerRedeliver, work, Own
  <2>. QED BY <1>1, <1>2, <1>3, <2>1, OpeningStays DEF Waits
<1>. QED BY <1>7, <1>9, <1>10, <1>11, <1>12, <1>13, <1>14
         DEF BrokerLooks, BrokerSaveWorkflow

\* When a broker has undone something, no task is left to start.
LEMMA NothingLeft ==
  ASSUME TakeTurns, IInv, NodeInv, InOrder, BrokersTell, NEW c \in Consumers,
         jpc[c] = "readtasks", Hidden(Own(c))
  PROVE  Ready(st) = {}
<1>1. Own(c) \in Tasks /\ Shaped(jmsg[c]) /\ Dag[Own(c)].worker = "java"
  BY JavaHands
<1>2. PICK o \in Tasks : Comp(o) # NoTask /\ jmsg[c] = WorkerCompensation(o)
  BY <1>1 DEF Shaped, Own
<1>3. Comp(o) = Own(c)
  BY <1>2 DEF WorkerCompensation, Own
<1>4. Touched(Own(c))
  BY <1>1 DEF BrokersTell, BrokerTells, Progress, Touched
<1>5. PICK f \in Tasks : MayFail(f) /\ Handled(f)
  BY <1>1, <1>4 DEF NodeInv, HandledOnce
<1>6. st[f] \in {"FAILED", "RUNNING"}
  BY <1>5 DEF Handled, Holds, NodeInv, HandsTell, HandTells
<1>7. ~Hidden(f) /\ \A d \in Deps(f) : st[d] = "COMPLETED"
  BY <1>5, <1>6 DEF MayFail, InOrder, Begun
<1>8. ASSUME NEW t \in Ready(st) PROVE FALSE
  <2>1. /\ t \in Tasks /\ ~Hidden(t) /\ st[t] = "PENDING"
        /\ \A d \in Deps(t) : st[d] = "COMPLETED"
    BY DEF Ready, DepsMet, Hidden
  <2>2. ~Doomed(t) /\ t # f
    BY <1>6, <2>1, TurnComes
  <2>3. Precedes(t, f)
    BY <1>1, <1>2, <1>3, <1>5, <2>1, <2>2 DEF TakeTurns, JavaUndoes
  <2>. QED BY <1>7, <2>1, <2>2, <2>3, DoneBefore
<1>. QED BY <1>8

LEMMA LooksOpened ==
  ASSUME TakeTurns, IInv, NodeInv, InOrder, BrokersTell, NEW c \in Consumers,
         BrokerLooks(c), UNCHANGED <<gateVars, workerVars>>, Opened
  PROVE  Opened'
<1>1. /\ st' = st /\ BrokerTypeOK
      /\ \A d \in Consumers \ {c} : BrokerSame(d)
  BY LooksOnly, LooksKeep DEF IInv, TypeOK
<1>2. ASSUME jpc[c] # "idle", ~Hidden(Own(c)) PROVE st[Own(c)] = "COMPLETED"
  BY <1>2, OwnTurn DEF Opened, Told
<1>3. /\ jpc[c] \notin {"trigger", "publish"}
      /\ jpc[c] \in {"run", "exec", "complete", "readwf", "readtasks"} =>
           Hidden(Own(c))
  BY DEF Opened
<1>4. /\ jpc'[c] \notin {"trigger", "publish"}
      /\ jpc'[c] \in {"run", "exec", "complete", "readwf", "readtasks"} =>
           Hidden(Own(c)')
  <2>1. CASE \/ BrokerDeliver(c) \/ BrokerLock(c) \/ BrokerLockTimeout(c)
             \/ BrokerFinish(c) \/ BrokerSaveWorkflow(c)
    <3>1. jpc'[c] \in {"lock", "check", "finish", "idle"}
      BY <1>1, <2>1 DEF BrokerDeliver, BrokerLock, BrokerLockTimeout, BrokerFinish,
         BrokerSaveWorkflow, Reset, Goto, BrokerTypeOK
    <3>. QED BY <3>1
  <2>2. CASE BrokerCheck(c)
    <3>1. /\ jpc[c] = "check" /\ Own(c)' = Own(c)
          /\ \/ jpc'[c] = "run" /\ st[Own(c)] # "COMPLETED"
             \/ jpc'[c] = "finish"
      BY <1>1, <2>2 DEF BrokerCheck, Goto, BrokerTypeOK, Terminal, delivery, Own
    <3>. QED BY <1>2, <3>1 DEF Hidden
  <2>3. CASE BrokerMarkRunning(c) \/ BrokerReadWorkflow(c)
    <3>1. /\ jpc[c] \in {"run", "readwf"} /\ jpc'[c] \in {"exec", "readtasks"}
          /\ Own(c)' = Own(c)
      BY <1>1, <2>3 DEF BrokerMarkRunning, BrokerReadWorkflow, Goto, BrokerTypeOK,
         delivery, Own
    <3>. QED BY <1>3, <3>1 DEF Hidden
  <2>4. CASE BrokerReadTasks(c)
    <3>1. jpc[c] = "readtasks"
      BY <2>4 DEF BrokerReadTasks
    <3>2. Ready(st) = {}
      BY <1>3, <3>1, NothingLeft
    <3>3. jpc'[c] \in {"finish", "savewf"}
      BY <1>1, <2>4, <3>2 DEF BrokerReadTasks, Goto, BrokerTypeOK
    <3>. QED BY <3>3
  <2>5. CASE BrokerRedeliver(c)
    <3>1. jpc'[c] = jpc[c] /\ Own(c)' = Own(c)
      BY <2>5 DEF BrokerRedeliver, Own
    <3>. QED BY <1>3, <3>1 DEF Hidden
  <2>. QED BY <2>1, <2>2, <2>3, <2>4, <2>5 DEF BrokerLooks
<1>. QED BY <1>1, <1>4, OpenedStays

---------------------------------------------------------------------------
(* A broker acts: it executes, completes, triggers or publishes. *)

\* What the brokers execute cannot be turned down.
LEMMA NoRefusal ==
  ASSUME TakeTurns, IInv, NodeInv, InOrder, BrokersTell, NEW c \in Consumers,
         jpc[c] # "idle"
  PROVE  /\ ~CanBeRefused(jmsg[c])
         /\ ~Hidden(Own(c)) => Dag[Own(c)].chaos = "none"
<1>1. /\ Own(c) \in Tasks /\ Shaped(jmsg[c]) /\ Dag[Own(c)].worker = "java"
      /\ ~Hidden(Own(c)) => Own(c) \in Leading
  BY JavaHands, OwnTurn
<1>2. CASE jmsg[c] = TaskMessage(Own(c)) /\ ~Hidden(Own(c))
  <2>1. Own(c) \in Leading /\ jmsg[c].task = Own(c) /\ jmsg[c].input = Own(c)
    BY <1>1, <1>2 DEF TaskMessage
  <2>2. /\ Dag[Own(c)].chaos = "none" /\ ~Dag[Own(c)].refusable
        /\ Dag[Own(c)].key # "cancel_order"
    BY <2>1 DEF TakeTurns, JavaLeads
  <2>. QED BY <2>1, <2>2 DEF CanBeRefused
<1>3. ASSUME NEW o \in Tasks, Comp(o) # NoTask, HasRun(o), ~Hidden(o),
             jmsg[c] = WorkerCompensation(o)
      PROVE  ~CanBeRefused(jmsg[c]) /\ Hidden(Own(c))
  <2>1. jmsg[c].task = Comp(o) /\ jmsg[c].input = o /\ Own(c) = Comp(o)
    BY <1>3 DEF WorkerCompensation, Own
  <2>2. /\ Hidden(Comp(o)) /\ Dag[o].chaos = "none" /\ ~Dag[o].refusable
        /\ Dag[Comp(o)].key = "cancel_order" => Dag[o].key = "create_order"
    BY <1>1, <1>3, <2>1 DEF TakeTurns, JavaUndoes, NodeInv, RowsTell
  <2>3. Dag[Comp(o)].key = "cancel_order" => OrderExists
    BY <1>3, <2>2 DEF OrderExists, HasRun
  <2>. QED BY <2>1, <2>2, <2>3 DEF CanBeRefused
<1>. QED BY <1>1, <1>2, <1>3 DEF Shaped, Own

\* It executes or completes the task in its hands.
LEMMA WorkKeeps ==
  ASSUME TakeTurns, IInv, NodeInv, InOrder, BrokersTell, NEW c \in Consumers,
         BrokerExecute(c) \/ BrokerComplete(c), UNCHANGED <<gateVars, workerVars>>
  PROVE  /\ NodeInv' /\ InOrder' /\ BrokersTell'
         /\ st[Own(c)] = "RUNNING" /\ jpc[c] \in {"exec", "complete"}
         /\ jpc'[c] \in {"complete", "readwf"} /\ Own(c)' = Own(c)
         /\ rlock[Own(c)] = c /\ Own(c) \in Tasks
         /\ \A t \in Tasks : t # Own(c) => st'[t] = st[t] /\ runs'[t] = runs[t]
         /\ st'[Own(c)] \in {"RUNNING", "COMPLETED"}
         /\ jpc'[c] = "complete" <=> st' = st
         /\ jpc'[c] = "readwf" => st'[Own(c)] = "COMPLETED"
         /\ \A t : Unheard(t) => Unheard(t)'
         /\ \A d \in Consumers \ {c} : BrokerSame(d)
         /\ UNCHANGED <<queue, faulted, wf>>
<1>1. /\ TypeOK /\ BrokerTypeOK /\ st \in [Tasks -> Status]
      /\ runs \in [Tasks -> 0 .. 2] /\ BrokerStep(c)
  BY DEF IInv, TypeOK, StoreTypeOK, BrokerStep
<1>0. PICK v : v = Own(c)
  OBVIOUS
<1>2. /\ jpc[c] \in {"exec", "complete"}
      /\ UNCHANGED <<queue, txLocks, wf, faulted, jmsg, rlock>>
      /\ Own(c)' = v
      /\ jpc[c] = "exec" => /\ st' = st /\ Ran(v) /\ jpc'[c] = "complete"
      /\ jpc[c] = "complete" => /\ st' = [st EXCEPT ![v] = "COMPLETED"]
                                /\ runs' = runs /\ jpc'[c] = "readwf"
  BY <1>0, <1>1 DEF BrokerExecute, BrokerComplete, SaveTask, Goto, BrokerTypeOK, delivery, Own
<1>3. /\ v \in Tasks /\ gpc # "ready" /\ Shaped(jmsg[c]) /\ jmsg[c].queue = "java"
      /\ ~AtGate(v) /\ ~Posted(v) /\ \A n \in Nodes : ~Holds(n, v)
      /\ ~Hidden(v) => Dag[v].chaos = "none"
  BY <1>0, <1>2, JavaHands, NoRefusal
<1>4. /\ st[v] = "RUNNING" /\ rlock[v] = c
      /\ jpc[c] = "exec" => ~HasRun(v)
  BY <1>0, <1>2 DEF BrokersTell, BrokerTells, Resting
<1>5. ~InTx(v) /\ \A n \in Nodes : ~Listed(n, v)
  BY <1>3, <1>4, JavaApart
<1>6. \A t \in Tasks : t # v => st'[t] = st[t] /\ runs'[t] = runs[t]
  BY <1>1, <1>2 DEF Ran
<1>7. /\ runs'[v] <= 1
      /\ jpc[c] = "exec" => st'[v] = "RUNNING"
      /\ jpc[c] = "complete" => st'[v] = "COMPLETED"
  <2>1. CASE jpc[c] = "exec"
    <3>1. runs[v] = 0
      BY <1>1, <1>3, <1>4, <2>1 DEF HasRun
    <3>. QED BY <1>1, <1>2, <1>3, <1>4, <2>1, <3>1 DEF Ran
  <2>2. CASE jpc[c] = "complete"
    BY <1>1, <1>2, <1>3, <2>2 DEF NodeInv, RowsTell
  <2>. QED BY <1>2, <2>1, <2>2
<1>8. \A d \in Consumers \ {c} : BrokerSame(d)
  BY <1>1, BrokerAlone
<1>9. Mono
  BY <1>1, BrokerMono
<1>10. NodeInv'
  <2>1. \A d \in Consumers :
          jpc[d] = "complete" /\ Own(d) # v => jpc'[d] = "complete" /\ Own(d)' = Own(d)
    BY <1>0, <1>8 DEF BrokerSame, Own
  <2>2. HasRun(v)' =>
           /\ ~Hidden(v) => Dag[v].chaos = "none"
           /\ \/ st'[v] = "COMPLETED"
              \/ /\ st'[v] = "RUNNING"
                 /\ \E d \in Consumers : jpc'[d] = "complete" /\ Own(d)' = v
    BY <1>2, <1>3, <1>7
  <2>3. queue'["node"] = queue["node"]
    BY <1>2
  <2>. QED BY <1>1, <1>2, <1>3, <1>4, <1>5, <1>6, <1>7, <1>9, <2>1, <2>2, <2>3, JavaNode
<1>11. InOrder'
  <2>1. \A t \in Tasks : Begun(t)' => Begun(t)
    BY <1>4, <1>6 DEF Begun, InTx, Listed, workerVars, callbackVars, txData
  <2>2. \A t \in Tasks : st[t] = "COMPLETED" => st'[t] = "COMPLETED"
    BY <1>4, <1>6
  <2>. QED BY <2>1, <2>2, OrderStep
<1>12. BrokersTell'
  <2>1. Told(v)'
    BY <1>2, <1>7 DEF Told
  <2>2. BrokerTells(c)'
    <3>1. PICK m : m = jmsg[c] /\ jmsg'[c] = m /\ m.task = v
      BY <1>0, <1>2 DEF Own
    <3>2. Shaped(m)'
      BY <1>3, <1>9, <3>1, ShapedMono
    <3>3. Shaped(jmsg[c])' /\ Told(Own(c))'
      BY <1>2, <2>1, <3>1, <3>2 DEF Told, InTx
    <3>. QED BY <1>2, <1>3, <1>4, <1>7, <3>1, <3>3
             DEF BrokerTells, Resting, FailurePoints, Progress
  <2>3. \A t \in Tasks : \/ st'[t] = st[t]
                         \/ t = Own(c) /\ rlock[t] = c /\ st'[t] = "COMPLETED"
    BY <1>0, <1>2, <1>4, <1>6, <1>7
  <2>4. \A t \in Tasks : runs'[t] = runs[t] \/ (t = Own(c) /\ rlock[t] = c)
    BY <1>0, <1>4, <1>6
  <2>5. Waiting("java")' = Waiting("java")
    BY <1>2 DEF Waiting
  <2>6. ~AtGate(Own(c)')
    BY <1>2, <1>3
  <2>. QED BY <1>1, <1>9, <2>2, <2>3, <2>4, <2>5, <2>6, BrokersGoOn
<1>13. ASSUME NEW t, Unheard(t) PROVE Unheard(t)'
  <2>1. Waiting("java")' = Waiting("java")
    BY <1>2 DEF Waiting
  <2>2. \A d \in Consumers : jpc'[d] # "idle" => Own(d)' # t
    BY <1>0, <1>2, <1>8, <1>13 DEF Unheard, BrokerSame, Own
  <2>. QED BY <1>13, <2>1, <2>2 DEF Unheard
<1>14. jpc'[c] = "complete" <=> st' = st
  BY <1>2, <1>4, <1>7
<1>. QED BY <1>0, <1>2, <1>3, <1>4, <1>6, <1>7, <1>8, <1>10, <1>11, <1>12, <1>13, <1>14

LEMMA WorkTurns ==
  ASSUME TakeTurns, IInv, TurnsInv, NEW c \in Consumers,
         BrokerExecute(c) \/ BrokerComplete(c), UNCHANGED <<gateVars, workerVars>>
  PROVE  Turns'
<1>. NodeInv /\ InOrder /\ BrokersTell /\ Turns
  BY DEF TurnsInv
<1>1. /\ st[Own(c)] = "RUNNING" /\ jpc[c] \in {"exec", "complete"}
      /\ jpc'[c] \in {"complete", "readwf"} /\ Own(c)' = Own(c)
      /\ rlock[Own(c)] = c /\ Own(c) \in Tasks
      /\ \A t \in Tasks : t # Own(c) => st'[t] = st[t] /\ runs'[t] = runs[t]
      /\ jpc'[c] = "complete" <=> st' = st
      /\ jpc'[c] = "readwf" => st'[Own(c)] = "COMPLETED"
      /\ \A t : Unheard(t) => Unheard(t)'
      /\ \A d \in Consumers \ {c} : BrokerSame(d)
      /\ UNCHANGED <<queue, faulted>>
  BY WorkKeeps
<1>2. gpc # "ready" /\ Waiting("node")' = Waiting("node")
  BY <1>1, JavaHands DEF Waiting
<1>3. CASE Opened
  <2>1. Hidden(Own(c))
    BY <1>1, <1>3 DEF Opened
  <2>2. \A t \in Leading : st'[t] = st[t]
    BY <1>1, <2>1 DEF Leading
  <2>3. Opened'
    BY <1>1, <1>3, <2>1, <2>2, OpenedStays DEF Hidden
  <2>. QED BY <2>3 DEF Turns
<1>4. ASSUME NEW a \in Leading, Opening(a) PROVE Turns'
  <2>1. a \in Tasks /\ ~Waits(c) /\ jpc[c] \notin Progress
    BY <1>1 DEF Leading, Waits, Resting, Progress
  <2>2. /\ st[a] = "RUNNING" /\ Own(c) = a
        /\ \A d \in Consumers :
             Waits(d) \/ (Own(d) = a /\ jpc[d] \in {"run", "exec", "complete"})
    BY <1>4, <2>1 DEF Opening
  <2>3. \A t \in Tasks : HasRun(t)' => HasRun(t) \/ t = a
    BY <1>1, <2>2 DEF HasRun
  <2>4. CASE jpc'[c] = "complete"
    <3>1. Opening(a)'
      BY <1>1, <1>2, <1>4, <2>1, <2>2, <2>3, <2>4, OpeningStays
    <3>. QED BY <3>1 DEF Turns
  <2>5. CASE jpc'[c] = "readwf"
    <3>1. \A d \in Consumers \ {c} : Waits(d)'
      <4>. SUFFICES ASSUME NEW d \in Consumers \ {c} PROVE Waits(d)
        BY <1>1 DEF BrokerSame, Waits
      <4>1. Own(d) = a /\ jpc[d] \in {"run", "exec", "complete"} => rlock[a] = d
        BY DEF BrokersTell, BrokerTells, Resting
      <4>. QED BY <1>1, <2>2, <4>1
    <3>2. /\ Own(c)' = a /\ jpc'[c] \in Progress /\ HandsOn(c)'
          /\ st'[a] = "COMPLETED"
      BY <1>1, <2>2, <2>5 DEF Progress, HandsOn
    <3>3. /\ faulted' = {} /\ \A n \in Nodes : npc'[n] = "idle"
          /\ Waiting("node")' = {} /\ \A m \in gtodo' : m.task = a
      BY <1>1, <1>2, <1>4 DEF Opening, gateVars, workerVars, callbackVars
    <3>4. ASSUME NEW t \in Tasks \ {a}
          PROVE  \/ Hidden(t)
                 \/ st'[t] = "PENDING"
                 \/ st'[t] = "COMPLETED" /\ t \in Leading
      <4>1. \A d \in Consumers : jpc[d] # "publish"
        BY <2>2 DEF Waits, Resting
      <4>2. Hidden(t) \/ st[t] = "PENDING" \/ (st[t] = "COMPLETED" /\ t \in Leading)
        BY <1>4, <4>1 DEF Opening
      <4>. QED BY <1>1, <2>2, <4>2
    <3>5. Opening(a)'
      BY <3>1, <3>2, <3>3, <3>4 DEF Opening
    <3>. QED BY <3>5 DEF Turns
  <2>. QED BY <1>1, <2>4, <2>5
<1>. QED BY <1>2, <1>3, <1>4 DEF Turns

\* The thread that progresses the DAG is alone.
LEMMA ProgressAlone ==
  ASSUME TakeTurns, IInv, TurnsInv, NEW c \in Consumers,
         jpc[c] \in {"trigger", "publish"}, NEW a \in Leading, Opening(a)
  PROVE  /\ NodeInv /\ InOrder /\ BrokersTell /\ a \in Tasks /\ ~Hidden(a)
         /\ faulted = {} /\ \A n \in Nodes : npc[n] = "idle"
         /\ Waiting("node") = {} /\ gtodo = {}
         /\ st[a] = "COMPLETED" /\ Own(c) = a /\ HandsOn(c)
         /\ \A d \in Consumers \ {c} : Waits(d)
         /\ \A t \in Tasks \ {a} :
              \/ Hidden(t)
              \/ st[t] = "PENDING"
              \/ st[t] = "COMPLETED" /\ t \in Leading
              \/ jpc[c] = "publish" /\ jcur[c].task = t
         /\ \A n \in Nodes : \A t : ~Holds(n, t) /\ ~Listed(n, t)
         /\ \A t : ~InTx(t) /\ ~Posted(t) /\ ~AtGate(t)
<1>1. NodeInv /\ InOrder /\ BrokersTell
  BY DEF TurnsInv
<1>2. /\ faulted = {} /\ \A n \in Nodes : npc[n] = "idle"
      /\ Waiting("node") = {} /\ \A m \in gtodo : m.task = a
      /\ a \in Tasks /\ ~Hidden(a)
  BY DEF Opening, Leading
<1>3. ~Waits(c)
  BY DEF Waits, Resting
<1>4. /\ st[a] = "COMPLETED" /\ Own(c) = a /\ HandsOn(c)
      /\ \A d \in Consumers \ {c} : Waits(d)
  BY <1>3 DEF Opening
<1>5. \A d \in Consumers : jpc[d] = "publish" => d = c
  BY <1>4 DEF Waits, Resting
<1>6. \A t \in Tasks \ {a} :
              \/ Hidden(t)
              \/ st[t] = "PENDING"
              \/ st[t] = "COMPLETED" /\ t \in Leading
              \/ jpc[c] = "publish" /\ jcur[c].task = t
  BY <1>5 DEF Opening
<1>7. gtodo = {}
  <2>. SUFFICES ASSUME NEW m \in gtodo PROVE FALSE
    OBVIOUS
  <2>1. AtGate(a)
    BY <1>2 DEF AtGate
  <2>. QED BY <1>1, <1>2, <1>4, <2>1 DEF NodeInv, RowsTell
<1>8. \A n \in Nodes : \A t : ~Holds(n, t) /\ ~Listed(n, t)
  BY <1>1, <1>2 DEF Holds, Listed, NodeInv, OneTransaction, Transaction
<1>9. \A t : ~InTx(t) /\ ~Posted(t) /\ ~AtGate(t)
  BY <1>2, <1>7 DEF InTx, Posted, AtGate
<1>. QED BY <1>1, <1>2, <1>4, <1>6, <1>7, <1>8, <1>9

LEMMA TriggerTurns ==
  ASSUME TakeTurns, IInv, TurnsInv, NEW c \in Consumers,
         BrokerTrigger(c), UNCHANGED <<gateVars, workerVars>>,
         NEW a \in Leading, Opening(a)
  PROVE  /\ TurnsInv'
         /\ \A t \in Tasks :
              st'[t] = st[t] \/ (st[t] = "PENDING" /\ st'[t] = "RUNNING")
<1>1. /\ TypeOK /\ BrokerTypeOK /\ st \in [Tasks -> Status]
      /\ BrokerStep(c) /\ jpc[c] = "trigger"
  BY DEF IInv, TypeOK, StoreTypeOK, BrokerStep, BrokerTrigger
<1>2. /\ NodeInv /\ InOrder /\ BrokersTell /\ a \in Tasks /\ ~Hidden(a)
      /\ faulted = {} /\ \A n \in Nodes : npc[n] = "idle"
      /\ Waiting("node") = {} /\ gtodo = {}
      /\ st[a] = "COMPLETED" /\ Own(c) = a /\ HandsOn(c)
      /\ \A d \in Consumers \ {c} : Waits(d)
      /\ \A t \in Tasks \ {a} :
           \/ Hidden(t)
           \/ st[t] = "PENDING"
           \/ st[t] = "COMPLETED" /\ t \in Leading
           \/ jpc[c] = "publish" /\ jcur[c].task = t
      /\ \A n \in Nodes : \A t : ~Holds(n, t) /\ ~Listed(n, t)
      /\ \A t : ~InTx(t) /\ ~Posted(t) /\ ~AtGate(t)
  BY <1>1, ProgressAlone
<1>3. PICK u \in Ready(st) : jtodo[c] = {TaskMessage(u)}
  BY <1>1, <1>2 DEF HandsOn
<1>4. /\ u \in Tasks /\ st[u] = "PENDING" /\ ~Hidden(u)
      /\ \A d \in Deps(u) : st[d] = "COMPLETED"
  BY DEF Ready, DepsMet, Hidden
<1>5. /\ st' = [st EXCEPT ![u] = "RUNNING"]
      /\ jcur'[c] = TaskMessage(u) /\ jtodo'[c] = {} /\ jpc'[c] = "publish"
      /\ UNCHANGED <<queue, txLocks, runs, faulted, jmsg, rlock>>
      /\ Own(c)' = a
  <2>1. PICK m \in jtodo[c] :
          /\ SaveTask(m.task, "RUNNING")
          /\ jcur' = [jcur EXCEPT ![c] = m]
          /\ jtodo' = [jtodo EXCEPT ![c] = @ \ {m}]
    BY DEF BrokerTrigger
  <2>2. m = TaskMessage(u) /\ m.task = u
    BY <1>3 DEF TaskMessage
  <2>3. st' = [st EXCEPT ![u] = "RUNNING"]
    BY <2>1, <2>2 DEF SaveTask
  <2>4. jcur'[c] = TaskMessage(u) /\ jtodo'[c] = {}
    BY <1>1, <1>3, <2>1, <2>2 DEF BrokerTypeOK
  <2>. QED
    BY <1>1, <1>2, <2>3, <2>4 DEF BrokerTrigger, Goto, BrokerTypeOK, delivery, Own
<1>6. /\ st'[u] = "RUNNING" /\ \A t \in Tasks : t # u => st'[t] = st[t]
      /\ a # u /\ st'[a] = "COMPLETED"
  BY <1>1, <1>2, <1>4, <1>5
<1>7. ~HasRun(u) /\ \A t : HasRun(t)' <=> HasRun(t)
  BY <1>2, <1>4, <1>5 DEF NodeInv, RowsTell, HasRun
<1>8. gpc # "ready"
  BY <1>1, <1>2, JavaHands
<1>9. \A d \in Consumers \ {c} : BrokerSame(d)
  BY <1>1, BrokerAlone
<1>10. Mono
  BY <1>1, BrokerMono
<1>11. NodeInv'
  <2>1. \A d \in Consumers :
          jpc[d] = "complete" => jpc'[d] = "complete" /\ Own(d)' = Own(d)
    BY <1>1, <1>9 DEF BrokerSame, Own
  <2>2. runs'[u] <= 1 /\ ~HasRun(u)'
    BY <1>2, <1>4, <1>5, <1>7 DEF NodeInv, RowsTell
  <2>. QED
    BY <1>1, <1>2, <1>4, <1>5, <1>6, <1>8, <1>10, <2>1, <2>2, JavaNode
<1>12. InOrder'
  <2>1. \A t \in Tasks : Begun(t)' => Begun(t) \/ t = u
    BY <1>6 DEF Begun, InTx, Listed, workerVars, callbackVars, txData
  <2>2. \A t \in Tasks : st[t] = "COMPLETED" => st'[t] = "COMPLETED"
    BY <1>4, <1>6
  <2>. QED BY <1>2, <1>4, <2>1, <2>2, OrderStep
<1>13. BrokersTell'
  <2>1. BrokerTells(c)'
    <3>1. PICK m : m = jmsg[c] /\ jmsg'[c] = m /\ m.task = a
      BY <1>2, <1>5 DEF Own
    <3>2. BrokerTells(c)
      BY <1>2 DEF BrokersTell
    <3>3. Shaped(m)' /\ m.queue = "java" /\ rlock[a] = c
      BY <1>1, <1>2, <1>10, <3>1, <3>2, ShapedMono DEF BrokerTells, Resting
    <3>4. Shaped(jmsg[c])' /\ Told(Own(c))'
      BY <1>5, <1>6, <3>1, <3>3 DEF Told
    <3>. QED BY <1>5, <1>6, <3>1, <3>3, <3>4
             DEF BrokerTells, Resting, FailurePoints, Progress
  <2>2. \A t \in Tasks : \/ st'[t] = st[t]
                         \/ st[t] = "PENDING" /\ ~InTx(t)
    BY <1>2, <1>4, <1>6
  <2>3. \A t \in Tasks : runs'[t] = runs[t]
    BY <1>5
  <2>4. Waiting("java")' = Waiting("java")
    BY <1>5 DEF Waiting
  <2>. QED BY <1>1, <1>2, <1>5, <1>10, <2>1, <2>2, <2>3, <2>4, BrokersGoOn
<1>14. Unheard(u)'
  <2>1. ~Told(u)
    BY <1>2, <1>4 DEF Told
  <2>2. \A m \in Waiting("java")' : m.task # u
    BY <1>2, <1>5, <2>1 DEF BrokersTell, Waiting
  <2>3. \A d \in Consumers : jpc'[d] # "idle" => Own(d)' # u
    BY <1>2, <1>5, <1>6, <1>9, <2>1 DEF BrokersTell, BrokerTells, BrokerSame, Own
  <2>. QED BY <2>2, <2>3 DEF Unheard
<1>15. HandsOn(c)'
  <2>1. ~HasRun(u)' /\ ~Hidden(u)
    BY <1>4, <1>7
  <2>. QED BY <1>4, <1>5, <1>6, <1>14, <2>1 DEF HandsOn
<1>16. Opening(a)'
  <2>1. /\ faulted' = {} /\ \A n \in Nodes : npc'[n] = "idle"
        /\ Waiting("node")' = {} /\ gtodo' = {}
    BY <1>2, <1>5 DEF gateVars, workerVars, callbackVars, Waiting
  <2>2. \A t \in Tasks \ {a} :
           \/ Hidden(t)
           \/ st'[t] = "PENDING"
           \/ st'[t] = "COMPLETED" /\ t \in Leading
           \/ jpc'[c] = "publish" /\ jcur'[c].task = t
    <3>1. jcur'[c].task = u
      BY <1>5 DEF TaskMessage
    <3>. QED BY <1>1, <1>2, <1>5, <1>6, <3>1
  <2>3. \A d \in Consumers \ {c} : Waits(d)'
    BY <1>2, <1>9 DEF BrokerSame, Waits
  <2>4. jpc'[c] \in Progress
    BY <1>5 DEF Progress
  <2>. QED BY <1>5, <1>6, <1>15, <2>1, <2>2, <2>3, <2>4 DEF Opening
<1>17. \A t \in Tasks :
              st'[t] = st[t] \/ (st[t] = "PENDING" /\ st'[t] = "RUNNING")
  BY <1>4, <1>6
<1>. QED BY <1>11, <1>12, <1>13, <1>16, <1>17 DEF TurnsInv, Turns

\* A message for a pod joins the queue; nothing else was with the pods.
LEMMA PostNode ==
  ASSUME IInv, NodeInv, Mono, UNCHANGED <<st, runs, txLocks, gateVars, workerVars>>,
         NEW u \in Tasks, ~Hidden(u), st[u] = "RUNNING", ~HasRun(u),
         ~AtGate(u), ~Posted(u), \A n \in Nodes : ~Holds(n, u) /\ ~Listed(n, u),
         NEW m \in Message, m = TaskMessage(u), m.queue = "node", Send(m),
         \A c \in Consumers :
           jpc[c] = "complete" => jpc'[c] = "complete" /\ Own(c)' = Own(c)
  PROVE  NodeInv'
<1>1. UNCHANGED <<npc, nmsg, nsaga, ntodo, nrows, link, gpc, gtodo>>
  BY DEF gateVars, workerVars, callbackVars, txData
<1>2. /\ \A n \in Nodes : \A t : /\ Holds(n, t)' <=> Holds(n, t)
                                 /\ Listed(n, t)' <=> Listed(n, t)
      /\ \A t : InTx(t)' <=> InTx(t)
      /\ \A t : AtGate(t)' <=> AtGate(t)
      /\ \A t : HasRun(t)' <=> HasRun(t)
      /\ \A n : Mine(n)' = Mine(n)
  BY <1>1 DEF Holds, Listed, InTx, AtGate, HasRun, Mine
<1>3. m.task = u /\ Shaped(m)
  BY DEF TaskMessage, Shaped
<1>4. /\ NoTwins' /\ Waiting("node")' = Waiting("node") \cup {m}
      /\ \A t : Posted(t)' <=> Posted(t) \/ t = u
  BY <1>3, NodeSend DEF NodeInv, IInv, TypeOK, StoreTypeOK
<1>5. PodsOpen'
  BY <1>1 DEF NodeInv, PodsOpen
<1>6. AllShaped'
  <2>1. \A x : Shaped(x) => Shaped(x)'
    BY ShapedMono
  <2>2. ASSUME NEW n \in Nodes, npc'[n] # "idle" PROVE Shaped(nmsg[n])'
    <3>1. PICK x : x = nmsg[n] /\ nmsg'[n] = x
      BY <1>1
    <3>2. Shaped(x)'
      BY <1>1, <2>1, <2>2, <3>1 DEF NodeInv, AllShaped
    <3>. QED BY <3>1, <3>2
  <2>. QED BY <1>1, <1>3, <1>4, <2>1, <2>2 DEF NodeInv, AllShaped
<1>7. OneMessage'
  BY <1>2, <1>4 DEF NodeInv, OneMessage
<1>8. OneTransaction'
  <2>1. \A n \in Nodes : Transaction(n)'
    BY <1>1, <1>2 DEF NodeInv, OneTransaction, Transaction
  <2>. QED BY <1>1, <2>1 DEF NodeInv, OneTransaction
<1>9. RowsTell'
  BY <1>1, <1>2, <1>4 DEF NodeInv, RowsTell
<1>10. HandsTell'
  BY <1>1 DEF NodeInv, HandsTell, HandTells, InTx, HasRun, Mine
<1>11. HandledOnce'
  <2>1. ASSUME NEW t \in Tasks, Touched(t)', Hidden(t) PROVE Touched(t)
    BY <1>1, <1>2, <1>4, <2>1 DEF Touched
  <2>2. ASSUME NEW f \in Tasks, Handled(f) PROVE Handled(f)'
    BY <1>1, <1>2, <2>2 DEF Handled
  <2>. QED BY <2>1, <2>2 DEF NodeInv, HandledOnce
<1>. QED BY <1>4, <1>5, <1>6, <1>7, <1>8, <1>9, <1>10, <1>11 DEF NodeInv

LEMMA PublishTurns ==
  ASSUME TakeTurns, IInv, TurnsInv, NEW c \in Consumers,
         BrokerPublish(c), UNCHANGED <<gateVars, workerVars>>,
         NEW a \in Leading, Opening(a)
  PROVE  TurnsInv' /\ st' = st
<1>1. /\ TypeOK /\ BrokerTypeOK /\ queue \in [Queues -> Seq(Message)]
      /\ BrokerStep(c) /\ jpc[c] = "publish" /\ Send(jcur[c])
      /\ UNCHANGED <<st, runs, txLocks, faulted, jmsg, rlock, jtodo>>
  BY DEF IInv, TypeOK, StoreTypeOK, BrokerStep, BrokerPublish, delivery
<1>2. /\ NodeInv /\ InOrder /\ BrokersTell /\ a \in Tasks /\ ~Hidden(a)
      /\ faulted = {} /\ \A n \in Nodes : npc[n] = "idle"
      /\ Waiting("node") = {} /\ gtodo = {}
      /\ st[a] = "COMPLETED" /\ Own(c) = a /\ HandsOn(c)
      /\ \A d \in Consumers \ {c} : Waits(d)
      /\ \A t \in Tasks \ {a} :
           \/ Hidden(t)
           \/ st[t] = "PENDING"
           \/ st[t] = "COMPLETED" /\ t \in Leading
           \/ jpc[c] = "publish" /\ jcur[c].task = t
      /\ \A n \in Nodes : \A t : ~Holds(n, t) /\ ~Listed(n, t)
      /\ \A t : ~InTx(t) /\ ~Posted(t) /\ ~AtGate(t)
  BY <1>1, ProgressAlone
<1>3. PICK u \in Tasks :
        /\ jtodo[c] = {} /\ jcur[c] = TaskMessage(u) /\ ~Hidden(u)
        /\ st[u] = "RUNNING" /\ ~HasRun(u) /\ Unheard(u)
  BY <1>1, <1>2 DEF HandsOn
<1>4. PICK m : m = jcur[c]
  OBVIOUS
<1>5. /\ m = TaskMessage(u) /\ m.task = u /\ m.queue = Dag[u].worker
      /\ Shaped(m) /\ Send(m) /\ u # a
      /\ m \in Message /\ m.queue \in Queues
  <2>1. m \in Message
    BY <1>1, <1>4 DEF IInv, InvBroker, BrokerOK, Good
  <2>. QED BY <1>1, <1>2, <1>3, <1>4, <2>1 DEF TaskMessage, Shaped, TakeTurns
<1>6. /\ jpc'[c] = "finish" /\ Own(c)' = a
      /\ \A d \in Consumers \ {c} : BrokerSame(d)
      /\ Mono /\ gpc # "ready"
  BY <1>1, <1>2, <1>3, BrokerAlone, BrokerMono, JavaHands
     DEF BrokerPublish, Goto, BrokerTypeOK, Own
<1>7. /\ \A d \in Deps(u) : st[d] = "COMPLETED"
      /\ \A t : HasRun(t)' <=> HasRun(t)
      /\ \A t : Told(t)' <=> Told(t)
  BY <1>1, <1>2, <1>3
     DEF InOrder, Begun, HasRun, Told, InTx, workerVars, callbackVars, txData
<1>8. \A d \in Consumers :
        jpc[d] = "complete" => jpc'[d] = "complete" /\ Own(d)' = Own(d)
  BY <1>1, <1>6 DEF BrokerSame, Own
<1>9. \A d \in Consumers : jpc'[d] \in Resting \cup {"check"}
  BY <1>2, <1>6 DEF BrokerSame, Waits, Resting
<1>10. InOrder'
  <2>1. \A t \in Tasks : Begun(t)' => Begun(t)
    BY <1>1 DEF Begun, InTx, Listed, workerVars, callbackVars, txData
  <2>. QED BY <1>1, <1>2, <2>1, OrderStep
<1>11. ASSUME Waiting("java")' \subseteq
                Waiting("java") \cup (IF m.queue = "java" THEN {m} ELSE {})
       PROVE  BrokersTell'
  <2>1. BrokerTells(c)'
    <3>1. PICK x : x = jmsg[c] /\ jmsg'[c] = x /\ x.task = a
      BY <1>1, <1>2 DEF Own
    <3>2. Shaped(x)' /\ x.queue = "java"
      BY <1>1, <1>2, <1>6, <3>1, ShapedMono DEF BrokersTell, BrokerTells
    <3>3. Shaped(jmsg[c])' /\ Told(Own(c))'
      BY <1>1, <1>2, <1>6, <3>1, <3>2 DEF Told
    <3>. QED BY <1>6, <3>1, <3>2, <3>3
             DEF BrokerTells, Resting, FailurePoints, Progress
  <2>2. Told(u)
    BY <1>3 DEF Told
  <2>. QED BY <1>1, <1>2, <1>5, <1>6, <1>7, <1>11, <2>1, <2>2, BrokersGoOn
<1>12. CASE m.queue = "java"
  <2>1. /\ queue'["node"] = queue["node"]
        /\ Waiting("java")' = Waiting("java") \cup {m}
    BY <1>1, <1>5, <1>12, JavaSend
  <2>2. NodeInv' /\ BrokersTell'
    BY <1>1, <1>2, <1>8, <1>11, <1>12, <2>1, StutterNode
  <2>3. u \in Leading
    BY <1>2, <1>3, <1>5, <1>7, <1>12, TurnComes
  <2>4. Opening(u)'
    <3>1. /\ faulted' = {} /\ \A n \in Nodes : npc'[n] = "idle"
          /\ Waiting("node")' = {} /\ gtodo' = {} /\ st'[u] = "RUNNING"
      BY <1>1, <1>2, <1>3, <2>1 DEF gateVars, workerVars, callbackVars, Waiting
    <3>2. \A t \in Tasks \ {u} :
             \/ Hidden(t)
             \/ st'[t] = "PENDING"
             \/ st'[t] = "COMPLETED" /\ t \in Leading
      BY <1>1, <1>2, <1>4, <1>5
    <3>3. \A d \in Consumers : Waits(d)'
      BY <1>9 DEF Waits
    <3>. QED BY <3>1, <3>2, <3>3 DEF Opening
  <2>. QED BY <1>1, <1>10, <2>2, <2>3, <2>4 DEF TurnsInv, Turns
<1>13. CASE m.queue = "node"
  <2>1. NodeInv'
    BY <1>1, <1>2, <1>3, <1>5, <1>6, <1>8, <1>13, PostNode
  <2>2. BrokersTell'
    BY <1>1, <1>2, <1>5, <1>11, <1>13, NodeSend DEF NodeInv
  <2>3. \A t \in Tasks : st[t] = "COMPLETED" => t \in Leading
    <3>. SUFFICES ASSUME NEW t \in Tasks \ {a}, st[t] = "COMPLETED"
         PROVE  t \in Leading
      OBVIOUS
    <3>1. ~Hidden(t)
      BY <1>2, HiddenRests DEF Touched
    <3>2. jcur[c].task # t
      BY <1>3, <1>4, <1>5
    <3>. QED BY <1>2, <3>1, <3>2
  <2>4. ASSUME NEW l \in Leading
        PROVE  /\ \/ st'[l] = "COMPLETED"
                  \/ st'[l] = "PENDING" /\ \E d \in Deps(l) : st'[d] # "COMPLETED"
               /\ ~InTx(l)' /\ \A n \in Nodes : ~Listed(n, l)'
    <3>1. l \in Tasks /\ ~Hidden(l) /\ l # u
      BY <1>5, <1>13 DEF Leading
    <3>2. ~InTx(l)' /\ \A n \in Nodes : ~Listed(n, l)'
      BY <1>2 DEF InTx, Listed, workerVars, callbackVars, txData
    <3>3. st[l] = "COMPLETED" \/ st[l] = "PENDING"
      BY <1>2, <1>4, <1>5, <3>1
    <3>4. ASSUME st[l] = "PENDING", \A d \in Deps(l) : st[d] = "COMPLETED"
          PROVE  FALSE
      BY <1>2, <1>3, <1>7, <2>3, <3>1, <3>4, OneTurn
    <3>. QED BY <1>1, <3>2, <3>3, <3>4
  <2>5. Opened'
    <3>1. ASSUME NEW d \in Consumers
          PROVE  /\ jpc'[d] \notin {"trigger", "publish"}
                 /\ jpc'[d] \notin {"run", "exec", "complete", "readwf", "readtasks"}
      BY <1>9 DEF Resting
    <3>. QED BY <2>4, <3>1 DEF Opened
  <2>. QED BY <1>1, <1>10, <2>1, <2>2, <2>5 DEF TurnsInv, Turns
<1>. QED BY <1>5, <1>12, <1>13 DEF Queues

---------------------------------------------------------------------------
(* The turns go on: brokers. *)

\* Rows go one way, and only what may fail fails.
Forward ==
  \A t \in Tasks :
    \/ st'[t] = st[t]
    \/ st[t] = "NONE" /\ st'[t] \in {"PENDING", "RUNNING"}
    \/ st[t] = "PENDING" /\ st'[t] = "RUNNING"
    \/ st[t] = "RUNNING" /\ st'[t] = "COMPLETED"
    \/ st[t] = "RUNNING" /\ st'[t] = "FAILED" /\ MayFail(t)

\* Nothing moves but a lock that no thread needs.
LEMMA RestTurns ==
  ASSUME TakeTurns, IInv, TurnsInv,
         UNCHANGED <<st, queue, txLocks, runs, faulted, jpc, delivery, work,
                     gateVars, workerVars>>,
         \A d \in Consumers :
           jpc[d] \notin Resting /\ rlock[Own(d)] = d => rlock'[Own(d)] = d
  PROVE  TurnsInv' /\ Forward
<1>1. NodeInv /\ InOrder /\ BrokersTell /\ Turns
  BY DEF TurnsInv
<1>2. /\ jmsg' = jmsg /\ jtodo' = jtodo /\ jcur' = jcur /\ gtodo' = gtodo /\ gpc' = gpc
      /\ UNCHANGED <<npc, nmsg, ntodo, nrows>>
      /\ \A c \in Consumers : Own(c)' = Own(c)
      /\ \A q \in Queues : Waiting(q)' = Waiting(q)
  BY DEF delivery, work, gateVars, workerVars, callbackVars, txData, Own, Waiting
<1>3. NodeInv'
  BY <1>1, <1>2, StutterNode
<1>4. /\ \A t : (Told(t)' <=> Told(t)) /\ (HasRun(t)' <=> HasRun(t))
      /\ \A t : (Unheard(t)' <=> Unheard(t)) /\ (InTx(t)' <=> InTx(t))
      /\ \A n \in Nodes : \A t : Listed(n, t)' <=> Listed(n, t)
      /\ \A m : Shaped(m)' <=> Shaped(m)
      /\ \A c \in Consumers : (Waits(c)' <=> Waits(c))
  BY <1>2 DEF Told, InTx, HasRun, Unheard, Listed, Shaped, Waits, Queues
<1>5. InOrder'
  BY <1>1, <1>4 DEF InOrder, Begun
<1>6. ASSUME NEW c \in Consumers PROVE BrokerTells(c)'
  <2>1. BrokerTells(c)
    BY <1>1 DEF BrokersTell
  <2>2. PICK m : m = jmsg[c] /\ jmsg'[c] = m
    BY <1>2
  <2>3. jpc[c] # "idle" => Shaped(m)' /\ Told(m.task)' /\ m.queue = "java"
    BY <1>4, <2>1, <2>2 DEF BrokerTells, Own
  <2>4. jpc[c] # "idle" => Shaped(jmsg[c])' /\ Told(Own(c))'
    BY <2>2, <2>3 DEF Told, InTx, Own
  <2>5. HasRun(Own(c))' <=> HasRun(Own(c))
    BY <1>2 DEF HasRun
  <2>. QED BY <1>2, <2>1, <2>2, <2>3, <2>4, <2>5 DEF BrokerTells
<1>7. BrokersTell'
  <2>1. "java" \in Queues
    BY DEF Queues
  <2>. QED BY <1>1, <1>2, <1>4, <1>6, <2>1 DEF BrokersTell
<1>8. ASSUME NEW c \in Consumers, HandsOn(c) PROVE HandsOn(c)'
  BY <1>2, <1>4, <1>8 DEF HandsOn
<1>9. ASSUME NEW a \in Leading, Opening(a) PROVE Opening(a)'
  <2>1. "node" \in Queues
    BY DEF Queues
  <2>. QED BY <1>2, <1>4, <1>8, <1>9, <2>1 DEF Opening
<1>10. Opened => Opened'
  BY <1>2, <1>4 DEF Opened
<1>11. Turns'
  BY <1>1, <1>2, <1>9, <1>10 DEF Turns
<1>. QED BY <1>3, <1>5, <1>7, <1>11 DEF TurnsInv, Forward

LEMMA LooksTurns ==
  ASSUME TakeTurns, IInv, TurnsInv, NEW c \in Consumers, BrokerLooks(c),
         UNCHANGED <<gateVars, workerVars>>
  PROVE  TurnsInv' /\ Forward
<1>1. NodeInv /\ InOrder /\ BrokersTell /\ Turns
  BY DEF TurnsInv
<1>2. NodeInv' /\ InOrder' /\ BrokersTell' /\ st' = st /\ gpc # "ready"
  BY <1>1, LooksKeep, LooksOnly
<1>3. ASSUME Opened PROVE Turns'
  BY <1>1, <1>3, LooksOpened DEF Turns
<1>4. ASSUME NEW a \in Leading, Opening(a) PROVE Turns'
  BY <1>1, <1>4, LooksOpening
<1>5. Turns'
  BY <1>1, <1>2, <1>3, <1>4 DEF Turns
<1>. QED BY <1>2, <1>5 DEF TurnsInv, Forward

LEMMA BrokerTurns ==
  ASSUME TakeTurns, IInv, TurnsInv, NEW c \in Consumers, BrokerStep(c),
         UNCHANGED <<gateVars, workerVars>>
  PROVE  TurnsInv' /\ Forward
<1>1. NodeInv /\ InOrder /\ BrokersTell /\ Turns
  BY DEF TurnsInv
<1>2. jpc[c] \notin FailurePoints \cup {"rescue"}
  BY <1>1 DEF BrokersTell, BrokerTells
<1>3. jpc[c] # "idle" => ~CanBeRefused(jmsg[c]) /\ gpc # "ready"
  BY <1>1, NoRefusal, JavaHands
<1>4. ~BrokerRefuse(c)
  BY <1>3 DEF BrokerRefuse
<1>5. CASE BrokerExecute(c) \/ BrokerComplete(c)
  <2>1. Turns'
    BY <1>5, WorkTurns
  <2>2. /\ NodeInv' /\ InOrder' /\ BrokersTell' /\ Own(c) \in Tasks
        /\ st[Own(c)] = "RUNNING" /\ st'[Own(c)] \in {"RUNNING", "COMPLETED"}
        /\ \A t \in Tasks : t # Own(c) => st'[t] = st[t]
    BY <1>1, <1>5, WorkKeeps
  <2>3. Forward
    BY <2>2 DEF Forward
  <2>. QED BY <2>1, <2>2, <2>3 DEF TurnsInv
<1>6. CASE BrokerTrigger(c)
  <2>1. jpc[c] = "trigger"
    BY <1>6 DEF BrokerTrigger
  <2>2. PICK a \in Leading : Opening(a)
    BY <1>1, <1>3, <2>1 DEF Turns, Opened
  <2>. QED BY <1>6, <2>2, TriggerTurns DEF Forward
<1>7. CASE BrokerPublish(c)
  <2>1. jpc[c] = "publish"
    BY <1>7 DEF BrokerPublish
  <2>2. PICK a \in Leading : Opening(a)
    BY <1>1, <1>3, <2>1 DEF Turns, Opened
  <2>. QED BY <1>7, <2>2, PublishTurns DEF Forward
<1>8. CASE BrokerLooks(c)
  BY <1>8, LooksTurns
<1>. QED
  BY <1>2, <1>4, <1>5, <1>6, <1>7, <1>8
     DEF BrokerStep, BrokerLooks, BrokerFailTask, BrokerFailWorkflow,
         BrokerCompensate, FailurePoints

LEMMA BrokersTurn ==
  ASSUME TakeTurns, IInv, TurnsInv, BrokersMove, UNCHANGED <<gateVars, workerVars>>
  PROVE  TurnsInv' /\ Forward
<1>1. CASE \E c \in Consumers : BrokerStep(c)
  BY <1>1, BrokerTurns
<1>2. ASSUME NEW c \in Consumers, BrokerRedeliver(c) PROVE TurnsInv' /\ Forward
  BY <1>2, LooksTurns DEF BrokerLooks
<1>3. ASSUME NEW t \in Tasks, LockExpire(t) PROVE TurnsInv' /\ Forward
  <2>1. /\ rlock[t] = Orphan /\ rlock' = [rlock EXCEPT ![t] = Free]
        /\ UNCHANGED <<storeVars, jpc, delivery, work>>
        /\ rlock \in [Tasks -> Consumers \cup {Free, Orphan}]
    BY <1>3 DEF LockExpire, IInv, TypeOK, BrokerTypeOK
  <2>2. \A d \in Consumers :
           jpc[d] \notin Resting /\ rlock[Own(d)] = d => rlock'[Own(d)] = d
    <3>. SUFFICES ASSUME NEW d \in Consumers, jpc[d] \notin Resting, rlock[Own(d)] = d
         PROVE  rlock'[Own(d)] = d
      OBVIOUS
    <3>1. Own(d) \in Tasks
      BY OwnTask DEF Resting, IInv, TypeOK
    <3>2. Own(d) # t
      BY <2>1, BrokerAssumption
    <3>. QED BY <2>1, <3>1, <3>2
  <2>. QED BY <2>1, <2>2, RestTurns DEF storeVars
<1>4. CASE RedisRestart
  <2>1. UNCHANGED <<st, queue, txLocks, runs, faulted, jpc, delivery, work>>
        /\ \A t \in Tasks : Dag[t].worker = "node"
    BY <1>4 DEF RedisRestart, Fault, TakeTurns
  <2>2. ASSUME NEW d \in Consumers, jpc[d] # "idle" PROVE FALSE
    BY <2>1, <2>2, JavaHands DEF TurnsInv
  <2>. QED BY <2>1, <2>2, RestTurns DEF Resting
<1>. QED BY <1>1, <1>2, <1>3, <1>4 DEF BrokersMove

---------------------------------------------------------------------------
(* The turns go on: pods. *)

LEMMA PodActive ==
  ASSUME IInv, NodeInv, NEW n \in Nodes, NodeStep(n)
  PROVE  gpc # "ready" /\ (npc[n] # "idle" \/ Waiting("node") # {})
<1>1. TypeOK /\ queue \in [Queues -> Seq(Message)]
  BY DEF IInv, TypeOK, StoreTypeOK
<1>2. CASE WorkerDeliver(n)
  <2>1. Head(queue["node"]) \in Waiting("node")
    BY <1>1, <1>2, NodeTake DEF WorkerDeliver, NodeInv
  <2>2. gpc # "ready"
    BY <2>1, PostedTask DEF Good, Queues
  <2>. QED BY <2>1, <2>2
<1>3. CASE ~WorkerDeliver(n)
  <2>1. npc[n] # "idle"
    BY <1>3 DEF NodeStep, WorkerCheck, WorkerMarkRunning, WorkerExecute,
       WorkerExecuteFails, WorkerFatalCrash, WorkerComplete, WorkerReadDag,
       WorkerFailTask, WorkerFailWorkflow, WorkerPublish, WorkerCommit, WorkerAck
  <2>. QED BY <2>1 DEF IInv, InvWorker, WorkerOK, Good
<1>. QED BY <1>2, <1>3

\* What the brokers hear of a pod: it publishes a task of its transaction.
LEMMA JavaHears ==
  ASSUME TakeTurns, IInv, NodeInv, NEW n \in Nodes, NodeStep(n)
  PROVE  \A m \in Waiting("java")' :
           \/ m \in Waiting("java")
           \/ Shaped(m) /\ m.queue = "java" /\ InTx(m.task)' /\ ~AtGate(m.task)
<1>1. /\ TypeOK /\ WorkerTypeOK /\ queue \in [Queues -> Seq(Message)]
  BY DEF IInv, TypeOK, StoreTypeOK
<1>2. CASE WorkerDeliver(n)
  <2>1. Waiting("java")' = Waiting("java")
    BY <1>1, <1>2, NodeTake DEF WorkerDeliver, NodeInv
  <2>. QED BY <2>1
<1>3. CASE WorkerFatalCrash(n)
  <2>1. npc[n] # "idle" /\ Requeue(nmsg[n])
    BY <1>3 DEF WorkerFatalCrash
  <2>2. nmsg[n] \in Message /\ nmsg[n].queue = "node" /\ Mine(n) \in Tasks
    BY <1>1, <2>1, MineTask DEF NodeInv, AllShaped, WorkerTypeOK
  <2>3. ~Posted(nmsg[n].task)
    BY <2>1, <2>2 DEF NodeInv, OneMessage, Holds, Mine
  <2>4. Waiting("java")' = Waiting("java")
    BY <1>1, <2>1, <2>2, <2>3, NodeRequeue DEF NodeInv
  <2>. QED BY <2>4
<1>4. CASE WorkerPublish(n)
  <2>1. PICK m \in ntodo[n] :
          /\ Send(m)
          /\ nrows' = [nrows EXCEPT ![n] = @ \cup {m.task}]
    BY <1>4 DEF WorkerPublish
  <2>2. /\ npc'[n] = "publish" /\ m.task \in nrows'[n]
        /\ m \in Message /\ m.task \in Tasks /\ Shaped(m) /\ Listed(n, m.task)
    BY <1>1, <1>4, <2>1, MessageTask
       DEF WorkerPublish, WorkerTypeOK, NodeInv, AllShaped, Listed
  <2>3. InTx(m.task)' /\ ~AtGate(m.task) /\ ~Posted(m.task) /\ m.queue \in Queues
    BY <2>2, NodeMessage DEF InTx, NodeInv, OneMessage
  <2>4. Waiting("java")' \subseteq
          Waiting("java") \cup (IF m.queue = "java" THEN {m} ELSE {})
    <3>1. CASE m.queue = "java"
      BY <1>1, <2>1, <2>2, <3>1, JavaSend
    <3>2. CASE m.queue = "node"
      BY <1>1, <2>1, <2>2, <2>3, <3>2, NodeSend DEF NodeInv
    <3>. QED BY <2>3, <3>1, <3>2 DEF Queues
  <2>. QED BY <2>2, <2>3, <2>4
<1>5. CASE ~WorkerDeliver(n) /\ ~WorkerFatalCrash(n) /\ ~WorkerPublish(n)
  <2>1. queue' = queue
    BY <1>5 DEF NodeStep, WorkerCheck, WorkerMarkRunning, WorkerExecute,
       WorkerExecuteFails, WorkerComplete, WorkerReadDag, WorkerFailTask,
       WorkerFailWorkflow, WorkerCommit, WorkerAck, storeVars
  <2>. QED BY <2>1 DEF Waiting
<1>. QED BY <1>2, <1>3, <1>4, <1>5

LEMMA PodTells ==
  ASSUME TakeTurns, IInv, NodeInv, NEW n \in Nodes, NodeStep(n), link' = link,
         NEW t \in Tasks, ~Holds(n, t)
  PROVE  /\ Told(t) => Told(t)'
         /\ HasRun(t)' <=> HasRun(t)
         /\ st[t] \in {"RUNNING", "COMPLETED"} => st'[t] = st[t]
<1>1. /\ TypeOK /\ WorkerTypeOK /\ WorkerStep(n) /\ runs \in [Tasks -> 0 .. 2]
  BY DEF IInv, TypeOK, StoreTypeOK, NodeStep, WorkerStep
<1>2. st[t] \in {"RUNNING", "COMPLETED"} => st'[t] = st[t]
  BY RowsMove
<1>3. ASSUME NEW k \in Nodes, npc[k] = "publish", t \in nrows[k] PROVE Told(t)'
  <2>1. CASE k # n
    <3>1. Apart(n)
      BY <1>1, StepApart
    <3>2. npc'[k] = "publish" /\ t \in nrows'[k]
      BY <1>3, <2>1, <3>1 DEF Apart
    <3>. QED BY <3>2 DEF Told, InTx
  <2>2. CASE k = n /\ WorkerPublish(n)
    <3>1. npc'[n] = "publish" /\ t \in nrows'[n]
      BY <1>1, <1>3, <2>2 DEF WorkerPublish, WorkerTypeOK
    <3>. QED BY <3>1 DEF Told, InTx
  <2>3. CASE k = n /\ WorkerCommit(n)
    <3>1. st'[t] = "RUNNING"
      BY <1>3, <2>3 DEF WorkerCommit
    <3>. QED BY <3>1 DEF Told
  <2>. QED BY <1>3, <2>1, <2>2, <2>3
           DEF NodeStep, WorkerDeliver, WorkerCheck, WorkerMarkRunning, WorkerExecute,
               WorkerExecuteFails, WorkerFatalCrash, WorkerComplete, WorkerReadDag,
               WorkerFailTask, WorkerFailWorkflow, WorkerAck
<1>4. runs'[t] = runs[t]
  <2>1. CASE WorkerExecute(n)
    <3>1. npc[n] = "exec" /\ Ran(Mine(n))
      BY <2>1 DEF WorkerExecute
    <3>2. t # Mine(n)
      BY <3>1 DEF Holds
    <3>. QED BY <1>1, <3>1, <3>2 DEF Ran
  <2>2. CASE ~WorkerExecute(n)
    BY <2>2 DEF NodeStep, WorkerDeliver, WorkerCheck, WorkerMarkRunning,
       WorkerExecuteFails, WorkerFatalCrash, WorkerComplete, WorkerReadDag,
       WorkerFailTask, WorkerFailWorkflow, WorkerPublish, WorkerCommit, WorkerAck,
       storeVars
  <2>. QED BY <2>1, <2>2
<1>. QED BY <1>2, <1>3, <1>4 DEF Told, InTx, HasRun

LEMMA PodTurns ==
  ASSUME TakeTurns, IInv, TurnsInv, NEW n \in Nodes, NodeStep(n),
         UNCHANGED <<gateVars, brokerVars, link>>
  PROVE  TurnsInv' /\ Forward
<1>1. /\ NodeInv /\ InOrder /\ BrokersTell /\ Turns
      /\ TypeOK /\ BrokerTypeOK
  BY DEF TurnsInv, IInv, TypeOK
<1>2. NodeInv' /\ Mono
  BY <1>1, StepNode
<1>3. /\ UNCHANGED <<gtodo, gpc, jpc, jmsg, jtodo, jcur, rlock>>
      /\ \A c \in Consumers : Own(c)' = Own(c)
  BY DEF gateVars, brokerVars, delivery, work, Own
<1>4. gpc # "ready" /\ (npc[n] # "idle" \/ Waiting("node") # {})
  BY <1>1, PodActive
<1>5. Opened
  BY <1>1, <1>4 DEF Turns, Opening
<1>6. Forward /\ \A t \in Tasks : st[t] = "COMPLETED" => st'[t] = "COMPLETED"
  BY <1>1, RowsMove DEF Forward
<1>7. \A t \in Tasks : Begun(t)' /\ ~Hidden(t) =>
            Begun(t) \/ \A d \in Deps(t) : st[d] = "COMPLETED"
  BY <1>1, BegunStep
<1>8. InOrder'
  BY <1>1, <1>6, <1>7, OrderStep
<1>9. \A c \in Consumers : jpc[c] # "idle" =>
        /\ Own(c) \in Tasks /\ ~Holds(n, Own(c))
        /\ Told(Own(c)) => Told(Own(c))'
        /\ HasRun(Own(c))' <=> HasRun(Own(c))
        /\ st[Own(c)] \in {"RUNNING", "COMPLETED"} => st'[Own(c)] = st[Own(c)]
  <2>. SUFFICES ASSUME NEW c \in Consumers, jpc[c] # "idle", NEW t, t = Own(c)
       PROVE  /\ t \in Tasks /\ ~Holds(n, t)
              /\ Told(t) => Told(Own(c))'
              /\ HasRun(Own(c))' <=> HasRun(t)
              /\ st[t] \in {"RUNNING", "COMPLETED"} => st'[t] = st[t]
    OBVIOUS
  <2>1. t \in Tasks /\ ~Holds(n, t) /\ Own(c)' = t
    BY <1>1, <1>3, JavaHands
  <2>2. /\ Told(t) => Told(t)'
        /\ HasRun(t)' <=> HasRun(t)
        /\ st[t] \in {"RUNNING", "COMPLETED"} => st'[t] = st[t]
    BY <1>1, <2>1, PodTells
  <2>. QED BY <2>1, <2>2 DEF Told, InTx, HasRun
<1>10. ASSUME NEW c \in Consumers PROVE BrokerTells(c)'
  <2>1. BrokerTells(c)
    BY <1>1 DEF BrokersTell
  <2>2. CASE jpc[c] = "idle"
    BY <1>3, <2>2 DEF BrokerTells, Resting, Progress, FailurePoints
  <2>3. CASE jpc[c] # "idle"
    <3>1. PICK m : m = jmsg[c] /\ jmsg'[c] = m
      BY <1>3
    <3>2. Shaped(m)'
      BY <1>2, <2>1, <2>3, <3>1, ShapedMono DEF BrokerTells
    <3>3. Shaped(jmsg[c])'
      BY <3>1, <3>2
    <3>. QED BY <1>3, <1>9, <2>1, <2>3, <3>1, <3>3 DEF BrokerTells
  <2>. QED BY <2>2, <2>3
<1>11. BrokersTell'
  <2>1. \A m \in Waiting("java")' :
           \/ m \in Waiting("java")
           \/ Shaped(m) /\ m.queue = "java" /\ InTx(m.task)' /\ ~AtGate(m.task)
    BY <1>1, JavaHears
  <2>2. ASSUME NEW m \in Waiting("java")' PROVE Shaped(m)' /\ m.queue = "java" /\ Told(m.task)'
    <3>1. CASE m \in Waiting("java")
      <4>1. /\ m.task \in Tasks /\ Shaped(m) /\ m.queue = "java" /\ Told(m.task)
        BY <1>1, <3>1, PostedTask DEF BrokersTell, Queues
      <4>2. Dag[m.task].worker = "java"
        BY <1>1, <4>1, NodeMessage DEF NodeInv
      <4>3. ~Holds(n, m.task)
        <5>1. ASSUME npc[n] # "idle" PROVE Dag[Mine(n)].worker = "node"
          BY <1>1, <5>1, NodeMessage, MineTask DEF NodeInv, AllShaped, Mine
        <5>. QED BY <4>2, <5>1 DEF Holds
      <4>4. Told(m.task)'
        BY <1>1, <4>1, <4>3, PodTells
      <4>. QED BY <1>2, <4>1, <4>4, ShapedMono
    <3>2. CASE Shaped(m) /\ m.queue = "java" /\ InTx(m.task)'
      BY <1>2, <3>2, ShapedMono DEF Told
    <3>. QED BY <2>1, <3>1, <3>2
  <2>3. ASSUME NEW m \in gtodo PROVE Unheard(m.task)'
    <3>1. AtGate(m.task) /\ Unheard(m.task)
      BY <1>1 DEF AtGate, BrokersTell
    <3>2. \A x \in Waiting("java")' : x.task # m.task
      BY <2>1, <3>1 DEF Unheard
    <3>. QED BY <1>3, <3>1, <3>2 DEF Unheard
  <2>. QED BY <1>3, <1>10, <2>2, <2>3 DEF BrokersTell
<1>12. ASSUME NEW a \in Leading
       PROVE  /\ \/ st'[a] = "COMPLETED"
                 \/ st'[a] = "PENDING" /\ \E d \in Deps(a) : st'[d] # "COMPLETED"
              /\ ~InTx(a)' /\ \A k \in Nodes : ~Listed(k, a)'
  <2>1. a \in Tasks /\ ~Hidden(a) /\ Deps(a) \subseteq Leading
    BY DEF Leading, TakeTurns, JavaLeads
  <2>2. CASE st[a] = "COMPLETED"
    <3>1. st'[a] = "COMPLETED"
      BY <1>6, <2>1, <2>2
    <3>. QED BY <1>2, <2>1, <3>1 DEF NodeInv, RowsTell
  <2>3. ASSUME st[a] = "PENDING", NEW d \in Deps(a), st[d] # "COMPLETED"
        PROVE  /\ st'[a] = "PENDING" /\ st'[d] # "COMPLETED"
               /\ ~InTx(a)' /\ \A k \in Nodes : ~Listed(k, a)'
    <3>1. ~Begun(a)
      BY <1>5, <2>3 DEF Begun, Opened
    <3>2. ~Begun(a)'
      BY <1>7, <2>1, <2>3, <3>1
    <3>3. d \in Tasks /\ st[d] = "PENDING"
      BY <1>5, <2>1, <2>3 DEF Opened, Leading
    <3>4. st'[a] = "PENDING"
      <4>1. st'[a] = st[a] \/ st'[a] = "RUNNING"
        BY <2>1, <2>3, <1>1, RowsMove
      <4>. QED BY <2>3, <3>2, <4>1 DEF Begun
    <3>5. st'[d] # "COMPLETED"
      BY <1>1, <3>3, RowsMove
    <3>. QED BY <3>2, <3>4, <3>5 DEF Begun
  <2>. QED BY <1>5, <2>2, <2>3 DEF Opened
<1>13. Opened'
  BY <1>3, <1>5, <1>12 DEF Opened
<1>. QED BY <1>2, <1>6, <1>8, <1>11, <1>13 DEF TurnsInv, Turns

---------------------------------------------------------------------------
(* The turns begin: the gateway. *)

LEMMA SubmitTurns ==
  ASSUME TakeTurns, IInv, TurnsInv, GateSubmit, UNCHANGED <<brokerVars, workerVars>>,
         NodeInv'
  PROVE  TurnsInv' /\ Forward
<1>1. /\ NodeInv /\ BrokersTell /\ Turns /\ TypeOK /\ gpc = "ready"
      /\ \A t \in Tasks : st[t] = "NONE"
  BY DEF TurnsInv, IInv, NodeInv, RowsTell, GateSubmit
<1>2. /\ \A t \in Tasks : /\ t \in Roots => st'[t] = "RUNNING"
                          /\ t \notin Roots => st'[t] = "PENDING"
      /\ gtodo' = {TaskMessage(t) : t \in Roots}
      /\ UNCHANGED <<queue, faulted, runs>> /\ Roots \subseteq Tasks
  BY DEF GateSubmit, Roots
<1>3. UNCHANGED <<jpc, npc, ntodo, nrows>>
  BY DEF brokerVars, workerVars, callbackVars, txData
<1>4. /\ \A c \in Consumers : jpc[c] = "idle"
      /\ \A n \in Nodes : npc[n] = "idle"
  BY <1>1 DEF IInv, InvBroker, BrokerOK, InvWorker, WorkerOK, Good
<1>5. \A q \in Queues : Waiting(q)' = {}
  BY <1>1, <1>2, PostedTask DEF Good, Waiting
<1>6. \A t : ~InTx(t)' /\ \A n \in Nodes : ~Listed(n, t)'
  <2>1. \A n \in Nodes : ntodo[n] = {}
    BY <1>1, <1>4 DEF NodeInv, OneTransaction, Transaction
  <2>. QED BY <1>3, <1>4, <2>1 DEF InTx, Listed
<1>7. InOrder'
  <2>. SUFFICES ASSUME NEW t \in Tasks, Begun(t)' PROVE Deps(t) = {}
    BY DEF InOrder
  <2>1. t \in Roots
    BY <1>2, <1>6 DEF Begun
  <2>. QED BY <2>1 DEF Roots
<1>8. BrokersTell'
  <2>1. \A t : Unheard(t)'
    BY <1>3, <1>4, <1>5 DEF Unheard, Queues
  <2>2. \A c \in Consumers : BrokerTells(c)'
    BY <1>3, <1>4 DEF BrokerTells, FailurePoints, Resting, Progress
  <2>. QED BY <1>5, <2>1, <2>2 DEF BrokersTell, Queues
<1>. Forward
  BY <1>1, <1>2 DEF Forward
<1>9. \A a \in Leading : Deps(a) \subseteq Leading /\ a \in Tasks /\ ~Hidden(a)
  BY DEF TakeTurns, JavaLeads, Leading
<1>10. CASE Leading \cap Roots = {}
  <2>1. ASSUME NEW a \in Leading
        PROVE  st'[a] = "PENDING" /\ \E d \in Deps(a) : st'[d] # "COMPLETED"
    <3>1. a \notin Roots /\ \A d \in Deps(a) : d \in Tasks /\ d \notin Roots
      BY <1>9, <1>10
    <3>2. PICK d \in Deps(a) : TRUE
      BY <1>9, <3>1 DEF Roots
    <3>3. st'[a] = "PENDING" /\ st'[d] = "PENDING"
      BY <1>2, <1>9, <3>1
    <3>. QED BY <3>2, <3>3
  <2>2. Opened'
    BY <1>3, <1>4, <1>6, <2>1 DEF Opened
  <2>. QED BY <1>1, <1>7, <1>8, <2>2 DEF TurnsInv, Turns
<1>11. ASSUME NEW r \in Leading \cap Roots PROVE TurnsInv' /\ Forward
  <2>1. \A u \in Roots : u = r
    <3>. SUFFICES ASSUME NEW u \in Roots PROVE u = r
      OBVIOUS
    <3>1. ~Hidden(u) /\ ~Hidden(r) /\ Deps(u) = {} /\ Deps(r) = {}
          /\ u \in Tasks /\ r \in Tasks
      BY DEF Roots, Hidden
    <3>2. {} \in SUBSET Leading /\ \A t \in {} : Deps(t) \subseteq {}
      OBVIOUS
    <3>3. /\ Leading # {}
          /\ \A x, y \in Tasks \ {} :
               ~Hidden(x) /\ ~Hidden(y) /\ Deps(x) \cup Deps(y) \subseteq {} => x = y
      BY <3>2 DEF TakeTurns, JavaLeads
    <3>. QED BY <3>1, <3>3
  <2>2. faulted = {}
    <3>1. \A a \in Leading : st[a] = "NONE"
      BY <1>1, <1>9
    <3>. QED BY <1>1, <3>1, <1>11 DEF Turns, Opening, Opened
  <2>3. \A m \in gtodo' : m.task = r
    BY <1>2, <2>1 DEF TaskMessage
  <2>4. /\ st'[r] = "RUNNING"
        /\ \A t \in Tasks \ {r} : st'[t] = "PENDING"
    BY <1>2, <1>9, <2>1
  <2>5. Opening(r)'
    <3>1. \A c \in Consumers : Waits(c)'
      BY <1>3, <1>4 DEF Waits, Resting
    <3>2. /\ faulted' = {} /\ \A n \in Nodes : npc'[n] = "idle"
          /\ Waiting("node")' = {}
      BY <1>2, <1>3, <1>4, <1>5, <2>2 DEF Queues
    <3>. QED BY <2>3, <2>4, <3>1, <3>2 DEF Opening
  <2>. QED BY <1>1, <1>7, <1>8, <2>5 DEF TurnsInv, Turns
<1>. QED BY <1>10, <1>11

LEMMA GateTurns ==
  ASSUME TakeTurns, IInv, TurnsInv,
         GateSubmit \/ GatePublish \/ GateReply \/ GateCrash,
         UNCHANGED <<brokerVars, workerVars>>
  PROVE  TurnsInv' /\ Forward
<1>1. /\ NodeInv /\ InOrder /\ BrokersTell /\ Turns /\ TypeOK
      /\ queue \in [Queues -> Seq(Message)] /\ gtodo \subseteq Message
  BY DEF TurnsInv, IInv, TypeOK, StoreTypeOK, GateTypeOK
<1>2. Mono
  BY <1>1, GateMono DEF GateNext, GateStep
<1>3. NodeInv'
  BY <1>1, <1>2, GateNode
<1>4. CASE GateSubmit
  BY <1>3, <1>4, SubmitTurns
<1>5. CASE GatePublish \/ GateReply \/ GateCrash
  <2>1. /\ UNCHANGED <<st, runs, txLocks, faulted>> /\ gtodo' \subseteq gtodo
        /\ gpc = "publish"
    BY <1>5 DEF GatePublish, GateReply, GateCrash, storeVars
  <2>2. /\ UNCHANGED <<jpc, jmsg, jtodo, jcur, rlock, npc, nmsg, ntodo, nrows>>
        /\ \A c \in Consumers : Own(c)' = Own(c)
    BY DEF brokerVars, delivery, work, Own, workerVars, callbackVars, txData
  <2>3. \/ /\ \A q \in Queues : Waiting(q)' = Waiting(q)
        \/ \E m \in gtodo :
             /\ m = TaskMessage(m.task) /\ m.task \in Tasks
             /\ \A x \in gtodo' : x.task # m.task
             /\ Shaped(m) /\ Told(m.task) /\ st[m.task] = "RUNNING"
             /\ \/ m.queue = "java" /\ Waiting("node")' = Waiting("node")
                   /\ Waiting("java")' = Waiting("java") \cup {m}
                \/ m.queue = "node" /\ Dag[m.task].worker = "node"
                   /\ Waiting("java")' = Waiting("java")
    <3>1. CASE GatePublish
      <4>1. PICK m \in gtodo : Send(m) /\ gtodo' = gtodo \ {m}
        BY <3>1 DEF GatePublish
      <4>2. m = TaskMessage(m.task) /\ ~Hidden(m.task) /\ m \in Message /\ m.task \in Tasks
        BY <1>1, MessageTask DEF NodeInv, AllShaped
      <4>3. \A x \in gtodo' : x.task # m.task
        BY <1>1, <4>1, <4>2 DEF NodeInv, AllShaped
      <4>4. AtGate(m.task)
        BY DEF AtGate
      <4>5. Shaped(m) /\ st[m.task] = "RUNNING" /\ ~Posted(m.task)
        BY <1>1, <4>2, <4>4 DEF Shaped, NodeInv, RowsTell, OneMessage
      <4>6. m.queue = Dag[m.task].worker /\ m.queue \in Queues
        BY <4>2 DEF TaskMessage, TakeTurns
      <4>. Told(m.task)
        BY <4>5 DEF Told
      <4>7. CASE m.queue = "java"
        <5>1. /\ queue'["node"] = queue["node"]
              /\ Waiting("java")' = Waiting("java") \cup {m}
          BY <1>1, <4>1, <4>2, <4>7, JavaSend
        <5>2. Waiting("node")' = Waiting("node")
          BY <5>1, NodeStays
        <5>. QED BY <4>2, <4>3, <4>5, <4>7, <5>1, <5>2
      <4>8. CASE m.queue = "node"
        BY <1>1, <4>1, <4>2, <4>3, <4>5, <4>6, <4>8, NodeSend DEF NodeInv
      <4>. QED BY <4>6, <4>7, <4>8 DEF Queues
    <3>2. CASE GateReply \/ GateCrash
      BY <3>2 DEF GateReply, GateCrash, storeVars, Waiting
    <3>. QED BY <1>5, <3>1, <3>2
  <2>4. /\ \A t : (Told(t)' <=> Told(t)) /\ (HasRun(t)' <=> HasRun(t))
        /\ \A t : InTx(t)' <=> InTx(t)
        /\ \A n \in Nodes : \A t : Listed(n, t)' <=> Listed(n, t)
        /\ \A m : Shaped(m)' <=> Shaped(m)
        /\ \A c \in Consumers : Waits(c)' <=> Waits(c)
    BY <2>1, <2>2 DEF Told, InTx, HasRun, Listed, Shaped, Waits
  <2>5. InOrder'
    BY <1>1, <2>1, <2>4 DEF InOrder, Begun
  <2>6. ASSUME NEW c \in Consumers PROVE BrokerTells(c)'
    <3>1. BrokerTells(c)
      BY <1>1 DEF BrokersTell
    <3>2. PICK m : m = jmsg[c] /\ jmsg'[c] = m
      BY <2>2
    <3>3. jpc[c] # "idle" => Shaped(m)' /\ Told(m.task)' /\ m.queue = "java"
      BY <2>4, <3>1, <3>2 DEF BrokerTells, Own
    <3>4. jpc[c] # "idle" => Shaped(jmsg[c])' /\ Told(Own(c))'
      BY <3>2, <3>3 DEF Told, InTx, Own
    <3>5. HasRun(Own(c))' <=> HasRun(Own(c))
      BY <2>1, <2>2 DEF HasRun
    <3>. QED BY <2>1, <2>2, <3>1, <3>2, <3>3, <3>4, <3>5 DEF BrokerTells
  <2>7. BrokersTell'
    <3>1. \A m \in Waiting("java")' : Shaped(m)' /\ m.queue = "java" /\ Told(m.task)'
      BY <1>1, <2>3, <2>4 DEF BrokersTell, Queues
    <3>2. ASSUME NEW x \in gtodo' PROVE Unheard(x.task)'
      <4>1. Unheard(x.task)
        BY <1>1, <2>1 DEF BrokersTell
      <4>2. \A m \in Waiting("java")' : m.task # x.task
        BY <2>3, <4>1 DEF Unheard, Queues
      <4>. QED BY <2>2, <4>1, <4>2 DEF Unheard
    <3>. QED BY <2>6, <3>1, <3>2 DEF BrokersTell
  <2>8. ASSUME NEW a \in Leading, Opening(a) PROVE Opening(a)'
    <3>1. /\ faulted = {} /\ \A n \in Nodes : npc[n] = "idle"
          /\ Waiting("node") = {} /\ \A m \in gtodo : m.task = a
          /\ a \in Tasks /\ Dag[a].worker = "java"
      BY <2>8 DEF Opening, Leading
    <3>2. \A t \in Tasks \ {a} :
            \/ Hidden(t)
            \/ st'[t] = "PENDING"
            \/ st'[t] = "COMPLETED" /\ t \in Leading
            \/ \E c \in Consumers : jpc'[c] = "publish" /\ jcur'[c].task = t
      BY <2>1, <2>2, <2>8 DEF Opening
    <3>3. Waiting("node")' = {} /\ \A m \in gtodo' : m.task = a
      BY <2>1, <2>3, <3>1 DEF Queues
    <3>4. CASE st[a] = "RUNNING"
      <4>1. \A c \in Consumers :
             Waits(c) \/ (Own(c) = a /\ jpc[c] \in {"run", "exec", "complete"})
        BY <2>8, <3>4 DEF Opening
      <4>. QED BY <2>1, <2>2, <2>4, <3>1, <3>2, <3>3, <3>4, <4>1 DEF Opening
    <3>5. CASE st[a] = "COMPLETED"
      <4>1. PICK b \in Consumers :
              /\ Own(b) = a /\ jpc[b] \in Progress /\ HandsOn(b)
              /\ \A d \in Consumers \ {b} : Waits(d)
        BY <2>8, <3>5 DEF Opening
      <4>2. Waiting("java")' = Waiting("java")
        BY <2>3, <3>1, <3>5 DEF Queues
      <4>3. \A t : Unheard(t)' <=> Unheard(t)
        BY <2>2, <4>2 DEF Unheard
      <4>4. HandsOn(b)'
        BY <2>1, <2>2, <2>4, <4>1, <4>3 DEF HandsOn
      <4>. QED BY <2>1, <2>2, <2>4, <3>1, <3>2, <3>3, <3>5, <4>1, <4>4 DEF Opening
    <3>. QED BY <2>8, <3>4, <3>5 DEF Opening
  <2>9. Opened => Opened'
    BY <2>1, <2>2, <2>4 DEF Opened
  <2>10. Turns'
    BY <1>1, <2>1, <2>8, <2>9 DEF Turns
  <2>. QED BY <1>3, <2>1, <2>5, <2>7, <2>10 DEF TurnsInv, Forward
<1>. QED BY <1>4, <1>5

LEMMA InitTurns == Init => TurnsInv
<1>. SUFFICES ASSUME Init PROVE TurnsInv
  OBVIOUS
<1>1. /\ \A n \in Nodes : npc[n] = "idle" /\ ntodo[n] = {} /\ nrows[n] = {}
      /\ \A c \in Consumers : jpc[c] = "idle"
      /\ \A q \in Queues : queue[q] = <<>>
      /\ \A t \in Tasks : st[t] = "NONE"
      /\ gtodo = {} /\ gpc = "ready" /\ faulted = {}
  BY DEF Init, StoreInit, GateInit, BrokerInit, WorkerInit, PodInit
<1>2. Waiting("java") = {}
  BY <1>1, EmptySeq DEF Waiting, Queues
<1>3. InOrder
  BY <1>1 DEF InOrder, Begun, InTx, Listed
<1>4. BrokersTell
  BY <1>1, <1>2 DEF BrokersTell, BrokerTells, FailurePoints, Resting, Progress
<1>. QED BY <1>1, <1>3, <1>4, InitNode DEF TurnsInv, Turns

LEMMA NextTurns ==
  ASSUME TakeTurns, IInv, TurnsInv, [Next]_vars
  PROVE  TurnsInv' /\ Forward
<1>1. CASE Next
  <2>1. NodeInv
    BY DEF TurnsInv
  <2>. QED BY <1>1, <2>1, NodeSteps, GateTurns, BrokersTurn, PodTurns
<1>2. CASE vars' = vars
  <2>1. UNCHANGED <<st, queue, txLocks, runs, faulted, jpc, delivery, work,
                    gateVars, workerVars, rlock>>
    BY <1>2 DEF vars, storeVars, brokerVars
  <2>2. \A d \in Consumers : rlock[Own(d)] = d => rlock'[Own(d)] = d
    BY <2>1
  <2>. QED BY <2>1, <2>2, RestTurns
<1>. QED BY <1>1, <1>2

LEMMA TurnsInvariant == TakeTurns => (Spec => [](IInv /\ TurnsInv))
<1>. SUFFICES ASSUME TakeTurns PROVE Spec => [](IInv /\ TurnsInv)
  OBVIOUS
<1>1. Init => IInv /\ TurnsInv
  BY InitIInv, InitTurns
<1>2. IInv /\ TurnsInv /\ [Next]_vars => (IInv /\ TurnsInv)'
  BY NextIInv, NextTurns
<1>. QED BY <1>1, <1>2, PTL DEF Spec

---------------------------------------------------------------------------
(* Nothing twice. *)

\* Where brokers and pods have their turns and nothing takes a message out of the
\* hands of a pod, the body of a task takes effect at most once, however many pods
\* and threads race for it and whatever the brokers are told twice: for every DAG
\* whose compensations are its own and that has at most one task that can fail
\* once there is something to undo.
THEOREM NothingTwice ==
  ASSUME TakeTurns
  PROVE  Spec => []AtMostOnce
<1>1. TurnsInv => AtMostOnce
  BY DEF TurnsInv, NodeInv, RowsTell, AtMostOnce
<1>. QED BY <1>1, TurnsInvariant, PTL

\* In the same deployments no task that has been COMPLETED is set to RUNNING
\* again, by a redelivered message or by another executor that progresses the DAG.
THEOREM NothingStartsOver ==
  ASSUME TakeTurns
  PROVE  Spec => NoRegression
<1>1. IInv /\ TurnsInv /\ [Next]_vars
        => [\A t \in Tasks : st[t] = "COMPLETED" => st'[t] # "RUNNING"]_st
  BY NextTurns DEF Forward
<1>. QED BY <1>1, TurnsInvariant, PTL DEF Spec, NoRegression

---------------------------------------------------------------------------
(* Nothing goes missing, while the gateway lives. *)

LEMMA FaultsKeep ==
  ASSUME FaultsTold, faulted' = faulted,
         \A t \in faulted : st'[t] = st[t] \/ st'[t] = "FAILED",
         \A n \in Nodes : \A t \in faulted :
           Failing(n, t) => Failing(n, t)' \/ st'[t] = "FAILED"
  PROVE  FaultsTold'
BY DEF FaultsTold

LEMMA GateKeepsFaults ==
  ASSUME IInv, NodeInv, FaultsTold, GateSubmit \/ GatePublish \/ GateReply \/ GateCrash,
         UNCHANGED workerVars
  PROVE  FaultsTold'
<1>1. faulted' = faulted /\ \A n \in Nodes : \A t : Failing(n, t)' <=> Failing(n, t)
  BY DEF GateSubmit, GatePublish, GateReply, GateCrash, storeVars, workerVars,
     callbackVars, txData, Failing, Holds, Mine
<1>2. CASE GateSubmit
  <2>1. \A t \in Tasks : st[t] = "NONE"
    BY <1>2 DEF GateSubmit, NodeInv, RowsTell
  <2>2. faulted = {}
    BY <2>1 DEF FaultsTold, IInv, TypeOK, StoreTypeOK
  <2>. QED BY <1>1, <2>2 DEF FaultsTold
<1>3. CASE ~GateSubmit
  <2>1. st' = st
    BY <1>3 DEF GatePublish, GateReply, GateCrash, storeVars
  <2>. QED BY <1>1, <2>1, FaultsKeep
<1>. QED BY <1>2, <1>3

\* A broker writes no row of a task that has been given up.
LEMMA BrokerKeepsFaults ==
  ASSUME TakeTurns, IInv, TurnsInv, FaultsTold, NEW c \in Consumers, BrokerStep(c),
         UNCHANGED workerVars
  PROVE  FaultsTold'
<1>1. /\ NodeInv /\ InOrder /\ BrokersTell /\ BrokerTells(c) /\ Turns
      /\ st \in [Tasks -> Status] /\ faulted \subseteq Tasks
  BY DEF TurnsInv, BrokersTell, IInv, TypeOK, StoreTypeOK
<1>2. jpc[c] \notin FailurePoints \cup {"rescue"} /\ ~BrokerRefuse(c)
  <2>1. jpc[c] # "idle" => ~CanBeRefused(jmsg[c])
    BY <1>1, NoRefusal
  <2>. QED BY <1>1, <2>1 DEF BrokerTells, BrokerRefuse
<1>3. faulted' = faulted /\ \A n \in Nodes : \A t : Failing(n, t)' <=> Failing(n, t)
  <2>1. faulted' = faulted
    BY <1>2 DEF BrokerStep, FailurePoints, BrokerDeliver, BrokerLock,
       BrokerLockTimeout, BrokerCheck, BrokerMarkRunning, BrokerExecute,
       BrokerComplete, BrokerReadWorkflow, BrokerReadTasks, BrokerTrigger,
       BrokerPublish, BrokerSaveWorkflow, BrokerFailTask, BrokerFailWorkflow,
       BrokerCompensate, BrokerFinish, storeVars
  <2>. QED BY <2>1 DEF workerVars, callbackVars, txData, Failing, Holds, Mine
<1>4. CASE BrokerMarkRunning(c)
  <2>1. jpc[c] = "run" /\ st' = [st EXCEPT ![Own(c)] = "RUNNING"]
    BY <1>4 DEF BrokerMarkRunning, SaveTask
  <2>2. Own(c) \in Tasks /\ Told(Own(c)) /\ \A n \in Nodes : ~Holds(n, Own(c))
    BY <1>1, <2>1, JavaHands DEF BrokerTells
  <2>3. Own(c) \notin faulted
    BY <1>1, <2>2 DEF FaultsTold, Failing, Told, NodeInv, RowsTell
  <2>. QED BY <1>1, <1>3, <2>1, <2>3, FaultsKeep
<1>5. CASE BrokerComplete(c)
  <2>1. /\ jpc[c] = "complete" /\ st' = [st EXCEPT ![Own(c)] = "COMPLETED"]
        /\ st[Own(c)] = "RUNNING"
    BY <1>1, <1>5 DEF BrokerComplete, SaveTask, BrokerTells
  <2>2. Own(c) \in Tasks /\ \A n \in Nodes : ~Holds(n, Own(c))
    BY <1>1, <2>1, JavaHands
  <2>3. Own(c) \notin faulted
    BY <2>1, <2>2 DEF FaultsTold, Failing
  <2>. QED BY <1>1, <1>3, <2>1, <2>3, FaultsKeep
<1>6. CASE BrokerTrigger(c)
  <2>1. jpc[c] = "trigger" /\ gpc # "ready"
    BY <1>1, <1>6, JavaHands DEF BrokerTrigger
  <2>2. faulted = {}
    BY <1>1, <2>1 DEF Turns, Opening, Opened
  <2>. QED BY <1>3, <2>2 DEF FaultsTold
<1>7. CASE ~(BrokerMarkRunning(c) \/ BrokerComplete(c) \/ BrokerTrigger(c))
  <2>1. st' = st
    BY <1>2, <1>7 DEF BrokerStep, FailurePoints, BrokerDeliver, BrokerLock,
       BrokerLockTimeout, BrokerCheck, BrokerExecute, BrokerReadWorkflow,
       BrokerReadTasks, BrokerPublish, BrokerSaveWorkflow, BrokerFailTask,
       BrokerFailWorkflow, BrokerCompensate, BrokerFinish, storeVars
  <2>. QED BY <1>3, <2>1, FaultsKeep
<1>. QED BY <1>4, <1>5, <1>6, <1>7

\* A pod that has yet to fail has a task that nobody has given up.
LEMMA NodeKeepsFaults ==
  ASSUME TakeTurns, IInv, NodeInv, FaultsTold, NEW n \in Nodes, NodeStep(n),
         UNCHANGED <<gateVars, brokerVars, link>>
  PROVE  FaultsTold'
<1>1. /\ TypeOK /\ WorkerTypeOK /\ WorkerOK(n) /\ Transaction(n) /\ HandTells(n)
      /\ st \in [Tasks -> Status] /\ faulted \subseteq Tasks /\ Apart(n)
  BY StepNode
     DEF IInv, TypeOK, StoreTypeOK, InvWorker, NodeInv, OneTransaction, HandsTell
<1>2. \A k \in Nodes \ {n} : \A t : Failing(k, t) => Failing(k, t)'
  BY <1>1, ApartSame DEF Failing
<1>3. ASSUME npc[n] \in {"run", "exec", "complete"}
      PROVE  Mine(n) \in Tasks /\ Mine(n) \notin faulted
  <2>1. Mine(n) \in Tasks /\ Holds(n, Mine(n)) /\ st[Mine(n)] # "FAILED"
    BY <1>1, <1>3, MineTask DEF HandTells, Holds, NodeInv, RowsTell
  <2>2. \A k \in Nodes : ~Failing(k, Mine(n))
    BY <1>3, <2>1 DEF Failing, NodeInv, OneMessage
  <2>. QED BY <2>1, <2>2 DEF FaultsTold
<1>4. CASE \/ WorkerDeliver(n) \/ WorkerCheck(n) \/ WorkerExecute(n)
           \/ WorkerFatalCrash(n) \/ WorkerReadDag(n) \/ WorkerAck(n)
  <2>1. /\ faulted' = faulted /\ st' = st
        /\ npc[n] \in {"idle", "check", "exec", "readdag", "ack"}
    BY <1>4 DEF WorkerDeliver, WorkerCheck, WorkerExecute, WorkerFatalCrash,
       WorkerReadDag, WorkerAck, storeVars
  <2>2. \A t : ~Failing(n, t)
    BY <2>1 DEF Failing
  <2>. QED BY <1>2, <2>1, <2>2, FaultsKeep
<1>5. CASE WorkerMarkRunning(n) \/ WorkerComplete(n)
  <2>1. /\ npc[n] \in {"run", "complete"} /\ faulted' = faulted
        /\ \A t \in Tasks : t # Mine(n) => st'[t] = st[t]
    BY <1>1, <1>5 DEF WorkerMarkRunning, WorkerComplete, UpdateTask
  <2>2. \A t : ~Failing(n, t)
    BY <2>1 DEF Failing
  <2>. QED BY <1>1, <1>2, <1>3, <2>1, <2>2, FaultsKeep
<1>6. CASE WorkerExecuteFails(n)
  <2>1. /\ npc[n] = "exec" /\ npc'[n] = "fail" /\ nsaga'[n] /\ st' = st
        /\ nmsg' = nmsg /\ faulted' = faulted \cup {Mine(n)}
    BY <1>1, <1>6 DEF WorkerExecuteFails, At, WorkerTypeOK
  <2>2. st[Mine(n)] = "RUNNING" /\ Failing(n, Mine(n))'
    BY <1>1, <2>1 DEF HandTells, Failing, Holds, Mine
  <2>3. \A t : ~Failing(n, t)
    BY <2>1 DEF Failing
  <2>4. Mine(n)' = Mine(n)
    BY <2>1 DEF Mine
  <2>. QED BY <1>2, <2>1, <2>2, <2>3, <2>4 DEF FaultsTold
<1>7. CASE WorkerFailTask(n) \/ WorkerFailWorkflow(n) \/ WorkerPublish(n)
  <2>1. /\ faulted' = faulted /\ st' = st /\ nmsg' = nmsg /\ nsaga' = nsaga
        /\ npc'[n] \in {"failwf", "publish"}
    BY <1>1, <1>7 DEF WorkerFailTask, WorkerFailWorkflow, WorkerPublish, At,
       WorkerTypeOK, txData
  <2>2. \A t : Failing(n, t) => Failing(n, t)'
    BY <2>1 DEF Failing, Holds, Mine
  <2>. QED BY <1>2, <2>1, <2>2, FaultsKeep
<1>8. CASE WorkerCommit(n)
  <2>1. /\ npc[n] = "publish" /\ faulted' = faulted
        /\ \A t \in Tasks : \/ t \in nrows[n]
                            \/ nsaga[n] /\ t = Mine(n) /\ st'[t] = "FAILED"
                            \/ ~(nsaga[n] /\ t = Mine(n)) /\ st'[t] = st[t]
    BY <1>8 DEF WorkerCommit
  <2>2. \A t \in nrows[n] : t \notin faulted
    <3>1. \A t \in nrows[n] : t \in Tasks /\ InTx(t)
      BY <1>1, <2>1 DEF InTx, WorkerTypeOK
    <3>. QED BY <3>1 DEF FaultsTold, NodeInv, RowsTell
  <2>3. \A t \in faulted : st'[t] = st[t] \/ st'[t] = "FAILED"
    BY <1>1, <2>1, <2>2
  <2>4. \A t \in faulted : Failing(n, t) => st'[t] = "FAILED"
    BY <1>1, <2>1, <2>2 DEF Failing, Holds
  <2>. QED BY <1>2, <2>1, <2>3, <2>4, FaultsKeep
<1>. QED BY <1>4, <1>5, <1>6, <1>7, <1>8 DEF NodeStep

LEMMA NextKeepsFaults ==
  ASSUME TakeTurns, IInv, TurnsInv, FaultsTold, [Next]_vars
  PROVE  FaultsTold'
<1>. NodeInv
  BY DEF TurnsInv
<1>1. ASSUME UNCHANGED <<st, faulted, workerVars>> PROVE FaultsTold'
  BY <1>1 DEF FaultsTold, workerVars, callbackVars, txData, Failing, Holds, Mine
<1>2. CASE UNCHANGED vars
  BY <1>1, <1>2 DEF vars, storeVars
<1>3. CASE /\ GateSubmit \/ GatePublish \/ GateReply \/ GateCrash
           /\ UNCHANGED <<brokerVars, workerVars>>
  BY <1>3, GateKeepsFaults
<1>4. CASE BrokersMove /\ UNCHANGED <<gateVars, workerVars>>
  <2>1. CASE \E c \in Consumers : BrokerStep(c)
    BY <1>4, <2>1, BrokerKeepsFaults
  <2>2. CASE ~\E c \in Consumers : BrokerStep(c)
    BY <1>1, <1>4, <2>2
       DEF BrokersMove, BrokerRedeliver, LockExpire, RedisRestart, storeVars
  <2>. QED BY <2>1, <2>2
<1>5. CASE /\ \E n \in Nodes : NodeStep(n)
           /\ UNCHANGED <<gateVars, brokerVars, link>>
  BY <1>5, NodeKeepsFaults
<1>. QED BY <1>2, <1>3, <1>4, <1>5, NodeSteps

\* Where brokers and pods have their turns a RUNNING task is in a queue, about to
\* be, or with an executor that has yet to write its outcome, as long as the
\* gateway does not die between COMMIT and its last publish.
THEOREM NothingMissing ==
  ASSUME TakeTurns, "gate" \notin FaultKinds
  PROVE  Spec => []NoLostTask
<1>1. LoseNothing
  BY DEF TakeTurns, LoseNothing, Queues
<1>2. Init => CoverInv /\ FaultsTold
  BY InitCovers DEF Init, StoreInit, FaultsTold
<1>3. IInv /\ CoverInv /\ [Next]_vars => CoverInv'
  BY <1>1, NextCovers
<1>4. IInv /\ TurnsInv /\ FaultsTold /\ [Next]_vars => FaultsTold'
  BY NextKeepsFaults
<1>5. IInv /\ TurnsInv /\ CoverInv /\ FaultsTold => NoLostTask
  <2>. SUFFICES ASSUME IInv, TurnsInv, CoverInv, FaultsTold,
                       NEW t \in Tasks, st[t] = "RUNNING"
                PROVE  Queued(t) \/ BeingPublished(t) \/ InHands(t)
    BY DEF NoLostTask
  <2>1. Covered(t)
    BY DEF CoverInv, AllCovered, Started
  <2>2. CASE HasRun(t)
    BY <2>2 DEF TurnsInv, NodeInv, RowsTell, InHands
  <2>3. CASE t \in faulted
    BY <2>3 DEF FaultsTold, Failing, Holds, InHands
  <2>4. CASE \E c \in Consumers : BrokerOwes(c, t)
    BY <2>4 DEF BrokerOwes, Untouched, BeingPublished, InHands
  <2>5. CASE \E n \in Nodes : WorkerOwes(n, t)
    <3>1. PICK n \in Nodes : npc[n] \in Untouched /\ Mine(n) = t
      BY <2>5 DEF WorkerOwes
    <3>2. npc[n] # "lock"
      BY DEF IInv, TypeOK, WorkerTypeOK, WorkerPoints
    <3>. QED BY <3>1, <3>2 DEF Untouched, InHands
  <2>. QED BY <2>1, <2>2, <2>3, <2>4, <2>5 DEF Covered, BeingPublished
<1>. QED BY <1>2, <1>3, <1>4, <1>5, TurnsInvariant, PTL DEF Spec

---------------------------------------------------------------------------
(* FAILED means undone. *)

\* What is undone stays undone.
LEMMA UndoStep ==
  ASSUME OnlyThoseFail, Forward
  PROVE  OnlyThoseFail' /\ (AllUndone => AllUndone')
<1>1. OnlyThoseFail'
  BY DEF OnlyThoseFail, MayFail, Hidden, Forward
<1>2. ASSUME AllUndone PROVE AllUndone'
  <2>. SUFFICES ASSUME NEW o \in Tasks, Undoable(o) PROVE st'[Comp(o)] = "COMPLETED"
    BY DEF AllUndone, Undoable, MayFail, Hidden
  <2>1. Comp(o) \in Tasks
    BY DagAssumption DEF Undoable, Comp, TaskDefinition, Tasks
  <2>. QED BY <1>2, <2>1 DEF AllUndone, Forward
<1>. QED BY <1>1, <1>2

\* Nothing is left to undo when no compensation is active.
LEMMA InactiveUndone ==
  ASSUME TakeTurns, IInv, OnlyThoseFail, gpc # "ready", ~CompensationsActive(st)
  PROVE  AllUndone
<1>. SUFFICES ASSUME NEW o \in Tasks, Undoable(o) PROVE st[Comp(o)] = "COMPLETED"
  BY DEF AllUndone
<1>1. Comp(o) \in Tasks /\ Hidden(Comp(o)) /\ Comp(o) \in CompensationKeys
  <2>1. Comp(o) \in Tasks /\ Comp(o) # NoTask
    BY DagAssumption DEF Undoable, Comp, TaskDefinition, Tasks
  <2>. QED BY <2>1 DEF TakeTurns, CompensationKeys
<1>2. st[Comp(o)] \notin {"RUNNING", "PENDING"}
  BY <1>1 DEF CompensationsActive
<1>3. st[Comp(o)] # "NONE" /\ st[Comp(o)] \in Status
  BY <1>1 DEF IInv, InvRows, TypeOK, StoreTypeOK
<1>4. st[Comp(o)] # "FAILED"
  BY <1>1 DEF OnlyThoseFail, MayFail
<1>. QED BY <1>2, <1>3, <1>4 DEF Status

\* Nothing can be undone when a failing task has nothing to compensate.
LEMMA NothingUndoable ==
  ASSUME SagaInLine, InOrder, NEW f \in Tasks, MayFail(f), Begun(f),
         Compensable([st EXCEPT ![f] = "FAILED"]) = {}, st \in [Tasks -> Status]
  PROVE  AllUndone
<1>. SUFFICES ASSUME NEW o \in Tasks, Undoable(o) PROVE FALSE
  BY DEF AllUndone
<1>1. o # f /\ Precedes(o, f)
  BY DEF Undoable, SagaInLine
<1>2. \A d \in Deps(f) : st[d] = "COMPLETED"
  BY DEF InOrder, MayFail
<1>3. st[o] = "COMPLETED"
  BY <1>1, <1>2, DoneBefore
<1>. QED BY <1>1, <1>3 DEF Compensable, Undoable

LEMMA NodeUndoes ==
  ASSUME SagaInLine, IInv, TurnsInv, UndoInv, Forward,
         NEW n \in Nodes, NodeStep(n), UNCHANGED <<gateVars, brokerVars, link>>
  PROVE  UndoInv'
<1>1. /\ TypeOK /\ WorkerTypeOK /\ WorkerOK(n) /\ Transaction(n) /\ HandTells(n)
      /\ st \in [Tasks -> Status] /\ TakeTurns /\ InOrder
  BY DEF IInv, TypeOK, StoreTypeOK, InvWorker, TurnsInv, NodeInv, OneTransaction,
         HandsTell, SagaInLine
<1>2. \A k \in Nodes \ {n} : nwf'[k] = nwf[k]
  <2>1. WorkerStep(n)
    BY DEF NodeStep, WorkerStep
  <2>. QED BY <1>1, <2>1, WorkerAlone DEF WorkerSame
<1>3. OnlyThoseFail' /\ (AllUndone => AllUndone')
  BY UndoStep DEF UndoInv
<1>4. wf' = wf \/ (wf' = nwf[n] /\ WorkerCommit(n))
  BY DEF NodeStep, WorkerDeliver, WorkerCheck, WorkerMarkRunning, WorkerExecute,
     WorkerExecuteFails, WorkerFatalCrash, WorkerComplete, WorkerReadDag,
     WorkerFailTask, WorkerFailWorkflow, WorkerPublish, WorkerCommit, WorkerAck,
     storeVars
<1>5. ASSUME nwf'[n] = "FAILED", nwf[n] # "FAILED" PROVE AllUndone
  <2>1. CASE WorkerReadDag(n)
    <3>1. npc[n] = "readdag" /\ ~CompensationsActive(st)
      <4>. DEFINE given == CASE wf = "COMPENSATING" /\ ~CompensationsActive(st) -> "FAILED"
                             [] wf # "COMPENSATING" /\ AllSettled(st) -> "COMPLETED"
                             [] OTHER -> "NONE"
      <4>1. npc[n] = "readdag" /\ nwf' = [nwf EXCEPT ![n] = given]
        BY <2>1 DEF WorkerReadDag
      <4>2. given = "FAILED"
        BY <1>1, <1>5, <4>1 DEF WorkerTypeOK
      <4>. QED BY <4>1, <4>2
    <3>2. gpc # "ready"
      BY <1>1, <3>1 DEF WorkerOK, Good
    <3>. QED BY <1>1, <3>1, <3>2, InactiveUndone DEF UndoInv
  <2>2. CASE WorkerFailWorkflow(n)
    <3>1. npc[n] = "failwf" /\ nsaga[n]
      BY <1>1, <2>2 DEF WorkerFailWorkflow, WorkerOK
    <3>2. /\ Mine(n) \in Tasks /\ MayFail(Mine(n)) /\ Begun(Mine(n))
      BY <1>1, <3>1, MineTask DEF Transaction, HandTells, Begun
    <3>3. Compensable([st EXCEPT ![Mine(n)] = "FAILED"]) = {}
      BY <1>1, <1>5, <2>2 DEF WorkerFailWorkflow, WorkerTypeOK
    <3>. QED BY <1>1, <3>2, <3>3, NothingUndoable
  <2>3. CASE ~WorkerReadDag(n) /\ ~WorkerFailWorkflow(n)
    <3>1. nwf'[n] \in {nwf[n], "NONE"}
      BY <1>1, <2>3 DEF NodeStep, WorkerDeliver, WorkerCheck, WorkerMarkRunning,
         WorkerExecute, WorkerExecuteFails, WorkerFatalCrash, WorkerComplete,
         WorkerFailTask, WorkerPublish, WorkerCommit, WorkerAck, ResetWorker,
         WorkerTypeOK, txData
    <3>. QED BY <1>5, <3>1
  <2>. QED BY <2>1, <2>2, <2>3
<1>6. \A k \in Nodes : nwf'[k] = "FAILED" => AllUndone
  BY <1>2, <1>5 DEF UndoInv
<1>7. wf' = "FAILED" => AllUndone
  BY <1>4 DEF UndoInv
<1>8. jwf' = jwf
  BY DEF brokerVars, work
<1>. QED BY <1>3, <1>6, <1>7, <1>8 DEF UndoInv

\* A broker fails the workflow once it has seen that no compensation is active;
\* nothing else makes one do so.
LEMMA BrokerUndoes ==
  ASSUME SagaInLine, IInv, TurnsInv, UndoInv, Forward, BrokersMove,
         UNCHANGED <<gateVars, workerVars>>
  PROVE  UndoInv'
<1>1. /\ TypeOK /\ BrokerTypeOK /\ TakeTurns /\ BrokersTell /\ NodeInv
      /\ \A c \in Consumers : jpc[c] \notin FailurePoints \cup {"rescue"}
  BY DEF IInv, TypeOK, TurnsInv, BrokersTell, BrokerTells, SagaInLine
<1>2. OnlyThoseFail' /\ (AllUndone => AllUndone')
  BY UndoStep DEF UndoInv
<1>3. /\ nwf' = nwf
      /\ wf' = "FAILED" => AllUndone
      /\ \A d \in Consumers : jwf'[d] = "FAILED" => AllUndone
  <2>0. nwf' = nwf
    BY DEF workerVars, callbackVars, txData
  <2>1. ASSUME NEW c \in Consumers, BrokerReadTasks(c)
        PROVE  wf' = wf /\ \A d \in Consumers : jwf'[d] = "FAILED" => AllUndone
    <3>1. jpc[c] = "readtasks" /\ wf' = wf /\ gpc # "ready"
      BY <1>1, <2>1, JavaHands DEF BrokerReadTasks, storeVars
    <3>2. CASE jwf[c] = "COMPENSATING" /\ ~CompensationsActive(st)
      BY <1>1, <3>1, <3>2, InactiveUndone DEF UndoInv
    <3>3. CASE ~(jwf[c] = "COMPENSATING" /\ ~CompensationsActive(st))
      <4>1. jwf' = jwf \/ jwf' = [jwf EXCEPT ![c] = "COMPLETED"]
        BY <2>1, <3>3 DEF BrokerReadTasks
      <4>. QED BY <1>1, <3>1, <4>1 DEF UndoInv, BrokerTypeOK
    <3>. QED BY <3>1, <3>2, <3>3
  <2>2. ASSUME NEW c \in Consumers, BrokerReadWorkflow(c)
        PROVE  wf' = wf /\ \A d \in Consumers : jwf'[d] = "FAILED" => AllUndone
    BY <1>1, <2>2 DEF BrokerReadWorkflow, storeVars, UndoInv, BrokerTypeOK
  <2>3. ASSUME NEW c \in Consumers, BrokerFinish(c)
        PROVE  wf' = wf /\ \A d \in Consumers : jwf'[d] = "FAILED" => AllUndone
    BY <1>1, <2>3 DEF BrokerFinish, Reset, storeVars, UndoInv, BrokerTypeOK
  <2>4. ASSUME NEW c \in Consumers, BrokerSaveWorkflow(c)
        PROVE  jwf' = jwf /\ wf' = jwf[c]
    BY <2>4 DEF BrokerSaveWorkflow, SaveWorkflow, work
  <2>5. ASSUME NEW c \in Consumers,
               BrokerFailTask(c) \/ BrokerFailWorkflow(c) \/ BrokerCompensate(c)
        PROVE  FALSE
    BY <1>1, <2>5 DEF BrokerFailTask, BrokerFailWorkflow, BrokerCompensate, FailurePoints
  <2>6. ASSUME NEW c \in Consumers,
               \/ BrokerDeliver(c) \/ BrokerLock(c) \/ BrokerLockTimeout(c)
               \/ BrokerCheck(c) \/ BrokerMarkRunning(c) \/ BrokerExecute(c)
               \/ BrokerRefuse(c) \/ BrokerComplete(c) \/ BrokerTrigger(c)
               \/ BrokerPublish(c) \/ BrokerRedeliver(c)
        PROVE  wf' = wf /\ jwf' = jwf
    BY <2>6 DEF BrokerDeliver, BrokerLock, BrokerLockTimeout, BrokerCheck,
       BrokerMarkRunning, BrokerExecute, BrokerRefuse, BrokerComplete, BrokerTrigger,
       BrokerPublish, BrokerRedeliver, storeVars, work
  <2>7. CASE (\E t \in Tasks : LockExpire(t)) \/ RedisRestart
    BY <2>0, <2>7 DEF LockExpire, RedisRestart, storeVars, work, UndoInv
  <2>8. ASSUME NEW c \in Consumers, BrokerStep(c) \/ BrokerRedeliver(c)
        PROVE  /\ wf' = "FAILED" => AllUndone
               /\ \A d \in Consumers : jwf'[d] = "FAILED" => AllUndone
    BY <2>1, <2>2, <2>3, <2>4, <2>5, <2>6, <2>8 DEF BrokerStep, UndoInv
  <2>. QED BY <2>0, <2>7, <2>8 DEF BrokersMove
<1>. QED BY <1>2, <1>3 DEF UndoInv

LEMMA NextUndoes ==
  ASSUME SagaInLine, IInv, TurnsInv, UndoInv, [Next]_vars
  PROVE  UndoInv'
<1>. TakeTurns /\ NodeInv
  BY DEF SagaInLine, TurnsInv
<1>1. Forward
  BY NextTurns
<1>2. OnlyThoseFail' /\ (AllUndone => AllUndone')
  BY <1>1, UndoStep DEF UndoInv
<1>3. CASE UNCHANGED vars
  BY <1>2, <1>3 DEF vars, storeVars, brokerVars, work, workerVars, callbackVars,
     txData, UndoInv
<1>4. CASE /\ GateSubmit \/ GatePublish \/ GateReply \/ GateCrash
           /\ UNCHANGED <<brokerVars, workerVars>>
  <2>1. wf' = wf \/ wf' = "RUNNING"
    BY <1>4 DEF GateSubmit, GatePublish, GateReply, GateCrash, storeVars
  <2>2. UNCHANGED <<jwf, nwf>>
    BY <1>4 DEF brokerVars, work, workerVars, callbackVars, txData
  <2>. QED BY <1>2, <2>1, <2>2 DEF UndoInv
<1>5. CASE BrokersMove /\ UNCHANGED <<gateVars, workerVars>>
  BY <1>1, <1>5, BrokerUndoes
<1>6. CASE /\ \E n \in Nodes : NodeStep(n)
           /\ UNCHANGED <<gateVars, brokerVars, link>>
  BY <1>1, <1>6, NodeUndoes
<1>. QED BY <1>3, <1>4, <1>5, <1>6, NodeSteps

LEMMA UndoInvariant == SagaInLine => (Spec => [](IInv /\ TurnsInv /\ UndoInv))
<1>. SUFFICES ASSUME SagaInLine PROVE Spec => [](IInv /\ TurnsInv /\ UndoInv)
  OBVIOUS
<1>1. Init => UndoInv
  BY DEF Init, StoreInit, BrokerInit, WorkerInit, UndoInv, OnlyThoseFail
<1>2. IInv /\ TurnsInv /\ UndoInv /\ [Next]_vars => UndoInv'
  BY NextUndoes
<1>3. Spec => [](IInv /\ TurnsInv)
  BY TurnsInvariant DEF SagaInLine
<1>. QED BY <1>1, <1>2, <1>3, PTL DEF Spec

\* Whatever has taken effect has been undone by then.
LEMMA RanIsUndone ==
  ASSUME IInv, TurnsInv, AllUndone, NEW t \in Tasks, HasRun(t), Comp(t) # NoTask
  PROVE  Comp(t) \in Tasks /\ HasRun(Comp(t))
<1>1. Undoable(t)
  BY DEF TurnsInv, NodeInv, RowsTell, Undoable, MayFail
<1>2. Comp(t) \in Tasks
  BY DagAssumption DEF Comp, TaskDefinition, Tasks
<1>. QED BY <1>1, <1>2 DEF AllUndone, IInv, InvRows

\* Where in a saga whatever can be undone comes before whatever can fail, a
\* workflow that is reported FAILED has everything undone that took effect,
\* however many pods and brokers execute it and whenever they look at the rows.
THEOREM FailedIsUndone ==
  ASSUME SagaInLine
  PROVE  Spec => []FailedMeansUndone
<1>1. IInv /\ TurnsInv /\ UndoInv => FailedMeansUndone
  BY RanIsUndone DEF UndoInv, FailedMeansUndone, Undone
<1>. QED BY <1>1, UndoInvariant, PTL

---------------------------------------------------------------------------
(* The end is seen. *)

\* A step that leaves the outcome and the rows alone.
LEMMA SettleStep ==
  ASSUME SettleInv, UNCHANGED <<wf, st, gateVars>>,
         \A t : Announced(t) => Announced(t)', Closing => Closing',
         \A n \in Nodes : Verdict(n)', \A c \in Consumers : Reading(c)'
  PROVE  SettleInv'
BY DEF SettleInv, Attended, Undoing, gateVars

\* A step of n that announces what was announced.
LEMMA NodeQuiet ==
  ASSUME SettleInv, NEW n \in Nodes, Apart(n),
         UNCHANGED <<wf, st, gateVars, brokerVars>>,
         \A k \in Nodes \ {n} : nwf'[k] = nwf[k],
         npc[n] # "readdag", npc'[n] = "publish" => npc[n] = "publish",
         npc[n] = "publish" => npc'[n] = "publish" /\ nwf'[n] = nwf[n]
                               /\ nsaga'[n] = nsaga[n],
         nwf'[n] = "NONE" \/ (nwf'[n] = nwf[n] /\ (nsaga[n] => nsaga'[n])),
         npc[n] # "publish" => \A t : ~Listed(n, t),
         \A t : Listed(n, t) => Listed(n, t)' \/ t \in nrows'[n],
         npc[n] = "publish" => nrows[n] \subseteq nrows'[n]
  PROVE  SettleInv'
<1>1. \A k \in Nodes \ {n} : \A t : Listed(k, t)' <=> Listed(k, t)
  BY ApartSame
<1>2. \A k \in Nodes \ {n} :
        npc'[k] = npc[k] /\ nsaga'[k] = nsaga[k] /\ nrows'[k] = nrows[k]
  BY DEF Apart
<1>3. \A t : InTx(t) => InTx(t)'
  BY <1>2 DEF InTx
<1>4. \A t : Listed(n, t) => Listed(n, t)' \/ InTx(t)'
  BY DEF InTx
<1>5. UNCHANGED <<jpc, jtodo, jcur, jwf>>
  BY DEF brokerVars, work
<1>6. \A t : Announced(t) => Announced(t)'
  BY <1>1, <1>2, <1>3, <1>4, <1>5 DEF Announced
<1>7. Closing => Closing'
  BY <1>2, <1>5 DEF Closing, NodeCloses, BrokerCloses
<1>8. \A k \in Nodes : Verdict(k)'
  <2>1. ASSUME NEW k \in Nodes \ {n} PROVE Verdict(k)'
    BY <1>1, <1>2 DEF SettleInv, Verdict
  <2>2. Verdict(n)'
    BY DEF SettleInv, Verdict
  <2>. QED BY <2>1, <2>2
<1>9. \A c \in Consumers : Reading(c)'
  BY <1>5 DEF SettleInv, Reading
<1>. QED BY <1>6, <1>7, <1>8, <1>9, SettleStep

\* A failure handler finds everything to undo that there is.
LEMMA AllCalled ==
  ASSUME Finishes, InOrder, NEW f \in Tasks, MayFail(f), Begun(f),
         st \in [Tasks -> Status], NEW k \in CompensationKeys
  PROVE  \E o \in Compensable([st EXCEPT ![f] = "FAILED"]) : Comp(o) = k
<1>1. PICK o \in Tasks : Comp(o) = k /\ k # NoTask
  BY DEF CompensationKeys
<1>2. Undoable(o) /\ o # f /\ Precedes(o, f)
  BY <1>1 DEF Finishes, SagaInLine, Undoable
<1>3. \A d \in Deps(f) : st[d] = "COMPLETED"
  BY DEF InOrder, MayFail
<1>4. st[o] = "COMPLETED"
  BY <1>2, <1>3, DoneBefore
<1>. QED BY <1>1, <1>2, <1>4 DEF Compensable

LEMMA KeysAreTasks == CompensationKeys \subseteq Tasks
BY DagAssumption DEF CompensationKeys, Comp, Tasks, TaskDefinition

LEMMA NodeSettles ==
  ASSUME Finishes, IInv, TurnsInv, SettleInv, NEW n \in Nodes, NodeStep(n),
         UNCHANGED <<gateVars, brokerVars, link>>
  PROVE  SettleInv'
<1>1. /\ TypeOK /\ WorkerTypeOK /\ WorkerOK(n) /\ Transaction(n) /\ HandTells(n)
      /\ st \in [Tasks -> Status] /\ NodeInv /\ InOrder
  BY DEF IInv, TypeOK, StoreTypeOK, InvWorker, TurnsInv, NodeInv, OneTransaction,
         HandsTell
<1>2. WorkerStep(n) /\ Apart(n)
  <2>1. WorkerStep(n)
    BY DEF NodeStep, WorkerStep
  <2>. QED BY <1>1, <2>1, StepApart
<1>3. \A k \in Nodes \ {n} :
        /\ npc'[k] = npc[k] /\ nsaga'[k] = nsaga[k] /\ nrows'[k] = nrows[k]
        /\ nwf'[k] = nwf[k] /\ (\A t : Listed(k, t)' <=> Listed(k, t))
  <2>1. \A k \in Nodes \ {n} : WorkerSame(k)
    BY <1>1, <1>2, WorkerAlone
  <2>. QED BY <1>2, <2>1, ApartSame DEF Apart, WorkerSame
<1>4. npc[n] # "publish" => \A t : ~Listed(n, t)
  BY <1>1 DEF Transaction, Listed
<1>5. UNCHANGED <<jpc, jtodo, jcur, jwf>>
  BY DEF brokerVars, work
<1>6. \A k \in Nodes \ {n} : Verdict(k)'
  BY <1>3 DEF SettleInv, Verdict
<1>7. wf' = wf => \A c \in Consumers : Reading(c)' /\ (BrokerCloses(c)' <=> BrokerCloses(c))
  BY <1>5 DEF SettleInv, Reading, BrokerCloses
<1>8. CASE \/ WorkerDeliver(n) \/ WorkerCheck(n) \/ WorkerExecute(n)
           \/ WorkerExecuteFails(n) \/ WorkerFatalCrash(n) \/ WorkerFailTask(n)
           \/ WorkerAck(n)
  <2>1. /\ UNCHANGED <<wf, st>>
        /\ npc[n] \notin {"readdag", "publish"} /\ npc'[n] # "publish"
        /\ nwf'[n] = "NONE" \/ (nwf'[n] = nwf[n] /\ (nsaga[n] => nsaga'[n]))
    BY <1>1, <1>8 DEF WorkerDeliver, WorkerCheck, WorkerExecute, WorkerExecuteFails,
       WorkerFatalCrash, WorkerFailTask, WorkerAck, At, ResetWorker, WorkerTypeOK,
       txData, storeVars
  <2>. QED BY <1>2, <1>3, <1>4, <2>1, NodeQuiet
<1>9. CASE WorkerMarkRunning(n)
  <2>1. /\ npc[n] = "run" /\ UNCHANGED <<wf, nsaga, ntodo, nrows, nwf>>
        /\ npc' = [npc EXCEPT ![n] = "exec"]
        /\ Unlocked(Mine(n)) /\ st' = [st EXCEPT ![Mine(n)] = "RUNNING"]
    BY <1>9 DEF WorkerMarkRunning, UpdateTask, At, txData
  <2>2. ~InTx(Mine(n))
    BY <1>1, <2>1 DEF InTx, Unlocked, NodeInv, OneTransaction, Transaction
  <2>3. st' = st
    <3>1. st[Mine(n)] = "RUNNING"
      BY <1>1, <2>1, <2>2 DEF HandTells
    <3>. QED BY <1>1, <2>1, <3>1
  <2>4. npc'[n] = "exec" /\ npc[n] = "run"
    BY <1>1, <2>1 DEF WorkerTypeOK
  <2>. QED BY <1>2, <1>3, <1>4, <2>1, <2>3, <2>4, NodeQuiet
<1>10. CASE WorkerComplete(n)
  <2>1. /\ npc[n] = "complete" /\ UNCHANGED <<wf, nsaga, nwf>>
        /\ npc' = [npc EXCEPT ![n] = "readdag"]
        /\ st' = [st EXCEPT ![Mine(n)] = "COMPLETED"]
    BY <1>10 DEF WorkerComplete, UpdateTask, At, txData
  <2>2. npc'[n] = "readdag"
    BY <1>1, <2>1 DEF WorkerTypeOK
  <2>3. \A t \in Tasks : st'[t] \in {st[t], "COMPLETED"}
    BY <1>1, <2>1
  <2>4. Closing' /\ \A t : Announced(t)'
    BY <2>2 DEF Closing, NodeCloses, Announced
  <2>5. Attended' /\ Undoing'
    BY <2>1, <2>3, <2>4, KeysAreTasks DEF SettleInv, Attended, Undoing
  <2>6. Verdict(n)'
    BY <2>1, <2>2 DEF SettleInv, Verdict
  <2>. QED BY <1>6, <1>7, <2>1, <2>5, <2>6 DEF SettleInv, gateVars
<1>11. CASE WorkerReadDag(n)
  <2>. DEFINE given == CASE wf = "COMPENSATING" /\ ~CompensationsActive(st) -> "FAILED"
                         [] wf # "COMPENSATING" /\ AllSettled(st) -> "COMPLETED"
                         [] OTHER -> "NONE"
  <2>1. /\ npc[n] = "readdag" /\ UNCHANGED <<wf, st, nsaga, nrows>>
        /\ npc'[n] = "publish" /\ ~nsaga[n] /\ nwf'[n] = given
    BY <1>1, <1>11 DEF WorkerReadDag, At, WorkerTypeOK, Transaction
  <2>2. given \in {"FAILED", "COMPLETED", "NONE"}
    OBVIOUS
  <2>3. Attended'
    <3>. SUFFICES ASSUME wf = "RUNNING"
                  PROVE  /\ \A t \in Ready(st) : Announced(t)'
                         /\ AllSettled(st) => Closing'
      BY <2>1 DEF SettleInv, Attended
    <3>1. ntodo'[n] = {TaskMessage(t) : t \in Ready(st)}
      <4>1. ntodo' = [ntodo EXCEPT ![n] = {TaskMessage(t) : t \in Ready(st)}]
        BY <1>11 DEF WorkerReadDag
      <4>. QED BY <1>1, <4>1 DEF WorkerTypeOK
    <3>2. ASSUME NEW t \in Ready(st) PROVE Listed(n, t)'
      <4>. SUFFICES \E m \in ntodo'[n] : m.task = t
        BY DEF Listed
      <4>1. TaskMessage(t) \in ntodo'[n]
        BY <3>1
      <4>. QED BY <4>1 DEF TaskMessage
    <3>3. AllSettled(st) => nwf'[n] = "COMPLETED"
      BY <2>1
    <3>. QED BY <2>1, <3>2, <3>3 DEF Announced, Closing, NodeCloses, Terminal
  <2>4. Undoing'
    <3>. SUFFICES ASSUME wf = "COMPENSATING", ~CompensationsActive(st)
                  PROVE  Closing'
      BY <2>1 DEF SettleInv, Undoing
    <3>1. nwf'[n] = "FAILED"
      BY <2>1
    <3>. QED BY <2>1, <3>1 DEF Closing, NodeCloses, Terminal
  <2>5. Verdict(n)'
    BY <2>1, <2>2 DEF Verdict
  <2>. QED BY <1>6, <1>7, <2>1, <2>3, <2>4, <2>5 DEF SettleInv, gateVars
<1>12. CASE WorkerFailWorkflow(n)
  <2>. DEFINE seen == [st EXCEPT ![Mine(n)] = "FAILED"]
  <2>1. /\ npc[n] = "failwf" /\ UNCHANGED <<wf, st, nsaga, nrows>>
        /\ npc'[n] = "publish" /\ nsaga[n]
        /\ ntodo'[n] = {WorkerCompensation(o) : o \in Compensable(seen)}
        /\ nwf'[n] = IF Compensable(seen) = {} THEN "FAILED" ELSE "COMPENSATING"
    BY <1>1, <1>12 DEF WorkerFailWorkflow, At, WorkerTypeOK, WorkerOK
  <2>2. Mine(n) \in Tasks /\ MayFail(Mine(n)) /\ Begun(Mine(n))
    <3>1. Mine(n) \in Tasks
      BY <1>1, <2>1 DEF WorkerTypeOK, Message, Mine
    <3>. QED BY <1>1, <2>1, <3>1 DEF Transaction, HandTells, Begun
  <2>3. Verdict(n)'
    <3>. SUFFICES ASSUME Compensable(seen) # {}
                  PROVE  /\ CompensationKeys # {}
                         /\ \A k \in CompensationKeys : \E m \in ntodo'[n] : m.task = k
      BY <2>1 DEF Verdict, Listed
    <3>1. PICK o \in Compensable(seen) : o \in Tasks /\ Comp(o) # NoTask
      BY DEF Compensable
    <3>2. Comp(o) \in CompensationKeys
      BY <3>1 DEF CompensationKeys
    <3>3. ASSUME NEW k \in CompensationKeys PROVE \E m \in ntodo'[n] : m.task = k
      <4>1. PICK p \in Compensable(seen) : Comp(p) = k
        BY <1>1, <2>2, AllCalled
      <4>2. WorkerCompensation(p) \in ntodo'[n] /\ WorkerCompensation(p).task = k
        BY <2>1, <4>1 DEF WorkerCompensation
      <4>. QED BY <4>2
    <3>. QED BY <3>2, <3>3
  <2>4. \A t : Announced(t) => Announced(t)'
    <3>1. \A t : InTx(t) => InTx(t)'
      BY <1>3, <2>1 DEF InTx
    <3>. QED BY <1>3, <1>4, <1>5, <2>1, <3>1 DEF Announced
  <2>5. Closing => Closing'
    BY <1>3, <1>7, <2>1 DEF Closing, NodeCloses
  <2>. QED BY <1>6, <1>7, <2>1, <2>3, <2>4, <2>5, SettleStep
<1>13. CASE WorkerPublish(n)
  <2>1. PICK m \in ntodo[n] :
          /\ ntodo' = [ntodo EXCEPT ![n] = @ \ {m}]
          /\ nrows' = [nrows EXCEPT ![n] = @ \cup {m.task}]
    BY <1>13 DEF WorkerPublish
  <2>2. /\ npc[n] = "publish" /\ UNCHANGED <<wf, st, npc, nsaga, nwf>>
    BY <1>13 DEF WorkerPublish
  <2>3. ntodo'[n] = ntodo[n] \ {m} /\ nrows'[n] = nrows[n] \cup {m.task}
    BY <1>1, <2>1 DEF WorkerTypeOK
  <2>4. \A t : Listed(n, t) => Listed(n, t)' \/ t \in nrows'[n]
    BY <2>3 DEF Listed
  <2>. QED BY <1>2, <2>2, <2>3, <2>4, NodeQuiet
<1>14. CASE WorkerCommit(n)
  <2>1. /\ npc[n] = "publish" /\ ntodo[n] = {} /\ UNCHANGED <<nsaga, nrows, nwf>>
        /\ npc'[n] = "ack"
        /\ st' = [t \in Tasks |->
                   CASE t \in nrows[n] -> "RUNNING"
                     [] t \notin nrows[n] /\ nsaga[n] /\ t = Mine(n) -> "FAILED"
                     [] OTHER -> st[t]]
        /\ wf' = IF nwf[n] = "NONE" THEN wf ELSE nwf[n]
    BY <1>1, <1>14 DEF WorkerCommit, At, WorkerTypeOK, txData
  <2>2. Verdict(n) /\ nwf[n] # "RUNNING"
    BY <1>1 DEF SettleInv, WorkerOK
  <2>3. Verdict(n)'
    BY <2>1, <2>2 DEF Verdict
  <2>4. \A c \in Consumers : Reading(c)'
    BY <1>5, <2>1, <2>2 DEF SettleInv, Reading
  <2>5. CASE nwf[n] = "NONE"
    <3>1. wf' = wf /\ ~nsaga[n]
      BY <2>1, <2>2, <2>5 DEF Verdict
    <3>2. \A t \in Tasks : st'[t] = IF t \in nrows[n] THEN "RUNNING" ELSE st[t]
      BY <2>1, <3>1
    <3>3. Closing => Closing'
      BY <1>3, <1>7, <2>1, <2>5, <3>1 DEF Closing, NodeCloses, Terminal
    <3>4. \A t : t \notin nrows[n] /\ Announced(t) => Announced(t)'
      <4>. SUFFICES ASSUME NEW t, t \notin nrows[n], Announced(t)
           PROVE  Announced(t)'
        OBVIOUS
      <4>1. \/ \E k \in Nodes \ {n} :
                 \/ npc[k] = "readdag" \/ Listed(k, t)
                 \/ npc[k] = "publish" /\ t \in nrows[k]
            \/ \E c \in Consumers : \/ jpc[c] \in {"readwf", "readtasks"}
                                    \/ \E m \in jtodo[c] : m.task = t
        BY <2>1 DEF Announced, InTx, Listed
      <4>. QED BY <1>3, <1>5, <4>1 DEF Announced, InTx
    <3>5. Attended'
      <4>. SUFFICES ASSUME wf = "RUNNING"
           PROVE  /\ \A t \in Tasks : st'[t] # "FAILED"
                  /\ \A t \in Ready(st)' : Announced(t)'
                  /\ AllSettled(st)' => Closing'
        BY <3>1 DEF Attended
      <4>1. ASSUME NEW t \in Tasks PROVE st'[t] # "FAILED"
        BY <3>2 DEF SettleInv, Attended
      <4>2. ASSUME NEW t \in Ready(st)' PROVE Announced(t)'
        <5>1. t \in Tasks /\ st'[t] = "PENDING" /\ DepsMet(t, st')
          BY DEF Ready
        <5>2. t \notin nrows[n] /\ st[t] = "PENDING" /\ Deps(t) \subseteq Tasks
          BY <3>2, <5>1, DepsType
        <5>3. t \in Ready(st)
          BY <3>2, <5>1, <5>2 DEF DepsMet, Ready
        <5>. QED BY <3>4, <5>2, <5>3 DEF SettleInv, Attended
      <4>3. AllSettled(st)' => AllSettled(st)
        BY <3>2 DEF AllSettled
      <4>. QED BY <3>3, <4>1, <4>2, <4>3 DEF SettleInv, Attended
    <3>6. Undoing'
      BY <3>1, <3>2, <3>3, KeysAreTasks DEF SettleInv, Undoing, CompensationsActive
    <3>. QED BY <1>6, <2>1, <2>3, <2>4, <3>5, <3>6 DEF SettleInv, gateVars
  <2>6. CASE nwf[n] # "NONE"
    <3>1. wf' = nwf[n] /\ Attended'
      BY <2>1, <2>2, <2>6 DEF Attended
    <3>2. ASSUME wf' = "COMPENSATING" PROVE Undoing'
      <4>1. CompensationKeys # {} /\ \A k \in CompensationKeys : k \in nrows[n]
        BY <2>1, <2>2, <3>1, <3>2 DEF Verdict, Listed
      <4>2. \A k \in CompensationKeys : st'[k] = "RUNNING"
        BY <2>1, <4>1, KeysAreTasks
      <4>. QED BY <4>1, <4>2 DEF Undoing, CompensationsActive
    <3>3. Undoing'
      BY <3>2 DEF Undoing
    <3>. QED BY <1>6, <2>1, <2>3, <2>4, <3>1, <3>3 DEF SettleInv, gateVars
  <2>. QED BY <2>5, <2>6
<1>. QED BY <1>8, <1>9, <1>10, <1>11, <1>12, <1>13, <1>14 DEF NodeStep

\* A step of c that is neither about to look at the rows nor to report the end.
LEMMA BrokerQuiet ==
  ASSUME SettleInv, NEW c \in Consumers, UNCHANGED <<wf, st, gateVars, workerVars>>,
         \A d \in Consumers \ {c} : BrokerSame(d),
         jpc[c] \notin {"readwf", "readtasks", "savewf"},
         \A m \in jtodo[c] : m \in jtodo'[c],
         jtodo'[c] # {} => jpc'[c] \in {"trigger", "publish"},
         jcur'[c] # NoMessage => jpc'[c] = "publish",
         jwf'[c] \in {jwf[c], "NONE"}
  PROVE  SettleInv'
<1>1. UNCHANGED <<npc, nsaga, ntodo, nrows, nwf>>
  BY DEF workerVars, callbackVars, txData
<1>2. \A d \in Consumers \ {c} : 
        /\ jpc'[d] = jpc[d] /\ jwf'[d] = jwf[d] /\ jtodo'[d] = jtodo[d]
        /\ jcur'[d] = jcur[d]
  BY DEF BrokerSame
<1>3. \A t : Announced(t) => Announced(t)'
  BY <1>1, <1>2 DEF Announced, InTx, Listed
<1>4. Closing => Closing'
  BY <1>1, <1>2 DEF Closing, NodeCloses, BrokerCloses
<1>5. \A n \in Nodes : Verdict(n)'
  BY <1>1 DEF SettleInv, Verdict, Listed
<1>6. \A d \in Consumers : Reading(d)'
  BY <1>2 DEF SettleInv, Reading
<1>. QED BY <1>3, <1>4, <1>5, <1>6, SettleStep

LEMMA BrokerSettles ==
  ASSUME Finishes, IInv, TurnsInv, SettleInv, Forward, NEW c \in Consumers,
         BrokerStep(c), UNCHANGED <<gateVars, workerVars>>
  PROVE  SettleInv'
<1>1. /\ NodeInv /\ InOrder /\ BrokersTell /\ BrokerTells(c) /\ TakeTurns
      /\ BrokerTypeOK /\ st \in [Tasks -> Status] /\ BrokerOK(c) /\ Reading(c)
      /\ jpc[c] # "idle" => Own(c) \in Tasks /\ gpc # "ready"
  BY JavaHands DEF TurnsInv, BrokersTell, IInv, TypeOK, StoreTypeOK, InvBroker,
     Finishes, SagaInLine, SettleInv
<1>2. \A d \in Consumers \ {c} : BrokerSame(d)
  BY <1>1, BrokerAlone
<1>3. jpc[c] \notin FailurePoints \cup {"rescue"} /\ ~BrokerRefuse(c)
  <2>1. jpc[c] # "idle" => ~CanBeRefused(jmsg[c])
    BY <1>1, NoRefusal
  <2>. QED BY <1>1, <2>1 DEF BrokerTells, BrokerRefuse
<1>4. UNCHANGED <<npc, nsaga, ntodo, nrows, nwf>>
  BY DEF workerVars, callbackVars, txData
<1>5. \A d \in Consumers \ {c} : 
        /\ jpc'[d] = jpc[d] /\ jwf'[d] = jwf[d] /\ jtodo'[d] = jtodo[d]
        /\ jcur'[d] = jcur[d]
  BY <1>2 DEF BrokerSame
<1>6. \A n \in Nodes : Verdict(n)' /\ (NodeCloses(n)' <=> NodeCloses(n))
  BY <1>4 DEF SettleInv, Verdict, Listed, NodeCloses
<1>7. \A t : (InTx(t)' <=> InTx(t)) /\ \A n \in Nodes : Listed(n, t)' <=> Listed(n, t)
  BY <1>4 DEF InTx, Listed
<1>8. CASE \/ BrokerDeliver(c) \/ BrokerLock(c) \/ BrokerLockTimeout(c)
           \/ BrokerCheck(c) \/ BrokerMarkRunning(c) \/ BrokerExecute(c)
           \/ BrokerPublish(c) \/ BrokerFinish(c)
  <2>1. wf' = wf /\ st' = st
    <3>1. CASE BrokerMarkRunning(c)
      BY <1>1, <3>1, MarkedAlready DEF BrokerMarkRunning
    <3>. QED BY <1>8, <3>1 DEF BrokerDeliver, BrokerLock, BrokerLockTimeout,
            BrokerCheck, BrokerExecute, BrokerPublish, BrokerFinish, storeVars
  <2>2. jpc[c] \notin {"readwf", "readtasks", "savewf"}
    BY <1>8 DEF BrokerDeliver, BrokerLock, BrokerLockTimeout, BrokerCheck,
       BrokerMarkRunning, BrokerExecute, BrokerPublish, BrokerFinish
  <2>3. CASE BrokerPublish(c)
    <3>1. /\ jtodo' = jtodo /\ jwf' = jwf /\ jcur'[c] = NoMessage
          /\ jtodo[c] # {} => jpc'[c] \in {"trigger", "publish"}
      BY <1>1, <2>3 DEF BrokerPublish, Goto, BrokerTypeOK
    <3>. QED BY <1>2, <2>1, <2>2, <3>1, BrokerQuiet
  <2>4. CASE BrokerFinish(c)
    <3>1. /\ jtodo'[c] = {} /\ jwf'[c] = "NONE" /\ jtodo[c] = {}
          /\ jcur'[c] = NoMessage
      BY <1>1, <2>4 DEF BrokerFinish, Reset, BrokerTypeOK, Reading
    <3>. QED BY <1>2, <2>1, <2>2, <3>1, BrokerQuiet
  <2>5. CASE ~BrokerPublish(c) /\ ~BrokerFinish(c)
    <3>1. /\ jtodo' = jtodo /\ jwf' = jwf /\ jtodo[c] = {}
          /\ jcur' = jcur /\ jcur[c] = NoMessage
      BY <1>1, <1>8, <2>5 DEF BrokerDeliver, BrokerLock, BrokerLockTimeout,
         BrokerCheck, BrokerMarkRunning, BrokerExecute, Reading, work
    <3>. QED BY <1>2, <2>1, <2>2, <3>1, BrokerQuiet
  <2>. QED BY <2>3, <2>4, <2>5
<1>9. CASE BrokerComplete(c)
  <2>1. /\ jpc[c] = "complete" /\ jpc'[c] = "readwf"
        /\ UNCHANGED <<wf, jwf, jtodo, jcur>>
        /\ st' = [st EXCEPT ![Own(c)] = "COMPLETED"]
    BY <1>1, <1>9 DEF BrokerComplete, SaveTask, Goto, BrokerTypeOK, work
  <2>2. \A t \in Tasks : st'[t] \in {st[t], "COMPLETED"}
    BY <1>1, <2>1
  <2>3. Closing' /\ \A t : Announced(t)'
    BY <2>1 DEF Closing, BrokerCloses, Announced
  <2>4. Attended' /\ Undoing'
    BY <2>1, <2>2, <2>3, KeysAreTasks DEF SettleInv, Attended, Undoing
  <2>5. \A d \in Consumers : Reading(d)'
    BY <1>1, <1>5, <2>1 DEF SettleInv, Reading
  <2>. QED BY <1>6, <2>4, <2>5 DEF SettleInv, gateVars
<1>10. CASE BrokerReadWorkflow(c)
  <2>1. /\ jpc[c] = "readwf" /\ jpc'[c] = "readtasks" /\ jwf'[c] = wf
        /\ UNCHANGED <<wf, st, jtodo, jcur>>
    BY <1>1, <1>10 DEF BrokerReadWorkflow, Goto, BrokerTypeOK, storeVars
  <2>2. Closing' /\ \A t : Announced(t)'
    BY <2>1 DEF Closing, BrokerCloses, Announced
  <2>3. \A d \in Consumers : Reading(d)'
    BY <1>1, <1>5, <2>1 DEF SettleInv, Reading
  <2>. QED BY <1>6, <2>1, <2>2, <2>3, SettleStep
<1>11. CASE BrokerReadTasks(c)
  <2>1. /\ jpc[c] = "readtasks" /\ UNCHANGED <<wf, st, jcur>>
        /\ jtodo[c] = {} /\ jcur[c] = NoMessage
    BY <1>1, <1>11 DEF BrokerReadTasks, storeVars, Reading
  <2>2. /\ jtodo'[c] # {} => jpc'[c] = "trigger"
        /\ jwf'[c] = "COMPENSATING" => jwf[c] = "COMPENSATING"
    BY <1>1, <1>11, <2>1 DEF BrokerReadTasks, Goto, BrokerTypeOK
  <2>3. \A d \in Consumers : Reading(d)'
    BY <1>1, <1>5, <2>1, <2>2 DEF SettleInv, Reading
  <2>4. Attended'
    <3>. SUFFICES ASSUME wf = "RUNNING"
                  PROVE  /\ \A t \in Ready(st) : Announced(t)'
                         /\ AllSettled(st) => Closing'
      BY <2>1 DEF SettleInv, Attended
    <3>1. jwf[c] # "COMPENSATING"
      BY <1>1 DEF Reading
    <3>2. CASE Ready(st) # {}
      <4>1. jtodo'[c] = {TaskMessage(t) : t \in Ready(st)}
        BY <1>1, <1>11, <3>1, <3>2 DEF BrokerReadTasks, BrokerTypeOK
      <4>2. ASSUME NEW t \in Ready(st) PROVE \E m \in jtodo'[c] : m.task = t
        <5>1. TaskMessage(t) \in jtodo'[c]
          BY <4>1
        <5>. QED BY <5>1 DEF TaskMessage
      <4>3. ~AllSettled(st)
        BY <3>2 DEF Ready, AllSettled
      <4>. QED BY <4>2, <4>3 DEF Announced
    <3>3. CASE Ready(st) = {}
      <4>1. AllSettled(st) => jpc'[c] = "savewf"
        BY <1>1, <1>11, <3>1, <3>3 DEF BrokerReadTasks, Goto, BrokerTypeOK
      <4>. QED BY <3>3, <4>1 DEF Closing, BrokerCloses
    <3>. QED BY <3>2, <3>3
  <2>5. Undoing'
    <3>. SUFFICES ASSUME wf = "COMPENSATING", ~CompensationsActive(st), Closing
                  PROVE  Closing'
      BY <2>1 DEF SettleInv, Undoing
    <3>1. CASE jwf[c] = "COMPENSATING"
      <4>1. jpc'[c] = "savewf"
        BY <1>1, <1>11, <3>1 DEF BrokerReadTasks, Goto, BrokerTypeOK
      <4>. QED BY <4>1 DEF Closing, BrokerCloses
    <3>2. CASE jwf[c] # "COMPENSATING"
      <4>1. ~BrokerCloses(c)
        BY <2>1, <3>2 DEF BrokerCloses
      <4>2. \A d \in Consumers \ {c} : BrokerCloses(d) => BrokerCloses(d)'
        BY <1>5, <2>1 DEF BrokerCloses
      <4>. QED BY <1>6, <4>1, <4>2 DEF Closing
    <3>. QED BY <3>1, <3>2
  <2>. QED BY <1>6, <2>3, <2>4, <2>5 DEF SettleInv, gateVars
<1>12. CASE BrokerTrigger(c)
  <2>1. PICK m \in jtodo[c] :
          /\ st' = [st EXCEPT ![m.task] = "RUNNING"]
          /\ jtodo' = [jtodo EXCEPT ![c] = @ \ {m}]
    BY <1>12 DEF BrokerTrigger, SaveTask
  <2>2. /\ jpc[c] = "trigger" /\ jpc'[c] = "publish" /\ UNCHANGED <<wf, jwf>>
        /\ jtodo'[c] = jtodo[c] \ {m} /\ m.task \in Tasks
    BY <1>1, <1>12, <2>1 DEF BrokerTrigger, Goto, BrokerTypeOK, Message
  <2>3. \A t \in Tasks : st'[t] = IF t = m.task THEN "RUNNING" ELSE st[t]
    BY <1>1, <2>1
  <2>4. Closing => Closing'
    <3>1. ~BrokerCloses(c)
      BY <2>2 DEF BrokerCloses
    <3>2. \A d \in Consumers \ {c} : BrokerCloses(d) => BrokerCloses(d)'
      BY <1>5, <2>2 DEF BrokerCloses
    <3>. QED BY <1>6, <3>1, <3>2 DEF Closing
  <2>5. Attended'
    <3>. SUFFICES ASSUME wf = "RUNNING"
                  PROVE  /\ \A t \in Tasks : st'[t] # "FAILED"
                         /\ \A t \in Ready(st)' : Announced(t)'
                         /\ ~AllSettled(st)'
      BY <2>2 DEF Attended
    <3>1. \A t \in Tasks : st'[t] # "FAILED"
      BY <2>3 DEF SettleInv, Attended
    <3>2. ASSUME NEW t \in Ready(st)' PROVE Announced(t)'
      <4>1. t \in Tasks /\ st'[t] = "PENDING" /\ DepsMet(t, st')
        BY DEF Ready
      <4>2. t # m.task /\ st[t] = "PENDING" /\ Deps(t) \subseteq Tasks
        BY <2>3, <4>1, DepsType
      <4>3. Announced(t)
        BY <2>3, <4>1, <4>2 DEF SettleInv, Attended, DepsMet, Ready
      <4>4. (\E x \in jtodo[c] : x.task = t) => \E x \in jtodo'[c] : x.task = t
        BY <2>2, <4>2
      <4>. QED BY <1>4, <1>5, <1>7, <2>2, <4>3, <4>4 DEF Announced
    <3>3. ~AllSettled(st)'
      BY <2>2, <2>3 DEF AllSettled
    <3>. QED BY <3>1, <3>2, <3>3
  <2>6. Undoing'
    BY <2>2, <2>3, <2>4, KeysAreTasks DEF SettleInv, Undoing, CompensationsActive
  <2>7. \A d \in Consumers : Reading(d)'
    BY <1>1, <1>5, <2>2 DEF SettleInv, Reading
  <2>. QED BY <1>6, <2>5, <2>6, <2>7 DEF SettleInv, gateVars
<1>13. CASE BrokerSaveWorkflow(c)
  <2>1. /\ jpc[c] = "savewf" /\ wf' = jwf[c] /\ jpc'[c] = "finish"
        /\ UNCHANGED <<jwf, jtodo, jcur>>
    BY <1>1, <1>3, <1>13 DEF BrokerSaveWorkflow, SaveWorkflow, Goto, BrokerTypeOK, work
  <2>2. wf' \in {"COMPLETED", "FAILED"}
    BY <1>1, <2>1 DEF BrokerOK
  <2>3. \A d \in Consumers : Reading(d)'
    BY <1>1, <1>5, <2>1, <2>2 DEF SettleInv, Reading
  <2>. QED BY <1>6, <2>2, <2>3 DEF SettleInv, Attended, Undoing, gateVars
<1>. QED BY <1>3, <1>8, <1>9, <1>10, <1>11, <1>12, <1>13
         DEF BrokerStep, FailurePoints, BrokerFailTask, BrokerFailWorkflow, BrokerCompensate

LEMMA GateSettles ==
  ASSUME Finishes, IInv, SettleInv, GateSubmit \/ GatePublish \/ GateReply,
         UNCHANGED <<brokerVars, workerVars>>
  PROVE  SettleInv'
<1>1. UNCHANGED <<npc, nsaga, ntodo, nrows, nwf, jpc, jwf, jtodo, jcur>>
  BY DEF workerVars, callbackVars, txData, brokerVars, work
<1>2. \A n \in Nodes : Verdict(n)'
  BY <1>1 DEF SettleInv, Verdict, Listed
<1>3. CASE GateSubmit
  <2>1. /\ gpc' = "publish" /\ wf' = "RUNNING" /\ wf = "NONE"
        /\ \A t \in Tasks :
             st'[t] = IF t \in Roots THEN "RUNNING" ELSE "PENDING"
    BY <1>3 DEF GateSubmit, IInv, InvOutcome
  <2>2. ASSUME NEW t \in Ready(st)' PROVE FALSE
    <3>1. t \in Tasks /\ st'[t] = "PENDING" /\ DepsMet(t, st')
      BY DEF Ready
    <3>2. Deps(t) # {} /\ Deps(t) \subseteq Tasks
      BY <2>1, <3>1, DepsType DEF Roots
    <3>3. PICK d \in Deps(t) : d \in Tasks /\ st'[d] = "COMPLETED"
      BY <3>1, <3>2 DEF DepsMet
    <3>. QED BY <2>1, <3>3
  <2>3. ~AllSettled(st)'
    <3>1. PICK t \in Tasks : TRUE
      BY DEF Finishes, Visible
    <3>2. st'[t] \in {"RUNNING", "PENDING"}
      BY <2>1
    <3>. QED BY <3>1, <3>2 DEF AllSettled
  <2>4. Attended' /\ Undoing'
    BY <2>1, <2>2, <2>3 DEF Attended, Undoing
  <2>5. \A c \in Consumers : Reading(c)'
    BY <1>1, <2>1 DEF SettleInv, Reading
  <2>. QED BY <1>2, <2>1, <2>4, <2>5 DEF SettleInv
<1>4. CASE GatePublish \/ GateReply
  <2>1. UNCHANGED <<wf, st>> /\ (gpc' = "replied" => gtodo' = {})
    BY <1>4 DEF GatePublish, GateReply, storeVars
  <2>2. Attended' /\ Undoing' /\ \A c \in Consumers : Reading(c)'
    BY <1>1, <2>1 DEF SettleInv, Attended, Undoing, Announced, Closing, NodeCloses,
       BrokerCloses, Reading, Listed, InTx
  <2>. QED BY <1>2, <2>1, <2>2 DEF SettleInv
<1>. QED BY <1>3, <1>4

LEMMA NextSettles ==
  ASSUME Finishes, IInv, TurnsInv, SettleInv, [Next]_vars
  PROVE  SettleInv'
<1>. TakeTurns /\ NodeInv
  BY DEF Finishes, SagaInLine, TurnsInv
<1>1. ASSUME UNCHANGED <<wf, st, gateVars, jpc, work, workerVars>> PROVE SettleInv'
  <2>1. UNCHANGED <<npc, nsaga, ntodo, nrows, nwf, jwf, jtodo, jcur>>
    BY <1>1 DEF workerVars, callbackVars, txData, work
  <2>2. /\ \A t : Announced(t) => Announced(t)'
        /\ Closing => Closing'
        /\ \A n \in Nodes : Verdict(n)'
        /\ \A c \in Consumers : Reading(c)'
    BY <1>1, <2>1 DEF SettleInv, Announced, Closing, NodeCloses, BrokerCloses,
       Verdict, Reading, Listed, InTx
  <2>. QED BY <1>1, <2>2, SettleStep
<1>2. CASE UNCHANGED vars
  BY <1>1, <1>2 DEF vars, storeVars, brokerVars
<1>3. ~GateCrash
  BY DEF GateCrash, Fault, Finishes
<1>4. CASE /\ GateSubmit \/ GatePublish \/ GateReply \/ GateCrash
           /\ UNCHANGED <<brokerVars, workerVars>>
  BY <1>3, <1>4, GateSettles
<1>5. CASE BrokersMove /\ UNCHANGED <<gateVars, workerVars>>
  <2>1. CASE \E c \in Consumers : BrokerStep(c)
    BY <1>5, <2>1, BrokerSettles, NextTurns
  <2>2. CASE ~\E c \in Consumers : BrokerStep(c)
    BY <1>1, <1>5, <2>2
       DEF BrokersMove, BrokerRedeliver, LockExpire, RedisRestart, storeVars
  <2>. QED BY <2>1, <2>2
<1>6. CASE /\ \E n \in Nodes : NodeStep(n)
           /\ UNCHANGED <<gateVars, brokerVars, link>>
  BY <1>6, NodeSettles
<1>. QED BY <1>2, <1>4, <1>5, <1>6, NodeSteps

\* When nobody works, a task that is not settled is ready or waits for one that
\* is not settled; a DAG that passed ValidateDAG has a first one.  With all of
\* them COMPLETED the task that was to fail did not, so no task waits for it.
LEMMA QuietIsClosed ==
  ASSUME Finishes, IInv, TurnsInv, NoLostTask, SettleInv, Quiet
  PROVE  Closed
<1>1. /\ gpc = "replied" /\ gtodo = {} /\ \A q \in Queues : queue[q] = <<>>
      /\ \A n \in Nodes : npc[n] = "idle" /\ ntodo[n] = {}
      /\ \A c \in Consumers : jpc[c] = "idle" /\ jtodo[c] = {} /\ jcur[c] = NoMessage
  BY DEF Quiet, SettleInv, Reading, TurnsInv, NodeInv, OneTransaction, Transaction
<1>2. ~Closing /\ \A t : ~Announced(t)
  BY <1>1 DEF Closing, NodeCloses, BrokerCloses, Announced, InTx, Listed
<1>3. \A t \in Tasks : st[t] # "RUNNING"
  <2>. SUFFICES ASSUME NEW t \in Tasks
                PROVE  ~Queued(t) /\ ~BeingPublished(t) /\ ~InHands(t)
    BY DEF NoLostTask
  <2>1. \A c \in Consumers : jcur[c].task # t
    BY <1>1, DagAssumption DEF NoMessage
  <2>. QED BY <1>1, <2>1, EmptySeq DEF Queued, BeingPublished, InHands
<1>4. wf # "COMPENSATING"
  BY <1>2, <1>3, KeysAreTasks DEF SettleInv, Undoing, CompensationsActive
<1>. SUFFICES ASSUME wf = "RUNNING" PROVE FALSE
  <2>1. wf \in WfStatus /\ wf # "NONE"
    BY <1>1 DEF IInv, InvOutcome, TypeOK, StoreTypeOK
  <2>. QED BY <1>4, <2>1 DEF WfStatus, Closed
<1>5. \A t \in Tasks : st[t] \in {"PENDING", "COMPLETED"}
  <2>1. st \in [Tasks -> Status] /\ \A t \in Tasks : st[t] # "NONE"
    BY <1>1 DEF IInv, InvRows, TypeOK, StoreTypeOK
  <2>2. \A t \in Tasks : st[t] # "FAILED"
    BY DEF SettleInv, Attended
  <2>. QED BY <1>3, <2>1, <2>2 DEF Status
<1>6. Ready(st) = {}
  BY <1>2 DEF SettleInv, Attended
<1>7. \A t \in Visible : st[t] = "COMPLETED"
  <2>. DEFINE S == {t \in Visible : st[t] = "PENDING"}
  <2>. SUFFICES ASSUME S # {} PROVE FALSE
    BY <1>5 DEF Visible
  <2>1. PICK t \in S : Deps(t) \cap S = {}
    BY DEF Finishes
  <2>2. t \in Tasks /\ Deps(t) \subseteq Visible /\ SagaFail \notin Deps(t)
    BY DEF Finishes, Visible, Hidden
  <2>3. \A d \in Deps(t) : st[d] = "COMPLETED"
    BY <1>5, <2>1, <2>2 DEF Visible
  <2>. QED BY <1>6, <2>2, <2>3 DEF Ready, DepsMet
<1>8. \A f \in Tasks : ~MayFail(f)
  <2>. SUFFICES ASSUME NEW f \in Tasks, MayFail(f) PROVE FALSE
    OBVIOUS
  <2>1. ~Hidden(f) /\ Dag[f].chaos # "none"
    BY DEF MayFail
  <2>2. HasRun(f)
    BY <1>7, <2>1 DEF Visible, IInv, InvRows
  <2>. QED BY <2>1, <2>2 DEF TurnsInv, NodeInv, RowsTell
<1>9. Visible = Tasks
  BY <1>8 DEF Finishes
<1>. QED BY <1>2, <1>7, <1>9 DEF SettleInv, Attended, AllSettled

\* The engine never falls silent with the workflow open: what becomes ready is
\* published, whoever settles the last task sees that it was the last, and whoever
\* undoes the last one that it was undone.  For brokers and pods that take their
\* turns, and tasks that fail, hang or kill their pod.
THEOREM NothingStalls ==
  ASSUME Finishes
  PROVE  Spec => []NoStall
<1>1. TakeTurns /\ "gate" \notin FaultKinds
  BY DEF Finishes, SagaInLine
<1>2. Init => SettleInv
  BY DEF Init, StoreInit, GateInit, BrokerInit, WorkerInit, SettleInv, Verdict,
         Reading, Attended, Undoing
<1>3. IInv /\ TurnsInv /\ SettleInv /\ [Next]_vars => SettleInv'
  BY NextSettles
<1>4. IInv /\ TurnsInv /\ NoLostTask /\ SettleInv => NoStall
  BY QuietIsClosed DEF NoStall
<1>5. Spec => [](IInv /\ TurnsInv)
  BY <1>1, TurnsInvariant
<1>6. Spec => []NoLostTask
  BY <1>1, NothingMissing
<1>. QED BY <1>2, <1>3, <1>4, <1>5, <1>6, PTL DEF Spec
=============================================================================
