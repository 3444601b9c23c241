--------------------------- MODULE ReddoRefinement ---------------------------
(***************************************************************************)
(* Reddo implements DagRun, for every DAG, any executors and any faults.   *)
(* A step of Reddo changes at most one of runs, faulted and wf.            *)
(***************************************************************************)
EXTENDS ReddoSafetyProofs

Abstract == [Promise!DagNext]_(Promise!dagVars)

LEMMA Expanded ==
  /\ Promise!DagInit <=> /\ {t \in Tasks : HasRun(t)} = {}
                         /\ faulted = {} /\ (faults > 0) = FALSE /\ wf = "NONE"
  /\ \A t \in Tasks : Allowed(t) => Promise!MayRun(t)
<1>1. Promise!DagInit <=> /\ {t \in Tasks : HasRun(t)} = {}
                          /\ faulted = {} /\ (faults > 0) = FALSE /\ wf = "NONE"
  BY DEF Promise!DagInit
<1>2. ASSUME NEW t \in Tasks, Allowed(t) PROVE Promise!MayRun(t)
  <2>1. CASE SagaFail \notin Deps(t) /\ \A d \in Deps(t) : HasRun(d)
    BY <2>1, DepsType DEF Promise!MayRun
  <2>2. CASE CalledFor(t)
    BY <2>2 DEF CalledFor, Promise!MayRun
  <2>. QED BY <1>2, <2>1, <2>2 DEF Allowed
<1>. QED BY <1>1, <1>2

LEMMA QuietStep ==
  ASSUME faults \in Nat, runs' = runs, faulted' = faulted, wf' = wf,
         faults' = faults \/ faults' = faults + 1
  PROVE  Abstract
<1>1. {t \in Tasks : HasRun(t)}' = {t \in Tasks : HasRun(t)}
  BY DEF HasRun
<1>2. CASE faults' = faults
  BY <1>1, <1>2 DEF Abstract, Promise!dagVars
<1>3. CASE faults' = faults + 1
  <2>1. (faults > 0)' = TRUE
    BY <1>3
  <2>2. Promise!Disturb
    BY <1>1, <2>1 DEF Promise!Disturb
  <2>. QED BY <2>2 DEF Abstract, Promise!DagNext
<1>. QED BY <1>2, <1>3

LEMMA EffectStep ==
  ASSUME runs \in [Tasks -> 0 .. 2], wf # "NONE", NEW u \in Tasks, Allowed(u), Ran(u),
         UNCHANGED <<wf, faulted, faults>>
  PROVE  Abstract
<1>1. {t \in Tasks : HasRun(t)}' = {t \in Tasks : HasRun(t)} \cup {u}
  BY RanMono
<1>2. Promise!TakeEffect(u)
  BY <1>1, Expanded DEF Promise!TakeEffect
<1>. QED BY <1>2 DEF Abstract, Promise!DagNext

LEMMA FailStep ==
  ASSUME faults \in Nat, wf # "NONE", NEW u \in Tasks, Allowed(u),
         faulted' = faulted \cup {u}, runs' = runs, wf' = wf,
         faults' = faults \/ faults' = faults + 1
  PROVE  Abstract
<1>1. {t \in Tasks : HasRun(t)}' = {t \in Tasks : HasRun(t)}
  BY DEF HasRun
<1>2. (faults > 0)' \in {faults > 0, TRUE}
  <2>1. CASE faults' = faults
    BY <2>1
  <2>2. CASE faults' = faults + 1
    <3>1. (faults > 0)' = TRUE
      BY <2>2
    <3>. QED BY <3>1
  <2>. QED BY <2>1, <2>2
<1>3. Promise!FailTask(u)
  BY <1>1, <1>2, Expanded DEF Promise!FailTask
<1>. QED BY <1>3 DEF Abstract, Promise!DagNext

LEMMA ReportStep ==
  ASSUME wf # "NONE", NEW s \in {"COMPLETED", "COMPENSATING", "FAILED"}, Backed(s),
         wf' = s, UNCHANGED <<runs, faulted, faults>>
  PROVE  Abstract
<1>1. {t \in Tasks : HasRun(t)}' = {t \in Tasks : HasRun(t)}
  BY DEF HasRun
<1>2. s = "COMPLETED" => Tasks \subseteq {t \in Tasks : HasRun(t)} \cup faulted
  BY DEF Backed, Attempted
<1>3. Promise!Report(s)
  BY <1>1, <1>2 DEF Promise!Report, Backed
<1>. QED BY <1>3 DEF Abstract, Promise!DagNext

---------------------------------------------------------------------------
(* The actions, sorted by the abstract step they take. *)

LEMMA GateImplements ==
  ASSUME IInv, GateNext
  PROVE  Abstract
<1>0. faults \in Nat
  BY DEF IInv, TypeOK, StoreTypeOK
<1>1. CASE GateSubmit
  <2>1. {t \in Tasks : HasRun(t)}' = {t \in Tasks : HasRun(t)}
    BY <1>1 DEF GateSubmit, HasRun
  <2>2. Promise!Submit
    BY <1>1, <2>1 DEF GateSubmit, Promise!Submit, IInv, InvOutcome
  <2>. QED BY <2>2 DEF Abstract, Promise!DagNext
<1>2. CASE ~GateSubmit
  <2>1. /\ UNCHANGED <<runs, faulted, wf>>
        /\ faults' = faults \/ faults' = faults + 1
    BY <1>2 DEF GateNext, GateStep, GatePublish, GatePublishFails, GateReply,
       GateCrash, storeVars, Fault
  <2>. QED BY <1>0, <2>1, QuietStep
<1>. QED BY <1>1, <1>2

LEMMA BrokerImplements ==
  ASSUME IInv, NEW c \in Consumers, BrokerStep(c) \/ BrokerFault(c)
  PROVE  Abstract
<1>0. faults \in Nat /\ runs \in [Tasks -> 0 .. 2] /\ BrokerOK(c) /\ TypeOK
  BY DEF IInv, TypeOK, StoreTypeOK, InvBroker
<1>1. ASSUME jpc[c] # "idle"
      PROVE  Own(c) \in Tasks /\ Allowed(Own(c)) /\ wf # "NONE"
  BY <1>0, <1>1, OwnTask DEF IInv, InvOutcome, BrokerOK, Good, Own
<1>2. CASE BrokerExecute(c)
  <2>1. jpc[c] # "idle" /\ Ran(Own(c)) /\ UNCHANGED <<wf, faulted, faults>>
    BY <1>2 DEF BrokerExecute
  <2>. QED BY <1>0, <1>1, <2>1, EffectStep
<1>3. CASE BrokerRefuse(c)
  <2>1. /\ jpc[c] # "idle" /\ faulted' = faulted \cup {Own(c)}
        /\ UNCHANGED <<runs, wf, faults>>
    BY <1>3 DEF BrokerRefuse, EnterFailure
  <2>. QED BY <1>0, <1>1, <2>1, FailStep
<1>4. CASE BrokerError(c)
  <2>1. UNCHANGED <<runs, wf>> /\ faults' = faults + 1
    BY <1>4 DEF BrokerError, Fault
  <2>2. jpc[c] # "idle"
    BY <1>4 DEF BrokerError, ProcessPoints, FailurePoints
  <2>3. faulted' = faulted \/ faulted' = faulted \cup {Own(c)}
    BY <1>4 DEF BrokerError, EnterFailure
  <2>. QED BY <1>0, <1>1, <2>1, <2>2, <2>3, QuietStep, FailStep
<1>5. CASE BrokerSaveWorkflow(c)
  <2>1. /\ jpc[c] \in {"savewf", "rescue"} /\ wf' = jwf[c]
        /\ UNCHANGED <<runs, faulted, faults>>
    BY <1>5 DEF BrokerSaveWorkflow, SaveWorkflow
  <2>2. jwf[c] \in {"COMPLETED", "FAILED"} /\ Backed(jwf[c])
    BY <1>0, <2>1 DEF BrokerOK
  <2>. QED BY <1>1, <2>1, <2>2, ReportStep
<1>6. CASE BrokerFailWorkflow(c)
  <2>1. /\ jpc[c] = "failwf" /\ wf' = "COMPENSATING"
        /\ UNCHANGED <<runs, faulted, faults>>
    BY <1>6 DEF BrokerFailWorkflow, SaveWorkflow
  <2>2. Own(c) \in faulted
    BY <1>0, <2>1 DEF BrokerOK, FailurePoints
  <2>3. Backed("COMPENSATING")
    BY <2>2 DEF Backed
  <2>. QED BY <1>1, <2>1, <2>3, ReportStep
<1>7. CASE \/ BrokerDeliver(c) \/ BrokerLock(c) \/ BrokerLockTimeout(c)
           \/ BrokerCheck(c) \/ BrokerMarkRunning(c) \/ BrokerComplete(c)
           \/ BrokerReadWorkflow(c) \/ BrokerReadTasks(c) \/ BrokerTrigger(c)
           \/ BrokerPublish(c) \/ BrokerFailTask(c) \/ BrokerCompensate(c)
           \/ BrokerFinish(c) \/ BrokerPublishFails(c) \/ BrokerCrash(c)
           \/ BrokerRedeliver(c)
  <2>1. /\ UNCHANGED <<runs, faulted, wf>>
        /\ faults' = faults \/ faults' = faults + 1
    BY <1>7 DEF BrokerDeliver, BrokerLock, BrokerLockTimeout, BrokerCheck,
       BrokerMarkRunning, BrokerComplete, BrokerReadWorkflow, BrokerReadTasks,
       BrokerTrigger, BrokerPublish, BrokerFailTask, BrokerCompensate,
       BrokerFinish, BrokerPublishFails, BrokerCrash, BrokerRedeliver, storeVars,
       Fault
  <2>. QED BY <1>0, <2>1, QuietStep
<1>. QED BY <1>2, <1>3, <1>4, <1>5, <1>6, <1>7 DEF BrokerStep, BrokerFault

LEMMA LocksImplement ==
  ASSUME IInv, RedisRestart \/ \E t \in Tasks : LockExpire(t)
  PROVE  Abstract
<1>1. faults \in Nat
  BY DEF IInv, TypeOK, StoreTypeOK
<1>2. /\ UNCHANGED <<runs, faulted, wf>>
      /\ faults' = faults \/ faults' = faults + 1
  BY DEF RedisRestart, LockExpire, storeVars, Fault
<1>. QED BY <1>1, <1>2, QuietStep

LEMMA WorkerImplements ==
  ASSUME IInv, NEW n \in Nodes, WorkerStep(n) \/ WorkerFault(n)
  PROVE  Abstract
<1>0. faults \in Nat /\ runs \in [Tasks -> 0 .. 2] /\ WorkerOK(n) /\ TypeOK
  BY DEF IInv, TypeOK, StoreTypeOK, InvWorker
<1>1. ASSUME npc[n] # "idle"
      PROVE  Mine(n) \in Tasks /\ Allowed(Mine(n)) /\ wf # "NONE"
  BY <1>0, <1>1, MineTask DEF IInv, InvOutcome, WorkerOK, Good, Mine
<1>2. CASE WorkerExecute(n)
  <2>1. npc[n] # "idle" /\ Ran(Mine(n)) /\ UNCHANGED <<wf, faulted, faults>>
    BY <1>2 DEF WorkerExecute
  <2>. QED BY <1>0, <1>1, <2>1, EffectStep
<1>3. CASE WorkerExecuteFails(n)
  <2>1. /\ npc[n] # "idle" /\ faulted' = faulted \cup {Mine(n)}
        /\ UNCHANGED <<runs, wf, faults>>
    BY <1>3 DEF WorkerExecuteFails
  <2>. QED BY <1>0, <1>1, <2>1, FailStep
<1>4. CASE \/ WorkerUnsupported(n) \/ WorkerDeadlockVictim(n) \/ WorkerError(n)
           \/ WorkerPublishFails(n)
  <2>1. /\ UNCHANGED <<runs, wf>>
        /\ faults' = faults \/ faults' = faults + 1
    BY <1>4 DEF WorkerUnsupported, WorkerDeadlockVictim, WorkerError,
       WorkerPublishFails, Fault
  <2>2. npc[n] # "idle"
    BY <1>4 DEF WorkerUnsupported, WorkerDeadlockVictim, WorkerError,
       WorkerPublishFails, Victim, WaitsFor, Wanted
  <2>3. faulted' = faulted \/ faulted' = faulted \cup {Mine(n)}
    BY <1>4 DEF WorkerUnsupported, WorkerDeadlockVictim, WorkerError,
       WorkerPublishFails, RollbackAndThrow
  <2>. QED BY <1>0, <1>1, <2>1, <2>2, <2>3, QuietStep, FailStep
<1>5. CASE WorkerCommit(n)
  <2>1. /\ npc[n] = "publish" /\ wf' = IF nwf[n] = "NONE" THEN wf ELSE nwf[n]
        /\ UNCHANGED <<runs, faulted, faults>>
    BY <1>5 DEF WorkerCommit
  <2>2. CASE nwf[n] = "NONE"
    BY <1>0, <2>1, <2>2, QuietStep
  <2>3. CASE nwf[n] # "NONE"
    <3>1. nwf[n] \in {"COMPLETED", "COMPENSATING", "FAILED"} /\ Backed(nwf[n])
      BY <1>0, <2>3 DEF WorkerOK, TypeOK, WorkerTypeOK, WfStatus
    <3>. QED BY <1>1, <2>1, <2>3, <3>1, ReportStep
  <2>. QED BY <2>2, <2>3
<1>6. CASE \/ WorkerDeliver(n) \/ WorkerCheck(n) \/ WorkerMarkRunning(n)
           \/ WorkerFatalCrash(n) \/ WorkerComplete(n) \/ WorkerReadDag(n)
           \/ WorkerFailTask(n) \/ WorkerFailWorkflow(n) \/ WorkerPublish(n)
           \/ WorkerAck(n) \/ WorkerCrash(n)
  <2>1. /\ UNCHANGED <<runs, faulted, wf>>
        /\ faults' = faults \/ faults' = faults + 1
    BY <1>6 DEF WorkerDeliver, WorkerCheck, WorkerMarkRunning, WorkerFatalCrash,
       WorkerComplete, WorkerReadDag, WorkerFailTask, WorkerFailWorkflow,
       WorkerPublish, WorkerAck, WorkerCrash, storeVars, Fault
  <2>. QED BY <1>0, <2>1, QuietStep
<1>. QED BY <1>2, <1>3, <1>4, <1>5, <1>6 DEF WorkerStep, WorkerFault

LEMMA ShutdownImplements ==
  ASSUME IInv, NEW n \in Nodes, PodShutdown(n)
  PROVE  Abstract
<1>0. faults \in Nat /\ WorkerOK(n) /\ TypeOK
  BY DEF IInv, TypeOK, StoreTypeOK, InvWorker
<1>1. /\ UNCHANGED <<wf, st, runs>>
      /\ faults' = faults \/ faults' = faults + 1
      /\ Detached(n) \/ (npc[n] # "idle" /\ RollbackAndThrow(n)) \/ Vanished(n)
  BY <1>0, ShutdownCases DEF TypeOK
<1>2. CASE faulted' = faulted
  BY <1>0, <1>1, <1>2, QuietStep
<1>3. CASE npc[n] # "idle" /\ faulted' = faulted \cup {Mine(n)}
  <2>1. Mine(n) \in Tasks /\ Allowed(Mine(n)) /\ wf # "NONE"
    BY <1>0, <1>3, MineTask DEF IInv, InvOutcome, WorkerOK, Good, Mine
  <2>. QED BY <1>0, <1>1, <1>3, <2>1, FailStep
<1>. QED BY <1>1, <1>2, <1>3 DEF Detached, Vanished, RollbackAndThrow

LEMMA StepImplements == IInv /\ [Next]_vars => Abstract
<1>. SUFFICES ASSUME IInv, [Next]_vars PROVE Abstract
  OBVIOUS
<1>1. CASE GateNext
  BY <1>1, GateImplements
<1>2. CASE BrokerNext
  BY <1>2, BrokerImplements, LocksImplement DEF BrokerNext
<1>3. CASE PodNext
  BY <1>3, PodCallback, WorkerImplements, ShutdownImplements DEF PodNext
<1>4. CASE UNCHANGED vars
  <2>1. faults \in Nat /\ UNCHANGED <<runs, faulted, wf, faults>>
    BY <1>4 DEF IInv, TypeOK, StoreTypeOK, vars, storeVars
  <2>. QED BY <2>1, QuietStep
<1>. QED BY <1>1, <1>2, <1>3, <1>4 DEF Next

LEMMA InitImplements == Init => Promise!DagInit
<1>. SUFFICES ASSUME Init PROVE Promise!DagInit
  OBVIOUS
<1>1. {t \in Tasks : HasRun(t)} = {}
  BY DEF Init, StoreInit, HasRun
<1>2. (faults > 0) = FALSE
  BY DEF Init, StoreInit
<1>. QED BY <1>1, <1>2 DEF Init, StoreInit, Promise!DagInit

\* Whatever brokers, workers and their infrastructure do, the submitter sees a
\* run of DagRun: tasks take effect or fail only when they may, and every
\* outcome reported is backed by what was attempted.
THEOREM Implements == Spec => ImplementsDagRun
<1>1. IInv /\ [Next]_vars => [Promise!DagNext]_(Promise!dagVars)
  BY StepImplements DEF Abstract
<1>. QED
  BY <1>1, InitImplements, Invariance, PTL
     DEF Spec, ImplementsDagRun, Promise!DagSpec
=============================================================================
