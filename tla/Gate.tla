-------------------------------- MODULE Gate --------------------------------
(***************************************************************************)
(* POST /api/v1/workflows of the API gateway (Go): the workflow and its    *)
(* task rows are inserted in one SQL transaction, then the root tasks are  *)
(* published one by one.  Validation of the DAG (Kahn.tla) comes before:   *)
(* Dag is a DAG that passed it.  A second submission of the same id hits   *)
(* the primary key and changes nothing, so one submission is modelled.     *)
(***************************************************************************)
EXTENDS SagaStore

VARIABLES
  gpc,    \* "ready", "publish" (rows committed), "replied"
  gtodo   \* root messages not published yet

gateVars == <<gpc, gtodo>>

GateInit == gpc = "ready" /\ gtodo = {}

GateTypeOK ==
  /\ gpc \in {"ready", "publish", "replied"}
  /\ gtodo \in SUBSET Message

\* SubmitWorkflow, steps 2 and 3: the rows become visible together.
GateSubmitQueued ==
  /\ gpc = "ready"
  /\ wf' = "RUNNING"
  /\ st' = [t \in Tasks |-> IF t \in Roots THEN "QUEUED" ELSE "PENDING"]
  /\ gtodo' = {TaskMessage(t) : t \in Roots}
  /\ gpc' = "publish"
  /\ UNCHANGED <<queue, txLocks, runs, faulted, faults>>
GateSubmit ==
  /\ gpc = "ready"
  /\ wf' = "RUNNING"
  /\ st' = [t \in Tasks |-> IF t \in Roots THEN "RUNNING" ELSE "PENDING"]
  /\ gtodo' = {TaskMessage(t) : t \in Roots}
  /\ gpc' = "publish"
  /\ UNCHANGED <<queue, txLocks, runs, faulted, faults>>

\* Step 4: publish one root task.  An unsupported worker type is an error
\* collected for the reply; its row stays RUNNING.
GatePublishDropped ==
  /\ gpc = "publish"
  /\ \E m \in gtodo : gtodo' = gtodo \ {m}
  /\ UNCHANGED <<wf, st, queue, txLocks, runs, faulted, faults, gpc>>
GatePublish ==
  /\ gpc = "publish"
  /\ \E m \in gtodo : Send(m) /\ gtodo' = gtodo \ {m}
  /\ UNCHANGED <<wf, st, txLocks, runs, faulted, faults, gpc>>

\* The publish call fails: the error is collected, the loop goes on.
GatePublishFails ==
  /\ gpc = "publish"
  /\ Fault("publish")
  /\ \E m \in gtodo : gtodo' = gtodo \ {m}
  /\ UNCHANGED <<wf, st, queue, txLocks, runs, faulted, gpc>>

GateReply ==
  /\ gpc = "publish"
  /\ gtodo = {}
  /\ gpc' = "replied"
  /\ UNCHANGED <<storeVars, gtodo>>

\* The process dies between COMMIT and the last publish; nothing republishes.
GateCrash ==
  /\ gpc = "publish"
  /\ Fault("gate")
  /\ gpc' = "replied"
  /\ gtodo' = {}
  /\ UNCHANGED <<wf, st, queue, txLocks, runs, faulted>>

GateStep == GateSubmit \/ GatePublish \/ GateReply
GateNext == GateStep \/ GatePublishFails \/ GateCrash
=============================================================================
