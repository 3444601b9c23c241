-------------------------------- MODULE DagRun --------------------------------
(***************************************************************************)
(* What the engine promises the submitter of a DAG, without rows, queues,  *)
(* locks or processes: a task takes effect only when it may, a task may    *)
(* fail instead, and the outcome that GET and the dashboard report is      *)
(* backed by what was attempted.  It does not promise that a task takes    *)
(* effect once, nor that an outcome is the last one: Reddo does not        *)
(* provide either.                                                         *)
(***************************************************************************)
CONSTANTS
  Task,    \* task keys
  Needs,   \* task -> tasks it depends on
  Hidden,  \* tasks no forward progress may start
  UndoOf   \* task -> tasks whose compensation it is

VARIABLES
  ran,        \* tasks that have taken effect at least once
  failed,     \* tasks of which some execution failed
  disturbed,  \* some component or connection has failed
  outcome     \* status of the workflow ("NONE": not submitted)

dagVars == <<ran, failed, disturbed, outcome>>

DagInit == ran = {} /\ failed = {} /\ disturbed = FALSE /\ outcome = "NONE"

MayRun(t) ==
  \/ t \notin Hidden /\ Needs[t] \subseteq ran
  \/ failed # {} /\ UndoOf[t] \cap ran # {}

Submit ==
  /\ outcome = "NONE"
  /\ outcome' = "RUNNING"
  /\ UNCHANGED <<ran, failed, disturbed>>

TakeEffect(t) ==
  /\ outcome # "NONE"
  /\ MayRun(t)
  /\ ran' = ran \cup {t}
  /\ UNCHANGED <<failed, disturbed, outcome>>

\* A task fails by itself or because its infrastructure did.
FailTask(t) ==
  /\ outcome # "NONE"
  /\ MayRun(t)
  /\ failed' = failed \cup {t}
  /\ disturbed' \in {disturbed, TRUE}
  /\ UNCHANGED <<ran, outcome>>

Disturb ==
  /\ disturbed' = TRUE
  /\ UNCHANGED <<ran, failed, outcome>>

Report(status) ==
  /\ outcome # "NONE"
  /\ \/ status = "COMPLETED" /\ Task \subseteq ran \cup failed
     \/ status = "COMPENSATING" /\ failed # {}
     \/ status = "FAILED" /\ (failed # {} \/ disturbed)
  /\ outcome' = status
  /\ UNCHANGED <<ran, failed, disturbed>>

DagNext ==
  \/ Submit
  \/ \E t \in Task : TakeEffect(t) \/ FailTask(t)
  \/ Disturb
  \/ \E status \in {"COMPLETED", "COMPENSATING", "FAILED"} : Report(status)

DagSpec == DagInit /\ [][DagNext]_dagVars
=============================================================================
