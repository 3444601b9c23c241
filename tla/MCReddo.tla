------------------------------- MODULE MCReddo -------------------------------
(***************************************************************************)
(* Instances of Reddo: the DAGs are those of the repository's samples      *)
(* (insomnia/, cannon's templates, kahn_test.go), reduced to what the      *)
(* engine looks at.                                                        *)
(***************************************************************************)
EXTENDS ReddoInvariant

Task(worker, deps, comp, key, chaos) ==
  [worker |-> worker, dependencies |-> deps, compensation |-> comp,
   key |-> key, chaos |-> chaos, refusable |-> FALSE]

Plain(worker, deps) == Task(worker, deps, "none", "unknown", "none")

\* a, then b and c in parallel, then d: the join is where two executors meet.
Diamond ==
  [a |-> Plain("java", {}),
   b |-> Plain("node", {"a"}),
   c |-> Plain("java", {"a"}),
   d |-> Plain("node", {"b", "c"})]

Chain ==
  [a |-> Plain("java", {}),
   b |-> Plain("node", {"a"}),
   c |-> Plain("java", {"b"})]

\* "Saga Compensation": the charge is undone when the reservation fails.  The
\* sentinel has to be a task, as in cannon, for the gateway to accept it.
Sentinel == "__SAGA_FAIL__"

\* Every step declares its compensation; the last step fails.
OrderSaga ==
  [create        |-> Task("java", {}, "cancel", "create_order", "none"),
   cancel        |-> Task("java", {Sentinel}, "none", "cancel_order", "none"),
   charge        |-> Task("java", {"create"}, "refund", "charge_payment", "none"),
   refund        |-> Task("java", {Sentinel}, "none", "refund_payment", "none"),
   ship          |-> Task("node", {"charge"}, "none", "unknown", "fail"),
   __SAGA_FAIL__ |-> Plain("java", {"ship"})]

\* The payment is refused after the order was created.
RefusedCharge ==
  [t \in DOMAIN OrderSaga |->
     IF t = "charge"
       THEN [Task("java", {"create"}, "refund", "charge_payment", "none")
               EXCEPT !.refusable = TRUE]
       ELSE OrderSaga[t]]

\* Two independent tasks, one of which fails.
ParallelFail ==
  [a |-> Plain("java", {}),
   b |-> Task("node", {}, "none", "unknown", "fail")]

\* What a Node.js pod may meet: a failure that races a timeout, a task that
\* kills the pod and a successor no executor knows, with one task to undo.
Misfits ==
  [o             |-> Task("node", {}, "x", "unknown", "none"),
   x             |-> Task("node", {Sentinel}, "none", "unknown", "none"),
   f             |-> Task("node", {"o"}, "none", "unknown", "hang"),
   b             |-> Task("node", {"o"}, "none", "unknown", "crash"),
   e             |-> Plain("node", {"o"}),
   u             |-> Plain("other", {"e"}),
   __SAGA_FAIL__ |-> Plain("node", {"o"})]
=============================================================================
