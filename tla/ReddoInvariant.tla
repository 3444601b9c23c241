--------------------------- MODULE ReddoInvariant ---------------------------
(***************************************************************************)
(* The inductive invariant of Reddo.  Its heart: wherever a message is (in *)
(* a queue, in the hands of an executor, on the list of a process that is  *)
(* about to publish it), its task may run.                                 *)
(***************************************************************************)
EXTENDS Reddo

Allowed(t) ==
  \/ SagaFail \notin Deps(t) /\ \A d \in Deps(t) : HasRun(d)
  \/ CalledFor(t)

\* A message that may exist now.
Good(m) == m \in Message /\ Allowed(m.task) /\ gpc # "ready"

Attempted == gpc # "ready" /\ \A t \in Tasks : HasRun(t) \/ t \in faulted

\* What a status rests on.
Backed(status) ==
  /\ status = "COMPLETED" => Attempted
  /\ status = "COMPENSATING" => faulted # {}
  /\ status = "FAILED" => faulted # {} \/ faults > 0

InvRuns == \A t \in Tasks : HasRun(t) => Allowed(t)

\* A row reports nothing that has not happened.
InvRows ==
  \A t \in Tasks :
    /\ st[t] = "COMPLETED" => HasRun(t)
    /\ st[t] = "FAILED" => t \in faulted
    /\ gpc # "ready" => st[t] # "NONE"

InvQueues ==
  /\ \A q \in Queues : \A i \in 1 .. Len(queue[q]) : Good(queue[q][i])
  /\ \A m \in gtodo : Good(m)

\* What a broker thread holds.
BrokerOK(c) ==
  /\ jpc[c] # "idle" => Good(jmsg[c])
  /\ jpc[c] = "idle" => ~jheld[c] /\ ~jsaga[c]
  /\ \A m \in jtodo[c] : Good(m)
  /\ jpc[c] = "publish" => Good(jcur[c])
  /\ jpc[c] = "complete" => HasRun(Own(c))
  /\ jpc[c] \in FailurePoints => jsaga[c]
  /\ jsaga[c] => Own(c) \in faulted
  /\ Backed(jwf[c])
  /\ jpc[c] \in {"savewf", "rescue"} => jwf[c] \in {"COMPLETED", "FAILED"}

InvBroker == \A c \in Consumers : BrokerOK(c)

\* What a worker pod holds.
WorkerOK(n) ==
  /\ npc[n] # "idle" => Good(nmsg[n])
  /\ \A m \in ntodo[n] : Good(m)
  /\ npc[n] = "complete" => HasRun(Mine(n))
  /\ npc[n] \in {"fail", "failwf"} => nsaga[n]
  /\ npc[n] = "idle" => ~nsaga[n]
  /\ nsaga[n] => Mine(n) \in faulted
  /\ nwf[n] # "RUNNING" /\ Backed(nwf[n])

InvWorker == \A n \in Nodes : WorkerOK(n)

InvOutcome == Backed(wf) /\ (wf = "NONE" <=> gpc = "ready")

IInv ==
  /\ TypeOK
  /\ InvRuns /\ InvRows /\ InvQueues /\ InvBroker /\ InvWorker /\ InvOutcome

\* A thread that executes or progresses a task holds the lock of that task.
LockHeld == \A c \in Consumers : Executing(c) => rlock[Own(c)] = c
=============================================================================
