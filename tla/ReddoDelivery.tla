---------------------------- MODULE ReddoDelivery ----------------------------
(***************************************************************************)
(* Where the engine keeps the promise of its queues: no work is lost, no   *)
(* task is lost, started twice or started over, no workflow is left open,  *)
(* and one that FAILED is undone.  Not every DAG and not every deployment  *)
(* is treated that well (see the findings), so this module names the       *)
(* conditions, and the invariants that hold under them.                    *)
(***************************************************************************)
EXTENDS ReddoInvariant

-----------------------------------------------------------------------------
(* Nothing is lost. *)

\* Between COMMIT and publish the gateway is alone with what it has to publish,
\* and so is a broker between save and publish; nobody publishes a task whose
\* worker type is unknown.
LoseNothing ==
  /\ FaultKinds \cap {"gate", "publish"} = {}
  /\ "crash" \in FaultKinds => Consumers = {}
  /\ \A t \in Tasks : Dag[t].worker = "other" => t \notin Roots /\ Consumers = {}

Untouched == {"lock", "check", "run", "exec"}

\* A message a broker is about to publish, or has not touched yet.
BrokerOwes(c, t) ==
  \/ jpc[c] = "publish" /\ jcur[c].task = t
  \/ jpc[c] \in Untouched /\ Own(c) = t

WorkerOwes(n, t) == npc[n] \in Untouched /\ Mine(n) = t /\ link[n] = "open"

\* The task has had its turn, or its turn will come.
Covered(t) ==
  \/ HasRun(t) \/ t \in faulted
  \/ Queued(t)
  \/ \E m \in gtodo : m.task = t
  \/ \E c \in Consumers : BrokerOwes(c, t)
  \/ \E n \in Nodes : WorkerOwes(n, t)

\* What waits in a queue, as a set.
Waiting(q) == {queue[q][i] : i \in 1 .. Len(queue[q])}

\* A message goes back to, or on to, a queue that exists.
QueuesRouted == \A q \in Queues : \A m \in Waiting(q) : m.queue = q

BrokerRouted(c) ==
  /\ jpc[c] # "idle" => jmsg[c].queue = "java"
  /\ jpc[c] = "publish" => jcur[c].queue \in Queues
  /\ \A m \in jtodo[c] : m.queue \in Queues

WorkerRouted(n) == npc[n] # "idle" => nmsg[n].queue = "node"

Routed ==
  /\ QueuesRouted
  /\ \A m \in gtodo : m.queue \in Queues
  /\ \A c \in Consumers : BrokerRouted(c)
  /\ \A n \in Nodes : WorkerRouted(n)

\* Whoever finds the lock of a task taken may leave the task to its holder.
HolderWorks ==
  \A t \in Tasks : \A c \in Consumers :
    rlock[t] = c =>
      /\ Own(c) = t
      /\ \/ jpc[c] \in {"check", "run", "exec"}
         \/ jpc[c] \notin {"idle", "lock"} /\ (HasRun(t) \/ t \in faulted)

NoOrphans == \A t \in Tasks : rlock[t] # Orphan

\* Some process has begun with the task, or is about to let the rows say so.
Started(t) ==
  \/ st[t] = "RUNNING"
  \/ \E c \in Consumers : jpc[c] # "idle" /\ Own(c) = t
  \/ \E n \in Nodes : npc[n] # "idle" /\ Mine(n) = t
  \/ \E n \in Nodes : t \in nrows[n]

AllCovered == \A t \in Tasks : Started(t) => Covered(t)

CoverInv == Routed /\ HolderWorks /\ NoOrphans /\ AllCovered

-----------------------------------------------------------------------------
(* Nothing is done twice. *)

Hidden(t) == SagaFail \in Deps(t)

MayFail(t) == ~Hidden(t) /\ Dag[t].chaos \in {"fail", "hang"}

\* A chain of dependencies, through no hidden task, leads from f back to o.
Precedes(o, f) ==
  \A S \in SUBSET Tasks :
    f \in S /\ (\A t \in S : ~Hidden(t) => Deps(t) \subseteq S) => o \in S

\* Behind a task that cannot complete.
Doomed(t) == \E f \in Tasks : MayFail(f) /\ f # t /\ Precedes(f, t)

\* The tasks the brokers may start without being called to undo something.
Leading ==
  {t \in Tasks : Dag[t].worker = "java" /\ ~Hidden(t) /\ ~Doomed(t)}

\* The Java tasks come first, one after the other, and cannot fail.
JavaLeads ==
  /\ \A t \in Leading : /\ Deps(t) \subseteq Leading
                        /\ Dag[t].chaos = "none" /\ ~Dag[t].refusable
                        /\ Dag[t].key # "cancel_order"
  /\ Leading # {} =>
       \A S \in SUBSET Leading : (\A t \in S : Deps(t) \subseteq S) =>
         \A u, v \in Tasks \ S :
           ~Hidden(u) /\ ~Hidden(v) /\ Deps(u) \cup Deps(v) \subseteq S => u = v

\* What the brokers are called to undo can be undone, and by then no other task
\* is left to start.
JavaUndoes ==
  \A o \in Tasks :
    Comp(o) # NoTask /\ Dag[Comp(o)].worker = "java" =>
      /\ ~Dag[o].refusable
      /\ Dag[Comp(o)].key = "cancel_order" => Dag[o].key = "create_order"
      /\ \A t, f \in Tasks :
           ~Hidden(t) /\ MayFail(f) => t = f \/ Precedes(t, f) \/ Doomed(t)

\* Brokers and pods have their turns, and nothing takes a message out of the hands
\* of a pod; every compensation belongs to one task and is nobody's successor; and
\* if anything can be undone, one task at most can fail.
TakeTurns ==
  /\ FaultKinds \subseteq {"gate", "redeliver", "redis"}
  /\ \A t \in Tasks : Dag[t].worker \in Queues
  /\ "redis" \in FaultKinds => \A t \in Tasks : Dag[t].worker = "node"
  /\ \A t \in Tasks : Comp(t) # NoTask => Hidden(Comp(t))
  /\ \A t, u \in Tasks : Comp(t) # NoTask /\ Comp(t) = Comp(u) => t = u
  /\ \A o, t, u \in Tasks :
       Comp(o) # NoTask /\ MayFail(t) /\ MayFail(u) => t = u
  /\ JavaLeads /\ JavaUndoes

\* Where a message for the task can be.
AtGate(t) == \E m \in gtodo : m.task = t
Posted(t) == \E m \in Waiting("node") : m.task = t
Holds(n, t) == npc[n] # "idle" /\ Mine(n) = t
Listed(n, t) == \E m \in ntodo[n] : m.task = t

\* Published as RUNNING by a transaction that has not committed.
InTx(t) == \E n \in Nodes : npc[n] = "publish" /\ t \in nrows[n]

PodsOpen == \A n \in Nodes : link[n] = "open"

\* A message is for the task itself, or for the compensation of one that ran.
Shaped(m) ==
  \/ m = TaskMessage(m.task) /\ ~Hidden(m.task)
  \/ \E o \in Tasks : /\ Comp(o) # NoTask /\ HasRun(o) /\ ~Hidden(o)
                      /\ m = WorkerCompensation(o)

AllShaped ==
  /\ \A m \in gtodo : m = TaskMessage(m.task) /\ ~Hidden(m.task)
  /\ \A m \in Waiting("node") : Shaped(m) /\ m.queue = "node"
  /\ \A n \in Nodes : npc[n] # "idle" => Shaped(nmsg[n]) /\ nmsg[n].queue = "node"
  /\ \A n \in Nodes : \A m \in ntodo[n] : Shaped(m)

NoTwins ==
  \A i, j \in 1 .. Len(queue["node"]) :
    queue["node"][i].task = queue["node"][j].task => i = j

\* There is one message for a task, in one place.
OneMessage ==
  \A t \in Tasks :
    /\ AtGate(t) => ~Posted(t) /\ \A n \in Nodes : ~Holds(n, t) /\ ~Listed(n, t)
    /\ Posted(t) => \A n \in Nodes : ~Holds(n, t) /\ ~Listed(n, t)
    /\ \A n, k \in Nodes :
         Holds(n, t) => ~Listed(k, t) /\ (Holds(k, t) => n = k)

\* What a pod has locked, listed and marked, at each point of its callback.
Transaction(n) ==
  /\ npc[n] # "publish" => ntodo[n] = {}
  /\ npc[n] \notin {"publish", "ack"} => nrows[n] = {}
  /\ nsaga[n] => npc[n] \in {"fail", "failwf", "publish", "ack"}
                 /\ MayFail(Mine(n))
  /\ txLocks[n] = CASE npc[n] = "publish" -> {WfRow} \cup nrows[n] \cup
                                              {t \in Tasks : nsaga[n] /\ t = Mine(n)}
                    [] npc[n] = "failwf" -> {Mine(n)}
                    [] OTHER -> {}
  /\ \A m, x \in ntodo[n] : m.task = x.task => m = x

OneTransaction ==
  /\ \A n \in Nodes : Transaction(n)
  /\ \A n, k \in Nodes : npc[n] = "publish" /\ npc[k] = "publish" => n = k

\* What the rows say of a task, and where it is.
RowsTell ==
  \A t \in Tasks :
    /\ gpc = "ready" => st[t] = "NONE"
    /\ runs[t] <= 1
    /\ HasRun(t) => \/ st[t] = "COMPLETED"
                    \/ \E n \in Nodes : npc[n] = "complete" /\ Mine(n) = t
                    \/ /\ st[t] = "RUNNING"
                       /\ \E c \in Consumers : jpc[c] = "complete" /\ Own(c) = t
    /\ HasRun(t) /\ ~Hidden(t) => Dag[t].chaos = "none"
    /\ AtGate(t) => ~HasRun(t) /\ st[t] = "RUNNING"
    /\ Posted(t) => ~HasRun(t) /\ (st[t] = "RUNNING" \/ InTx(t))
    /\ \A n \in Nodes : Listed(n, t) => st[t] = "PENDING"
    /\ InTx(t) => st[t] = "PENDING" /\ \A n \in Nodes : ~Listed(n, t)

\* The row of the task at each point of the callback.
HandTells(n) ==
  /\ npc[n] \in {"check", "run"} =>
       ~HasRun(Mine(n)) /\ (st[Mine(n)] = "RUNNING" \/ InTx(Mine(n)))
  /\ npc[n] \in {"exec", "fail", "failwf"} \/ (npc[n] = "publish" /\ nsaga[n]) =>
       ~HasRun(Mine(n)) /\ st[Mine(n)] = "RUNNING"
  /\ npc[n] = "complete" => st[Mine(n)] = "RUNNING"
  /\ npc[n] = "readdag" \/ (npc[n] \in {"publish", "ack"} /\ ~nsaga[n]) =>
       st[Mine(n)] = "COMPLETED"
  /\ npc[n] = "ack" /\ nsaga[n] => st[Mine(n)] = "FAILED"

HandsTell == \A n \in Nodes : HandTells(n)

\* Somebody has looked at a compensation.
Touched(t) ==
  \/ st[t] \notin {"NONE", "PENDING"} \/ Posted(t) \/ InTx(t)
  \/ \E n \in Nodes : Holds(n, t) \/ Listed(n, t)

\* The failure handler of f has decided what to undo; it will not do so again.
Handled(f) ==
  \/ st[f] = "FAILED" /\ \A n \in Nodes : ~Holds(n, f)
  \/ \E n \in Nodes : Holds(n, f) /\ nsaga[n] /\ npc[n] \in {"publish", "ack"}

HandledOnce ==
  \A t \in Tasks :
    Hidden(t) /\ Touched(t) => \E f \in Tasks : MayFail(f) /\ Handled(f)

NodeInv ==
  /\ PodsOpen /\ AllShaped /\ NoTwins /\ OneMessage /\ OneTransaction
  /\ RowsTell /\ HandsTell /\ HandledOnce

\* Tasks run in the order of the DAG; what has begun has all it depends on.
Begun(t) ==
  \/ st[t] \notin {"NONE", "PENDING"} \/ InTx(t)
  \/ \E n \in Nodes : Listed(n, t)

InOrder ==
  \A t \in Tasks :
    ~Hidden(t) /\ Begun(t) => \A d \in Deps(t) : st[d] = "COMPLETED"

\* The row of a task a broker has heard of, or will say so at COMMIT.
Told(t) == st[t] \in {"RUNNING", "COMPLETED"} \/ InTx(t)

\* No broker has a message for the task.
Unheard(t) ==
  /\ \A m \in Waiting("java") : m.task # t
  /\ \A c \in Consumers : jpc[c] # "idle" => Own(c) # t

Resting  == {"idle", "lock", "finish"}
Progress == {"readwf", "readtasks", "trigger", "publish"}

\* What a thread has in hand, and the row of the task at each point.
BrokerTells(c) ==
  /\ jpc[c] \notin FailurePoints \cup {"rescue"}
  /\ jpc[c] # "idle" => /\ Shaped(jmsg[c]) /\ jmsg[c].queue = "java"
                        /\ Told(Own(c))
  /\ jpc[c] \notin Resting => rlock[Own(c)] = c
  /\ jpc[c] \in {"run", "exec"} => ~HasRun(Own(c))
  /\ jpc[c] \in {"exec", "complete"} => st[Own(c)] = "RUNNING"
  /\ jpc[c] \in Progress \cup {"savewf"} => st[Own(c)] = "COMPLETED"

BrokersTell ==
  /\ \A m \in gtodo : Unheard(m.task)
  /\ \A m \in Waiting("java") : Shaped(m) /\ m.queue = "java" /\ Told(m.task)
  /\ \A c \in Consumers : BrokerTells(c)

\* The one thread that progresses the DAG hands on to one task.
HandsOn(c) ==
  /\ jpc[c] = "trigger" => \E u \in Ready(st) : jtodo[c] = {TaskMessage(u)}
  /\ jpc[c] = "publish" =>
       \E u \in Tasks : /\ jtodo[c] = {} /\ jcur[c] = TaskMessage(u) /\ ~Hidden(u)
                        /\ st[u] = "RUNNING" /\ ~HasRun(u) /\ Unheard(u)

Waits(c) == jpc[c] \in Resting \cup {"check"}

\* It is the turn of the Java task a: nothing else goes on.
Opening(a) ==
  /\ faulted = {}
  /\ \A n \in Nodes : npc[n] = "idle"
  /\ Waiting("node") = {} /\ \A m \in gtodo : m.task = a
  /\ \A t \in Tasks \ {a} :
       \/ Hidden(t)
       \/ st[t] = "PENDING"
       \/ st[t] = "COMPLETED" /\ t \in Leading
       \/ \E c \in Consumers : jpc[c] = "publish" /\ jcur[c].task = t
  /\ \/ /\ st[a] = "RUNNING"
        /\ \A c \in Consumers :
             Waits(c) \/ (Own(c) = a /\ jpc[c] \in {"run", "exec", "complete"})
     \/ /\ st[a] = "COMPLETED"
        /\ \E c \in Consumers :
             /\ Own(c) = a /\ jpc[c] \in Progress /\ HandsOn(c)
             /\ \A d \in Consumers \ {c} : Waits(d)

\* It is the turn of the pods, and of whoever is called to undo something.
Opened ==
  /\ \A a \in Leading :
       /\ \/ st[a] = "COMPLETED"
          \/ st[a] = "PENDING" /\ \E d \in Deps(a) : st[d] # "COMPLETED"
       /\ ~InTx(a) /\ \A n \in Nodes : ~Listed(n, a)
  /\ \A c \in Consumers :
       /\ jpc[c] \notin {"trigger", "publish"}
       /\ jpc[c] \in {"run", "exec", "complete", "readwf", "readtasks"} => Hidden(Own(c))

Turns ==
  (gpc = "ready" /\ faulted = {}) \/ (\E a \in Leading : Opening(a)) \/ Opened

TurnsInv == NodeInv /\ InOrder /\ BrokersTell /\ Turns

\* The pod is about to write that the task has failed.
Failing(n, t) ==
  Holds(n, t) /\ nsaga[n] /\ npc[n] \in {"fail", "failwf", "publish"}

\* Whoever gives a task up lets its row say so.
FaultsTold ==
  \A t \in faulted :
    st[t] = "FAILED" \/ (st[t] = "RUNNING" /\ \E n \in Nodes : Failing(n, t))

-----------------------------------------------------------------------------
(* FAILED means undone. *)

Undoable(o) == Comp(o) # NoTask /\ ~MayFail(o)

\* A saga in which whatever can be undone comes before whatever can fail.
SagaInLine ==
  /\ TakeTurns
  /\ \A o, f \in Tasks : Undoable(o) /\ MayFail(f) => Precedes(o, f)

OnlyThoseFail == \A t \in Tasks : st[t] = "FAILED" => MayFail(t)

AllUndone == \A o \in Tasks : Undoable(o) => st[Comp(o)] = "COMPLETED"

\* Whoever makes the workflow FAILED has seen everything undone.
UndoInv ==
  /\ OnlyThoseFail
  /\ wf = "FAILED" => AllUndone
  /\ \A c \in Consumers : jwf[c] = "FAILED" => AllUndone
  /\ \A n \in Nodes : nwf[n] = "FAILED" => AllUndone

-----------------------------------------------------------------------------
(* The end is seen. *)

Visible == {t \in Tasks : ~Hidden(t)}

\* The gateway lives, and the tasks that do not wait for a failure passed
\* ValidateDAG: they wait for no others, and no set of them waits for itself.
\* If any task waits for a failure, one is sure to come if the saga gets that far.
Finishes ==
  /\ SagaInLine /\ "gate" \notin FaultKinds
  /\ Visible # {} /\ \A t \in Visible : Deps(t) \subseteq Visible
  /\ \A S \in SUBSET Visible : S # {} => \E t \in S : Deps(t) \cap S = {}
  /\ Visible # Tasks => \E f \in Tasks : MayFail(f)
  /\ \A f \in Tasks : MayFail(f) => Comp(f) = NoTask

\* What is ready will be read, is read, or is published and not yet committed.
Announced(t) ==
  \/ InTx(t) \/ \E n \in Nodes : npc[n] = "readdag" \/ Listed(n, t)
  \/ \E c \in Consumers : \/ jpc[c] \in {"readwf", "readtasks"}
                          \/ \E m \in jtodo[c] : m.task = t

\* The executor will report the end of the saga, or is about to look for it, with
\* the workflow's status as it is.
NodeCloses(n) == npc[n] = "readdag" \/ (npc[n] = "publish" /\ Terminal(nwf[n]))
BrokerCloses(c) ==
  \/ jpc[c] \in {"readwf", "savewf"}
  \/ jpc[c] = "readtasks" /\ (jwf[c] = "COMPENSATING" <=> wf = "COMPENSATING")

Closing == (\E n \in Nodes : NodeCloses(n)) \/ (\E c \in Consumers : BrokerCloses(c))

\* While the workflow is RUNNING nothing has failed, whatever is ready will be
\* started, and whoever settles the last row will see that it is the last.
Attended ==
  wf = "RUNNING" =>
    /\ \A t \in Tasks : st[t] # "FAILED"
    /\ \A t \in Ready(st) : Announced(t)
    /\ AllSettled(st) => Closing

\* While it is COMPENSATING all that is to be undone is being undone, and whoever
\* settles the last compensation will see it.
Undoing ==
  wf = "COMPENSATING" =>
    /\ \A k \in CompensationKeys : st[k] # "PENDING"
    /\ CompensationsActive(st) \/ Closing

\* A failure handler ends the workflow or starts all of its compensations.
Verdict(n) ==
  /\ nwf[n] = "COMPENSATING" => nsaga[n]
  /\ npc[n] = "publish" /\ nsaga[n] /\ nwf[n] # "FAILED" =>
       /\ nwf[n] = "COMPENSATING" /\ CompensationKeys # {}
       /\ \A k \in CompensationKeys : Listed(n, k) \/ k \in nrows[n]

\* What a thread has yet to publish, and what it has read of the workflow, which
\* may be old, but not too new.
Reading(c) ==
  /\ jtodo[c] # {} => jpc[c] \in {"trigger", "publish"}
  /\ jcur[c] # NoMessage => jpc[c] = "publish"
  /\ jwf[c] = "COMPENSATING" => wf \notin {"NONE", "RUNNING"}

SettleInv ==
  /\ gpc = "replied" => gtodo = {}
  /\ \A n \in Nodes : Verdict(n)
  /\ \A c \in Consumers : Reading(c)
  /\ Attended /\ Undoing

-----------------------------------------------------------------------------
(* What the brokers have to themselves. *)

\* Tasks no message of which is ever meant for a pod.
JavaTasks ==
  {t \in Tasks : /\ Dag[t].worker = "java"
                 /\ \A o \in Tasks : Comp(o) = t => Dag[o].worker = "java"}

Homed(m) == m.task \in JavaTasks => m.queue = "java"

BrokerHomed(c) ==
  /\ jpc[c] # "idle" => jmsg[c].queue = "java"
  /\ jpc[c] = "publish" => Homed(jcur[c])
  /\ \A m \in jtodo[c] : Homed(m)

WorkerHomed(n) ==
  /\ npc[n] # "idle" => nmsg[n].queue = "node" /\ Homed(nmsg[n])
  /\ \A m \in ntodo[n] : Homed(m)

AllHomed ==
  /\ QueuesRouted
  /\ \A q \in Queues : \A m \in Waiting(q) : Homed(m)
  /\ \A m \in gtodo : Homed(m)
  /\ \A c \in Consumers : BrokerHomed(c)
  /\ \A n \in Nodes : WorkerHomed(n)

\* Java tasks that only the gateway starts.
FirstTasks == (JavaTasks \cap Roots) \ CompensationKeys

FirstOnce == \A t \in FirstTasks : runs[t] <= 1

\* Without errors a thread has the lock from tryLock to its finally block.
LockedThroughout ==
  \A c \in Consumers :
    jpc[c] \notin {"idle", "lock", "finish"} => rlock[Own(c)] = c

\* Nobody but the gateway, and the thread that has the task, writes its row.
Unlisted(t) ==
  /\ \A c \in Consumers :
       /\ \A m \in jtodo[c] : m.task # t
       /\ jpc[c] = "publish" => jcur[c].task # t
  /\ \A n \in Nodes : t \notin nrows[n] /\ \A m \in ntodo[n] : m.task # t

FirstTold(t) ==
  /\ runs[t] <= 1 /\ st[t] # "PENDING"
  /\ gpc = "ready" => ~HasRun(t)
  /\ HasRun(t) => \/ st[t] = "COMPLETED"
                  \/ \E c \in Consumers : jpc[c] = "complete" /\ Own(c) = t

\* A thread past the status check has a task that has not run.
FreshHands(t) ==
  \A c \in Consumers :
    jpc[c] \in {"run", "exec", "fail"} /\ Own(c) = t => ~HasRun(t)

FirstInv == \A t \in FirstTasks : Unlisted(t) /\ FirstTold(t) /\ FreshHands(t)
=============================================================================
