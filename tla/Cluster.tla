------------------------------- MODULE Cluster -------------------------------
(***************************************************************************)
(* The deployment around the engine: the platform script manage_infra.js   *)
(* scales Kubernetes deployments up and down, the backing services come    *)
(* and go, and gateway, broker and worker boot against whatever is there.  *)
(* The gateway's boot is Migrations followed by NewClient, the only place  *)
(* where the exchange, the queues and their bindings are declared.         *)
(*                                                                         *)
(* One operator works at a time, and the script's sleeps give no           *)
(* guarantee, so they are no steps.  Kubernetes, RabbitMQ and Spring are   *)
(* external.  cannon and probe depend on nothing while they start and are  *)
(* left out; Redis, which only the broker's start asks for, is taken       *)
(* together with PostgreSQL, which the broker needs as well.               *)
(***************************************************************************)
EXTENDS Migrations, Sequences

CONSTANTS
  Commands,     \* [action, group]: the command lines that may be given
  MaxCommands,  \* bound on their number
  MaxTroubles   \* bound on kubectl calls that fail, restarts of the RabbitMQ
                \* container and deaths of a gateway, together

Infra    == {"rabbitmq", "postgres"}
Apps     == {"gate", "broker", "worker"}
Pods     == Gates \cup {"broker", "worker"}
App(p)   == IF p \in Gates THEN "gate" ELSE p
CommandLine == [action : {"start", "stop", "restart"}, group : {"infra", "app", "all"}]
Topology == {"workflow-exchange", "java-tasks", "node-tasks"}

ASSUME ClusterAssumption ==
  /\ Commands \subseteq CommandLine
  /\ MaxCommands \in Nat /\ MaxTroubles \in Nat

VARIABLES
  script,    \* kubectl calls the running command has still to make
  last,      \* the last command, and whether it met an empty cluster
  clean,     \* since then no kubectl call failed and RabbitMQ did not restart
  want,      \* deployments whose replica count is not 0
  up,        \* backing services that answer
  pods,      \* application pods that exist
  doomed,    \* those Kubernetes is going to terminate
  conn,      \* pod -> its RabbitMQ connection: "none", "open", "dead", "deaf"
  declared,  \* what the running RabbitMQ knows of Topology
  budget     \* commands and troubles so far

scriptVars  == <<script, last, clean>>
clusterVars == <<scriptVars, want, up, pods, doomed, conn, declared, budget>>
vars        == <<migrationVars, clusterVars>>

\* The manifests have just been applied.
ClusterInit ==
  /\ pc = [g \in Gates |-> "down"]
  /\ next = [g \in Gates |-> 1]
  /\ applied = {}
  /\ effects = [p \in Patch |-> 0]
  /\ crashes = 0
  /\ script = <<>>
  /\ last = [action |-> "apply", group |-> "all", cold |-> TRUE]
  /\ clean = TRUE
  /\ want = Infra \cup Apps
  /\ up = {}
  /\ pods = {}
  /\ doomed = {}
  /\ conn = [p \in Pods |-> "none"]
  /\ declared = {}
  /\ budget = [commands |-> 0, troubles |-> 0]

Spend(kind, max) ==
  /\ budget[kind] < max
  /\ budget' = [budget EXCEPT ![kind] = @ + 1]

-----------------------------------------------------------------------------
(* manage_infra.js *)

Calls == [op : {"up", "down", "rollout"}, targets : SUBSET (Infra \cup Apps)]

Call(op, targets) == [op |-> op, targets |-> targets]

start == <<Call("up", Infra), Call("up", Apps)>>
stop  == <<Call("down", Apps), Call("down", Infra)>>

Group(name) == IF name = "infra" THEN Infra ELSE Apps

\* restart takes no notice of the group.
DispatchNoDefault(c) ==
  CASE c.action = "start"   -> <<Call("up", Group(c.group))>>
    [] c.action = "stop"    -> <<Call("down", Group(c.group))>>
    [] c.action = "restart" -> stop \o start \o <<Call("rollout", Apps)>>
Dispatch(c) ==
  LET Chosen(op, all) == IF c.group = "all" THEN all ELSE <<Call(op, Group(c.group))>>
  IN  CASE c.action = "start"   -> Chosen("up", start)
        [] c.action = "stop"    -> Chosen("down", stop)
        [] c.action = "restart" -> stop \o start \o <<Call("rollout", Apps)>>

Command(c) ==
  /\ script = <<>>
  /\ Spend("commands", MaxCommands)
  /\ script' = Dispatch(c)
  /\ last' = [action |-> c.action, group |-> c.group,
              cold |-> pods = {} /\ up = {}]
  /\ clean' = TRUE
  /\ UNCHANGED <<migrationVars, want, up, pods, doomed, conn, declared>>

\* Every connection to RabbitMQ breaks, and without a volume its data is gone.
RabbitLost ==
  /\ conn' = [p \in Pods |-> IF conn[p] = "open" THEN "dead" ELSE conn[p]]
  /\ declared' = {}

\* What Kubernetes makes of a call for these targets.  Scaling to 0 terminates
\* the pods there are, however soon the count is raised again.
Scaled(op, targets) ==
  /\ want' = CASE op = "up" -> want \cup targets
               [] op = "down" -> want \ targets
               [] OTHER -> want
  /\ IF op = "up"
       THEN UNCHANGED <<up, doomed, conn, declared>>
       ELSE /\ up' = up \ targets
            /\ doomed' = doomed \cup {p \in pods : App(p) \in targets}
            /\ IF "rabbitmq" \in up \cap targets
                 THEN RabbitLost ELSE UNCHANGED <<conn, declared>>

Kubectl ==
  /\ script # <<>>
  /\ script' = Tail(script)
  /\ Scaled(Head(script).op, Head(script).targets)
  /\ UNCHANGED <<migrationVars, last, clean, pods, budget>>

\* run() catches the error, and the script prints ok(...) and goes on.  The
\* API server did not answer: nothing was scaled.
KubectlFails ==
  /\ script # <<>>
  /\ Spend("troubles", MaxTroubles)
  /\ script' = Tail(script)
  /\ clean' = FALSE
  /\ UNCHANGED <<migrationVars, last, want, up, pods, doomed, conn, declared>>

-----------------------------------------------------------------------------
(* The backing services. *)

InfraUp(i) ==
  /\ i \in want \ up
  /\ up' = up \cup {i}
  /\ UNCHANGED <<migrationVars, scriptVars, want, pods, doomed, conn, declared,
                 budget>>

RabbitReset ==
  /\ "rabbitmq" \in up
  /\ Spend("troubles", MaxTroubles)
  /\ RabbitLost
  /\ clean' = FALSE
  /\ UNCHANGED <<migrationVars, script, last, want, up, pods, doomed>>

-----------------------------------------------------------------------------
(* Pods. *)

Connection(p, state) == conn' = [conn EXCEPT ![p] = state]

\* Whatever its transaction did is rolled back.
GateGone(g) ==
  /\ pc' = [pc EXCEPT ![g] = "down"]
  /\ next' = [next EXCEPT ![g] = 1]
  /\ UNCHANGED <<applied, effects, crashes>>

\* The scripts ask for one replica, but a new gateway starts while a doomed one
\* is still at work.
PodStart(p) ==
  /\ App(p) \in want
  /\ p \notin pods
  /\ p \in Gates => /\ Gates \cap (pods \ doomed) = {}
                    /\ p = CHOOSE g \in Gates : g \notin pods
  /\ pods' = pods \cup {p}
  /\ UNCHANGED <<migrationVars, scriptVars, want, up, doomed, conn, declared,
                 budget>>

\* A doomed pod works on until its grace period is over.
PodGoneStale(p) ==
  /\ p \in doomed
  /\ pods' = pods \ {p}
  /\ doomed' = doomed \ {p}
  /\ UNCHANGED conn
  /\ IF p \in Gates THEN GateGone(p) ELSE UNCHANGED migrationVars
  /\ UNCHANGED <<scriptVars, want, up, declared, budget>>
PodGone(p) ==
  /\ p \in doomed
  /\ pods' = pods \ {p}
  /\ doomed' = doomed \ {p}
  /\ Connection(p, "none")
  /\ IF p \in Gates THEN GateGone(p) ELSE UNCHANGED migrationVars
  /\ UNCHANGED <<scriptVars, want, up, declared, budget>>

\* RunMigrations, as long as the database answers.
GateMigrate(g) ==
  /\ g \in pods
  /\ IF pc[g] = "down" THEN g \notin doomed ELSE "postgres" \in up
  /\ MigrationsStep(g)
  /\ UNCHANGED clusterVars

GateDbLost(g) ==
  /\ pc[g] \notin {"serve", "down"}
  /\ "postgres" \notin up
  /\ Fail(g)
  /\ UNCHANGED <<crashes, clusterVars>>

\* NewClient dials once and declares the topology once.
GateDialOnly(g) ==
  /\ pc[g] = "serve"
  /\ conn[g] = "none"
  /\ "rabbitmq" \in up
  /\ Connection(g, "open")
  /\ UNCHANGED <<migrationVars, scriptVars, want, up, pods, doomed, declared,
                 budget>>
GateDial(g) ==
  /\ pc[g] = "serve"
  /\ conn[g] = "none"
  /\ "rabbitmq" \in up
  /\ Connection(g, "open")
  /\ declared' = Topology
  /\ UNCHANGED <<migrationVars, scriptVars, want, up, pods, doomed, budget>>

GateDialFails(g) ==
  /\ pc[g] = "serve"
  /\ conn[g] = "none"
  /\ "rabbitmq" \notin up
  /\ Fail(g)
  /\ UNCHANGED <<crashes, clusterVars>>

GateCrash(g) ==
  /\ g \in pods
  /\ Crash(g)
  /\ Spend("troubles", MaxTroubles)
  /\ Connection(g, "none")
  /\ UNCHANGED <<scriptVars, want, up, pods, doomed, declared>>

\* Hibernate validates the schema, and a missing queue ends the start.
BrokerBoot ==
  /\ "broker" \in pods
  /\ conn["broker"] = "none"
  /\ Infra \subseteq up
  /\ applied = Patch
  /\ "java-tasks" \in declared
  /\ Connection("broker", "open")
  /\ UNCHANGED <<migrationVars, scriptVars, want, up, pods, doomed, declared,
                 budget>>

\* The listener container reconnects by itself, but a missing queue stops it
\* for good, while the TCP probes still succeed.
BrokerReconnect ==
  /\ conn["broker"] = "dead"
  /\ "rabbitmq" \in up
  /\ Connection("broker", IF "java-tasks" \in declared THEN "open" ELSE "deaf")
  /\ UNCHANGED <<migrationVars, scriptVars, want, up, pods, doomed, declared,
                 budget>>

\* bootstrap: SELECT 1, then connectRabbitMQ, which asserts its own queue.
WorkerBoot ==
  /\ "worker" \in pods
  /\ conn["worker"] = "none"
  /\ "postgres" \in up
  /\ "rabbitmq" \in up
  /\ Connection("worker", "open")
  /\ declared' = declared \cup {"node-tasks"}
  /\ UNCHANGED <<migrationVars, scriptVars, want, up, pods, doomed, budget>>

\* Nobody handles the connection's events: the process ends and is restarted.
WorkerExit ==
  /\ conn["worker"] = "dead"
  /\ Connection("worker", "none")
  /\ UNCHANGED <<migrationVars, scriptVars, want, up, pods, doomed, declared,
                 budget>>

-----------------------------------------------------------------------------
GateStep(g) ==
  GateMigrate(g) \/ GateDbLost(g) \/ GateDial(g) \/ GateDialFails(g)

ClusterNext ==
  \/ \E c \in Commands : Command(c)
  \/ Kubectl \/ KubectlFails \/ RabbitReset
  \/ \E i \in Infra : InfraUp(i)
  \/ \E p \in Pods : PodStart(p) \/ PodGone(p)
  \/ \E g \in Gates : GateStep(g) \/ GateCrash(g)
  \/ BrokerBoot \/ BrokerReconnect \/ WorkerBoot \/ WorkerExit

ClusterSpec == ClusterInit /\ [][ClusterNext]_vars

ClusterFairSpec ==
  /\ ClusterSpec
  /\ WF_vars(Kubectl)
  /\ \A i \in Infra : WF_vars(InfraUp(i))
  /\ \A p \in Pods : WF_vars(PodGone(p))
  /\ \A p \in Pods \ Gates : WF_vars(PodStart(p))
  /\ WF_vars(\E g \in Gates : PodStart(g))
  /\ \A g \in Gates : WF_vars(GateStep(g))
  /\ WF_vars(BrokerBoot \/ BrokerReconnect)
  /\ WF_vars(WorkerBoot \/ WorkerExit)

ClusterTypeOK ==
  /\ MigrationsTypeOK
  /\ script \in Seq(Calls)
  /\ last.action \in {"apply", "start", "stop", "restart"}
  /\ clean \in BOOLEAN
  /\ want \in SUBSET (Infra \cup Apps)
  /\ up \in SUBSET Infra
  /\ pods \in SUBSET Pods /\ doomed \in SUBSET pods
  /\ conn \in [Pods -> {"none", "open", "dead", "deaf"}]
  /\ \A p \in Pods : conn[p] # "none" => p \in pods
  /\ declared \in SUBSET Topology
  /\ budget \in [commands : Nat, troubles : Nat]

-----------------------------------------------------------------------------
\* Every pod that is there reaches RabbitMQ, each service has one, and a
\* workflow submitted now is routed.
Serving ==
  /\ {App(p) : p \in pods} = Apps
  /\ \A p \in pods : conn[p] = "open"
  /\ declared = Topology

\* A start of an empty cluster, or a restart whatever went wrong before it,
\* ends with everything serving, unless a kubectl call of it failed or RabbitMQ
\* restarted meanwhile.  About the order of the dispatch in manage_infra.js,
\* the boots that end in log.Fatalf or process.exit, and setupTopology.
AskedToServe ==
  \/ last.action = "restart"
  \/ last.action \in {"apply", "start"} /\ last.group = "all" /\ last.cold

ComesUp == <>[](clean /\ AskedToServe => Serving)

\* After a stop of everything, no pod is left and no service is left running.
\* About stopApp and stopInfra.
StopsAll ==
  <>[](clean /\ last.action = "stop" /\ last.group = "all"
         => pods = {} /\ up = {})
=============================================================================
