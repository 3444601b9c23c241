---------------------------- MODULE ClusterProofs ----------------------------
(***************************************************************************)
(* The gateway's migrations, for any number of replicas, patches and       *)
(* crashes: two replicas never have the same patch in open transactions    *)
(* together, and the one that has inserted its row is the first to do so.  *)
(* Then the deployment they run in: what the migrations promise survives   *)
(* pods that are terminated in the middle of a patch, a database that goes *)
(* away under them, and new gateways that start beside doomed ones.        *)
(***************************************************************************)
EXTENDS Cluster, SequenceTheorems, TLAPS

\* Patches go in from the first on, and a replica never skips one.
InOrder ==
  /\ \A p \in applied : 1 .. p \subseteq applied
  /\ \A g \in Gates : \A p \in Patch : p < next[g] => p \in applied

\* What the control point of a replica rests on.
PointOK(g) ==
  /\ pc[g] \in {"exec", "record", "commit"} => next[g] \in Patch
  /\ pc[g] = "commit" => next[g] \notin applied
  /\ pc[g] = "serve" => applied = Patch

OneInside ==
  \A g, k \in Gates :
    \A p \in Patch : Executed(g, p) /\ Executed(k, p) => g = k

MigrationsIInv ==
  /\ MigrationsTypeOK /\ InOrder /\ OneInside /\ AppliedOnce
  /\ \A g \in Gates : PointOK(g)

LEMMA MigrationsInitial == MigrationsInit => MigrationsIInv
BY MigrationsAssumption
   DEF MigrationsInit, MigrationsIInv, MigrationsTypeOK, InOrder, OneInside,
       Executed, AppliedOnce, PointOK, Patch

\* A step that commits nothing and moves one replica to a point where it is
\* not inside a transaction, or was inside the same one before.
LEMMA Moves ==
  ASSUME MigrationsIInv, MigrationsTypeOK', NEW g \in Gates,
         applied' = applied, effects' = effects,
         \A k \in Gates \ {g} : pc'[k] = pc[k] /\ next'[k] = next[k],
         \A p \in Patch : p < next'[g] => p \in applied,
         PointOK(g)',
         \A p \in Patch : Executed(g, p)' =>
           \A k \in Gates \ {g} : ~Executed(k, p)
  PROVE  MigrationsIInv'
<1>1. InOrder'
  BY DEF MigrationsIInv, InOrder
<1>2. OneInside'
  BY DEF MigrationsIInv, OneInside, Executed
<1>3. AppliedOnce'
  BY DEF MigrationsIInv, AppliedOnce
<1>4. \A k \in Gates : PointOK(k)'
  BY DEF MigrationsIInv, PointOK
<1>. QED BY <1>1, <1>2, <1>3, <1>4 DEF MigrationsIInv

LEMMA CommitKeeps ==
  ASSUME MigrationsIInv, NEW g \in Gates, Commit(g)
  PROVE  MigrationsIInv'
<1>. DEFINE p == next[g]
<1>1. /\ p \in Patch /\ p \notin applied /\ Executed(g, p)
      /\ MigrationsTypeOK /\ InOrder /\ OneInside /\ AppliedOnce
      /\ \A k \in Gates : PointOK(k)
  BY DEF Commit, MigrationsIInv, PointOK, Executed
<1>2. /\ applied' = applied \cup {p}
      /\ next' = [next EXCEPT ![g] = p + 1] /\ pc' = [pc EXCEPT ![g] = "check"]
      /\ effects' = [effects EXCEPT ![p] = @ + 1]
      /\ crashes' = crashes
  BY DEF Commit
<1>3. MigrationsTypeOK'
  <2>1. p + 1 \in 1 .. Patches + 1
    BY <1>1, MigrationsAssumption DEF Patch
  <2>2. effects' \in [Patch -> Nat]
    BY <1>1, <1>2 DEF MigrationsTypeOK
  <2>. QED BY <1>1, <1>2, <2>1, <2>2 DEF MigrationsTypeOK
<1>4. InOrder'
  <2>1. \A q \in Patch : q < p => q \in applied
    BY <1>1 DEF InOrder
  <2>2. 1 .. p \subseteq applied'
    BY <1>1, <1>2, <2>1, MigrationsAssumption DEF Patch
  <2>3. ASSUME NEW k \in Gates, NEW q \in Patch
        PROVE  q < next'[k] => q \in applied'
    <3>1. CASE k = g
      <4>1. next'[k] = p + 1
        BY <1>1, <1>2, <3>1 DEF MigrationsTypeOK
      <4>2. q < p + 1 => q \in 1 .. p
        BY <1>1, MigrationsAssumption DEF Patch
      <4>. QED BY <2>2, <4>1, <4>2
    <3>2. CASE k # g
      BY <1>1, <1>2, <3>2 DEF MigrationsTypeOK, InOrder
    <3>. QED BY <3>1, <3>2
  <2>. QED BY <1>1, <1>2, <2>2, <2>3 DEF InOrder
<1>5. OneInside'
  BY <1>1, <1>2 DEF OneInside, Executed, MigrationsTypeOK
<1>6. AppliedOnce'
  BY <1>1, <1>2 DEF AppliedOnce, MigrationsTypeOK
<1>7. ASSUME NEW k \in Gates PROVE PointOK(k)'
  <2>1. CASE k = g
    BY <1>1, <1>2, <2>1 DEF PointOK, MigrationsTypeOK
  <2>2. CASE k # g
    <3>1. pc'[k] = pc[k] /\ next'[k] = next[k] /\ PointOK(k)
      BY <1>1, <1>2, <2>2 DEF MigrationsTypeOK
    <3>2. pc[k] = "commit" => next[k] # p
      BY <1>1, <2>2 DEF OneInside, Executed
    <3>. QED BY <1>1, <1>2, <3>1, <3>2 DEF PointOK
  <2>. QED BY <2>1, <2>2
<1>. QED BY <1>3, <1>4, <1>5, <1>6, <1>7 DEF MigrationsIInv

LEMMA StepKeeps ==
  ASSUME MigrationsIInv, NEW g \in Gates, MigrationsStep(g) \/ Crash(g)
  PROVE  MigrationsIInv'
<1>0. MigrationsTypeOK /\ PointOK(g) /\ InOrder
  BY DEF MigrationsIInv
<1>. USE DEF MigrationsTypeOK, PointOK, Executed, Patch
<1>1. CASE Check(g)
  <2>1. next[g] \notin Patch => applied = Patch
    <3>. SUFFICES ASSUME next[g] \notin Patch, NEW p \in Patch PROVE p \in applied
      BY <1>0
    <3>1. next[g] \in 1 .. Patches + 1
      BY <1>0
    <3>2. p < next[g]
      BY <3>1, MigrationsAssumption
    <3>. QED BY <1>0, <3>2 DEF InOrder
  <2>2. MigrationsTypeOK'
    BY <1>0, <1>1, MigrationsAssumption DEF Check
  <2>3. \A p \in Patch : p < next'[g] => p \in applied
    BY <1>0, <1>1, MigrationsAssumption DEF Check, InOrder
  <2>. QED BY <1>0, <1>1, <2>1, <2>2, <2>3, Moves DEF Check
<1>2. CASE Exec(g)
  <2>1. MigrationsTypeOK'
    BY <1>0, <1>2 DEF Exec
  <2>. QED BY <1>0, <1>2, <2>1, Moves DEF Exec, InOrder
<1>3. CASE ExecFails(g) \/ Crash(g)
  <2>1. MigrationsTypeOK'
    <3>1. crashes' = crashes \/ crashes' = crashes + 1
      BY <1>3 DEF ExecFails, Crash
    <3>2. crashes' \in Nat
      BY <1>0, <3>1
    <3>3. Fail(g)
      BY <1>3 DEF ExecFails, Crash
    <3>. QED BY <1>0, <3>2, <3>3 DEF Fail
  <2>. QED BY <1>0, <1>3, <2>1, Moves DEF ExecFails, Crash, Fail, InOrder
<1>4. CASE Record(g)
  <2>1. MigrationsTypeOK'
    BY <1>0, <1>4 DEF Record, Fail
  <2>2. \A k \in Gates \ {g} : ~Executed(k, next[g])
    BY <1>0, <1>4 DEF Record, MigrationsIInv, OneInside
  <2>. QED BY <1>0, <1>4, <2>1, <2>2, Moves DEF Record, Fail, InOrder
<1>5. CASE Commit(g)
  BY <1>5, CommitKeeps
<1>6. CASE Restart(g)
  <2>1. MigrationsTypeOK'
    BY <1>0, <1>6, MigrationsAssumption DEF Restart
  <2>2. \A p \in Patch : ~(p < next'[g])
    BY <1>0, <1>6, MigrationsAssumption DEF Restart
  <2>. QED BY <1>0, <1>6, <2>1, <2>2, Moves DEF Restart
<1>. QED BY <1>1, <1>2, <1>3, <1>4, <1>5, <1>6 DEF MigrationsStep

LEMMA MigrationsInductive ==
  MigrationsIInv /\ [MigrationsNext]_migrationVars => MigrationsIInv'
<1>. SUFFICES ASSUME MigrationsIInv, [MigrationsNext]_migrationVars
              PROVE  MigrationsIInv'
  OBVIOUS
<1>1. CASE UNCHANGED migrationVars
  BY <1>1 DEF migrationVars, MigrationsIInv, MigrationsTypeOK, InOrder,
     OneInside, Executed, AppliedOnce, PointOK
<1>. QED BY <1>1, StepKeeps DEF MigrationsNext

\* Whatever replicas start, race, lose and die, the SQL of a patch is committed
\* once.
THEOREM PatchesApplyOnce == MigrationsSpec => []AppliedOnce
<1>1. MigrationsIInv => AppliedOnce
  BY DEF MigrationsIInv
<1>. QED
  BY <1>1, MigrationsInitial, MigrationsInductive, PTL DEF MigrationsSpec

\* No replica serves on a schema that lacks a patch.
THEOREM ServeOnFullSchema == MigrationsSpec => []ServesMigrated
<1>1. MigrationsIInv => ServesMigrated
  BY DEF MigrationsIInv, InOrder, PointOK, ServesMigrated
<1>. QED
  BY <1>1, MigrationsInitial, MigrationsInductive, PTL DEF MigrationsSpec

-----------------------------------------------------------------------------
(* The deployment. *)

LEMMA ClusterInitial == ClusterInit => MigrationsIInv
BY MigrationsAssumption
   DEF ClusterInit, MigrationsIInv, MigrationsTypeOK, InOrder, OneInside,
       Executed, AppliedOnce, PointOK, Patch

LEMMA GoneKeeps ==
  ASSUME MigrationsIInv, NEW g \in Gates, GateGone(g)
  PROVE  MigrationsIInv'
<1>. USE DEF MigrationsTypeOK, PointOK, Executed, Patch
<1>1. MigrationsTypeOK
  BY DEF MigrationsIInv
<1>2. MigrationsTypeOK'
  BY <1>1, MigrationsAssumption DEF GateGone
<1>3. \A p \in Patch : ~(p < next'[g])
  BY <1>1, MigrationsAssumption DEF GateGone
<1>. QED BY <1>1, <1>2, <1>3, Moves DEF GateGone

LEMMA FailKeeps ==
  ASSUME MigrationsIInv, NEW g \in Gates, Fail(g), crashes' = crashes
  PROVE  MigrationsIInv'
<1>. USE DEF MigrationsTypeOK, PointOK, Executed, Patch
<1>1. MigrationsTypeOK /\ InOrder
  BY DEF MigrationsIInv
<1>2. MigrationsTypeOK'
  BY <1>1 DEF Fail
<1>. QED BY <1>1, <1>2, Moves DEF Fail, InOrder

LEMMA ClusterInductive ==
  MigrationsIInv /\ [ClusterNext]_vars => MigrationsIInv'
<1>. SUFFICES ASSUME MigrationsIInv, [ClusterNext]_vars PROVE MigrationsIInv'
  OBVIOUS
<1>1. ASSUME UNCHANGED migrationVars PROVE MigrationsIInv'
  BY <1>1 DEF migrationVars, MigrationsIInv, MigrationsTypeOK, InOrder,
     OneInside, Executed, AppliedOnce, PointOK
<1>2. ASSUME NEW g \in Gates, GateStep(g) PROVE MigrationsIInv'
  <2>1. CASE GateMigrate(g)
    BY <2>1, StepKeeps DEF GateMigrate
  <2>2. CASE GateDbLost(g) \/ GateDialFails(g)
    BY <2>2, FailKeeps DEF GateDbLost, GateDialFails
  <2>3. CASE GateDial(g)
    BY <2>3, <1>1 DEF GateDial
  <2>. QED BY <1>2, <2>1, <2>2, <2>3 DEF GateStep
<1>3. ASSUME NEW g \in Gates, GateCrash(g) PROVE MigrationsIInv'
  BY <1>3, StepKeeps DEF GateCrash
<1>4. ASSUME NEW p \in Pods, PodGone(p) PROVE MigrationsIInv'
  <2>1. CASE p \in Gates
    BY <1>4, <2>1, GoneKeeps DEF PodGone
  <2>2. CASE p \notin Gates
    BY <1>4, <2>2, <1>1 DEF PodGone
  <2>. QED BY <2>1, <2>2
<1>5. CASE \/ \E c \in Commands : Command(c)
           \/ Kubectl \/ KubectlFails \/ RabbitReset
           \/ \E i \in Infra : InfraUp(i)
           \/ \E p \in Pods : PodStart(p)
           \/ BrokerBoot \/ BrokerReconnect \/ WorkerBoot \/ WorkerExit
  BY <1>5, <1>1 DEF Command, Kubectl, KubectlFails, RabbitReset, InfraUp, PodStart,
     BrokerBoot, BrokerReconnect, WorkerBoot, WorkerExit
<1>6. CASE UNCHANGED vars
  BY <1>6, <1>1 DEF vars
<1>. QED BY <1>2, <1>3, <1>4, <1>5, <1>6 DEF ClusterNext

\* Whatever the operator does to the deployment and whenever pods are
\* terminated, the SQL of a patch is committed once.
THEOREM ClusterAppliesOnce == ClusterSpec => []AppliedOnce
<1>1. MigrationsIInv => AppliedOnce
  BY DEF MigrationsIInv
<1>. QED BY <1>1, ClusterInitial, ClusterInductive, PTL DEF ClusterSpec

\* A gateway dials RabbitMQ and serves only on the complete schema.
THEOREM ClusterServesMigrated == ClusterSpec => []ServesMigrated
<1>1. MigrationsIInv => ServesMigrated
  BY DEF MigrationsIInv, InOrder, PointOK, ServesMigrated
<1>. QED BY <1>1, ClusterInitial, ClusterInductive, PTL DEF ClusterSpec

-----------------------------------------------------------------------------
(* The types of the deployment: only pods that exist boot or hold a        *)
(* connection, which rests on where a gateway is in RunMigrations.         *)

\* A gateway that has begun its boot has a pod.
BootsInPods == \A g \in Gates : pc[g] # "down" => g \in pods

ClusterIInv == MigrationsIInv /\ ClusterTypeOK /\ BootsInPods

LEMMA ClusterBegins == ClusterInit => ClusterIInv
<1>. SUFFICES ASSUME ClusterInit PROVE ClusterIInv
  OBVIOUS
<1>1. MigrationsIInv
  BY ClusterInitial
<1>2. script \in Seq(Calls)
  BY DEF ClusterInit
<1>3. ClusterTypeOK
  BY <1>1, <1>2 DEF ClusterInit, ClusterTypeOK, MigrationsIInv, Pods, Infra, Apps
<1>. QED BY <1>1, <1>3 DEF ClusterIInv, ClusterInit, BootsInPods

LEMMA CallType ==
  ASSUME NEW op \in {"up", "down", "rollout"}, NEW targets \in SUBSET (Infra \cup Apps)
  PROVE  Call(op, targets) \in Calls
BY DEF Call, Calls

LEMMA DispatchType ==
  ASSUME NEW c \in Commands
  PROVE  Dispatch(c) \in Seq(Calls)
<1>1. /\ c.action \in {"start", "stop", "restart"}
      /\ Group(c.group) \in SUBSET (Infra \cup Apps)
  BY ClusterAssumption DEF CommandLine, Group
<1>2. start \in Seq(Calls) /\ stop \in Seq(Calls) /\ <<Call("rollout", Apps)>> \in Seq(Calls)
  <2>1. /\ Call("up", Infra) \in Calls /\ Call("up", Apps) \in Calls
        /\ Call("down", Infra) \in Calls /\ Call("down", Apps) \in Calls
        /\ Call("rollout", Apps) \in Calls
    BY CallType
  <2>. QED BY <2>1 DEF start, stop
<1>3. stop \o start \in Seq(Calls)
  BY <1>2, ConcatProperties
<1>4. (stop \o start) \o <<Call("rollout", Apps)>> \in Seq(Calls)
  BY <1>2, <1>3, ConcatProperties
<1>5. <<Call("up", Group(c.group))>> \in Seq(Calls) /\ <<Call("down", Group(c.group))>> \in Seq(Calls)
  <2>1. Call("up", Group(c.group)) \in Calls /\ Call("down", Group(c.group)) \in Calls
    BY <1>1, CallType
  <2>. QED BY <2>1
<1>. QED BY <1>1, <1>2, <1>4, <1>5 DEF Dispatch

\* The step of a gateway inside its boot: only its own control point moves.
LEMMA BootMoves ==
  ASSUME MigrationsTypeOK, NEW g \in Gates, MigrationsStep(g) \/ Crash(g) \/ Fail(g)
  PROVE  \A k \in Gates \ {g} : pc'[k] = pc[k]
BY DEF MigrationsTypeOK, MigrationsStep, Check, Exec, ExecFails, Record, Commit, Restart,
   Crash, Fail

LEMMA SpendType ==
  ASSUME budget \in [commands : Nat, troubles : Nat],
         \/ \E max : Spend("commands", max)
         \/ \E max : Spend("troubles", max)
  PROVE  budget' \in [commands : Nat, troubles : Nat]
BY DEF Spend

LEMMA RabbitLostType ==
  ASSUME conn \in [Pods -> {"none", "open", "dead", "deaf"}], RabbitLost
  PROVE  /\ conn' \in [Pods -> {"none", "open", "dead", "deaf"}]
         /\ \A p \in Pods : conn'[p] # "none" => conn[p] # "none"
         /\ declared' = {}
BY DEF RabbitLost

LEMMA KubectlTypes ==
  ASSUME ClusterTypeOK, MigrationsTypeOK', Kubectl
  PROVE  ClusterTypeOK'
<1>. DEFINE op == Head(script).op
            targets == Head(script).targets
<1>1. /\ Tail(script) \in Seq(Calls)
      /\ op \in {"up", "down", "rollout"} /\ targets \in SUBSET (Infra \cup Apps)
  <2>1. Head(script) \in Calls /\ Tail(script) \in Seq(Calls)
    BY HeadTailProperties DEF ClusterTypeOK, Kubectl
  <2>. QED BY <2>1 DEF Calls
<1>2. Scaled(op, targets)
  BY DEF Kubectl
<1>. HIDE DEF op, targets
<1>3. want' \in SUBSET (Infra \cup Apps)
  BY <1>1, <1>2 DEF Scaled, ClusterTypeOK
<1>4. up' \in SUBSET Infra /\ doomed' \in SUBSET pods
  BY <1>2 DEF Scaled, ClusterTypeOK
<1>5. /\ conn' \in [Pods -> {"none", "open", "dead", "deaf"}]
      /\ \A p \in Pods : conn'[p] # "none" => p \in pods
      /\ declared' \in SUBSET Topology
  BY <1>2, RabbitLostType DEF Scaled, ClusterTypeOK
<1>. QED BY <1>1, <1>3, <1>4, <1>5 DEF ClusterTypeOK, Kubectl

LEMMA TypesInductive ==
  ClusterIInv /\ [ClusterNext]_vars => ClusterIInv'
<1>. SUFFICES ASSUME ClusterIInv, [ClusterNext]_vars PROVE ClusterIInv'
  OBVIOUS
<1>1. MigrationsIInv' /\ MigrationsTypeOK /\ MigrationsTypeOK'
  BY ClusterInductive DEF ClusterIInv, MigrationsIInv
<1>2. ClusterTypeOK /\ BootsInPods
  BY DEF ClusterIInv
<1>. SUFFICES ClusterTypeOK' /\ BootsInPods'
  BY <1>1 DEF ClusterIInv
<1>3. ASSUME NEW c \in Commands, Command(c)
      PROVE  ClusterTypeOK' /\ BootsInPods'
  <2>1. script' \in Seq(Calls)
    BY <1>3, DispatchType DEF Command
  <2>2. last'.action \in {"apply", "start", "stop", "restart"}
    BY <1>3, ClusterAssumption DEF Command, CommandLine
  <2>3. budget' \in [commands : Nat, troubles : Nat]
    BY <1>2, <1>3, SpendType DEF Command, ClusterTypeOK
  <2>. QED BY <1>1, <1>2, <1>3, <2>1, <2>2, <2>3
           DEF Command, ClusterTypeOK, BootsInPods, migrationVars
<1>4. CASE Kubectl
  BY <1>1, <1>2, <1>4, KubectlTypes DEF Kubectl, BootsInPods, migrationVars
<1>5. CASE KubectlFails
  <2>1. script' \in Seq(Calls)
    BY <1>2, <1>5, HeadTailProperties DEF KubectlFails, ClusterTypeOK
  <2>2. budget' \in [commands : Nat, troubles : Nat]
    BY <1>2, <1>5, SpendType DEF KubectlFails, ClusterTypeOK
  <2>. QED BY <1>1, <1>2, <1>5, <2>1, <2>2
           DEF KubectlFails, ClusterTypeOK, BootsInPods, migrationVars
<1>6. CASE RabbitReset
  <2>1. budget' \in [commands : Nat, troubles : Nat]
    BY <1>2, <1>6, SpendType DEF RabbitReset, ClusterTypeOK
  <2>. QED BY <1>1, <1>2, <1>6, <2>1, RabbitLostType
           DEF RabbitReset, ClusterTypeOK, BootsInPods, migrationVars
<1>7. ASSUME NEW i \in Infra, InfraUp(i)
      PROVE  ClusterTypeOK' /\ BootsInPods'
  BY <1>1, <1>2, <1>7 DEF InfraUp, ClusterTypeOK, BootsInPods, migrationVars, scriptVars
<1>8. ASSUME NEW p \in Pods, PodStart(p)
      PROVE  ClusterTypeOK' /\ BootsInPods'
  BY <1>1, <1>2, <1>8 DEF PodStart, ClusterTypeOK, BootsInPods, migrationVars, scriptVars
<1>9. ASSUME NEW p \in Pods, PodGone(p)
      PROVE  ClusterTypeOK' /\ BootsInPods'
  <2>1. /\ pods' = pods \ {p} /\ doomed' = doomed \ {p}
        /\ conn' = [conn EXCEPT ![p] = "none"]
    BY <1>9 DEF PodGone, Connection
  <2>2. BootsInPods'
    BY <1>1, <1>2, <1>9, <2>1
       DEF PodGone, GateGone, BootsInPods, MigrationsTypeOK, migrationVars
  <2>. QED BY <1>1, <1>2, <1>9, <2>1, <2>2 DEF PodGone, ClusterTypeOK, scriptVars
<1>10. ASSUME NEW g \in Gates, GateStep(g) \/ GateCrash(g)
       PROVE  ClusterTypeOK' /\ BootsInPods'
  <2>1. g \in pods
    BY <1>2, <1>10 DEF GateStep, GateMigrate, GateDbLost, GateDial, GateDialFails, GateCrash,
       BootsInPods
  <2>2. BootsInPods'
    <3>1. pods' = pods
      BY <1>10 DEF GateStep, GateMigrate, GateDbLost, GateDial, GateDialFails, GateCrash,
         clusterVars
    <3>2. \A k \in Gates \ {g} : pc'[k] = pc[k]
      BY <1>1, <1>10, BootMoves
         DEF GateStep, GateMigrate, GateDbLost, GateDial, GateDialFails, GateCrash,
             migrationVars
    <3>. QED BY <1>2, <2>1, <3>1, <3>2 DEF BootsInPods
  <2>3. CASE GateMigrate(g) \/ GateDbLost(g) \/ GateDialFails(g)
    BY <1>1, <1>2, <2>2, <2>3
       DEF GateMigrate, GateDbLost, GateDialFails, ClusterTypeOK, clusterVars, scriptVars
  <2>4. CASE GateDial(g)
    BY <1>1, <1>2, <2>1, <2>2, <2>4
       DEF GateDial, Connection, ClusterTypeOK, scriptVars, Pods
  <2>5. CASE GateCrash(g)
    <3>1. budget' \in [commands : Nat, troubles : Nat]
      BY <1>2, <2>5, SpendType DEF GateCrash, ClusterTypeOK
    <3>. QED BY <1>1, <1>2, <2>2, <2>5, <3>1
             DEF GateCrash, Connection, ClusterTypeOK, scriptVars
  <2>. QED BY <1>10, <2>3, <2>4, <2>5 DEF GateStep
<1>11. CASE BrokerBoot \/ BrokerReconnect \/ WorkerBoot \/ WorkerExit
  <2>1. PICK p \in {"broker", "worker"}, state \in {"none", "open", "deaf"} :
          Connection(p, state) /\ p \in pods
    BY <1>2, <1>11
       DEF BrokerBoot, BrokerReconnect, WorkerBoot, WorkerExit, ClusterTypeOK, Pods
  <2>2. /\ conn' \in [Pods -> {"none", "open", "dead", "deaf"}]
        /\ \A q \in Pods : conn'[q] # "none" => q \in pods
    BY <1>2, <2>1 DEF Connection, ClusterTypeOK, Pods
  <2>3. declared' \in SUBSET Topology
    BY <1>2, <1>11
       DEF BrokerBoot, BrokerReconnect, WorkerBoot, WorkerExit, ClusterTypeOK, Topology
  <2>. QED BY <1>1, <1>2, <1>11, <2>2, <2>3
           DEF BrokerBoot, BrokerReconnect, WorkerBoot, WorkerExit, ClusterTypeOK,
               BootsInPods, migrationVars, scriptVars
<1>12. CASE UNCHANGED vars
  BY <1>1, <1>2, <1>12
     DEF vars, clusterVars, scriptVars, migrationVars, ClusterTypeOK, BootsInPods
<1>. QED BY <1>3, <1>4, <1>5, <1>6, <1>7, <1>8, <1>9, <1>10, <1>11, <1>12 DEF ClusterNext

\* Only pods that exist hold a connection, Kubernetes terminates only pods that
\* exist, and the script makes only calls it knows, however often services and
\* pods come and go.
THEOREM ClusterTyped == ClusterSpec => []ClusterTypeOK
<1>1. ClusterIInv => ClusterTypeOK
  BY DEF ClusterIInv
<1>. QED BY <1>1, ClusterBegins, TypesInductive, PTL DEF ClusterSpec
=============================================================================
