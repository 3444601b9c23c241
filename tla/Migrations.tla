----------------------------- MODULE Migrations -----------------------------
(***************************************************************************)
(* RunMigrations of the API gateway (Go): every replica applies the SQL    *)
(* patches it does not find in schema_migrations, in order, each in a      *)
(* transaction of its own, before it serves.  Two replicas (gate-hpa) may  *)
(* start together.  An error ends the process (log.Fatalf in main) and     *)
(* Kubernetes starts it again.                                             *)
(***************************************************************************)
EXTENDS Naturals, FiniteSets

CONSTANTS
  Gates,       \* gateway replicas
  Patches,     \* number of patch files; a patch is its place in the order
  MaxCrashes   \* bound on replicas that die by themselves

ASSUME MigrationsAssumption == Patches \in Nat /\ MaxCrashes \in Nat

Patch == 1 .. Patches

VARIABLES
  pc,       \* replica -> "check", "exec", "record", "commit", "serve", "down"
  next,     \* replica -> patch it is at
  applied,  \* rows of schema_migrations
  effects,  \* patch -> how often its SQL was committed
  crashes

migrationVars == <<pc, next, applied, effects, crashes>>

MigrationsInit ==
  /\ pc = [g \in Gates |-> "check"]
  /\ next = [g \in Gates |-> 1]
  /\ applied = {}
  /\ effects = [p \in Patch |-> 0]
  /\ crashes = 0

MigrationsTypeOK ==
  /\ pc \in [Gates -> {"check", "exec", "record", "commit", "serve", "down"}]
  /\ next \in [Gates -> 1 .. Patches + 1]
  /\ applied \in SUBSET Patch
  /\ effects \in [Patch -> Nat]
  /\ crashes \in Nat

\* g is inside a transaction that has executed patch p: later statements on
\* the same tables wait for its end.
Executed(g, p) == pc[g] \in {"record", "commit"} /\ next[g] = p

\* isMigrationApplied: a patch found applied is skipped.
CheckAlways(g) ==
  /\ pc[g] = "check"
  /\ IF next[g] \in Patch
       THEN pc' = [pc EXCEPT ![g] = "exec"]
       ELSE pc' = [pc EXCEPT ![g] = "serve"]
  /\ UNCHANGED <<next, applied, effects, crashes>>
Check(g) ==
  /\ pc[g] = "check"
  /\ \/ /\ next[g] \in applied
        /\ next' = [next EXCEPT ![g] = @ + 1]
        /\ UNCHANGED pc
     \/ /\ next[g] \in Patch \ applied
        /\ pc' = [pc EXCEPT ![g] = "exec"]
        /\ UNCHANGED next
     \/ /\ next[g] \notin Patch
        /\ pc' = [pc EXCEPT ![g] = "serve"]
        /\ UNCHANGED next
  /\ UNCHANGED <<applied, effects, crashes>>

\* An error is returned: ROLLBACK, and the process ends.
FailContinues(g) ==
  /\ pc' = [pc EXCEPT ![g] = "check"]
  /\ next' = [next EXCEPT ![g] = @ + 1]
  /\ UNCHANGED <<applied, effects>>
Fail(g) ==
  /\ pc' = [pc EXCEPT ![g] = "down"]
  /\ UNCHANGED <<next, applied, effects>>

\* The patch itself.  If another replica committed it since the check, the
\* CREATE TABLE may have waited for that commit and fails on it, or it comes
\* after it and IF NOT EXISTS lets it pass.
Exec(g) ==
  /\ pc[g] = "exec"
  /\ \A k \in Gates \ {g} : ~Executed(k, next[g])
  /\ pc' = [pc EXCEPT ![g] = "record"]
  /\ UNCHANGED <<next, applied, effects, crashes>>

ExecFails(g) ==
  /\ pc[g] = "exec"
  /\ \A k \in Gates \ {g} : ~Executed(k, next[g])
  /\ next[g] \in applied
  /\ Fail(g)
  /\ UNCHANGED crashes

\* INSERT INTO schema_migrations: version is its primary key.
RecordIgnored(g) ==
  /\ pc[g] = "record"
  /\ pc' = [pc EXCEPT ![g] = "commit"]
  /\ UNCHANGED <<next, applied, effects, crashes>>
Record(g) ==
  /\ pc[g] = "record"
  /\ \/ /\ next[g] \notin applied
        /\ pc' = [pc EXCEPT ![g] = "commit"]
        /\ UNCHANGED <<next, applied, effects>>
     \/ /\ next[g] \in applied
        /\ Fail(g)
  /\ UNCHANGED crashes

Commit(g) ==
  /\ pc[g] = "commit"
  /\ applied' = applied \cup {next[g]}
  /\ effects' = [effects EXCEPT ![next[g]] = @ + 1]
  /\ next' = [next EXCEPT ![g] = @ + 1]
  /\ pc' = [pc EXCEPT ![g] = "check"]
  /\ UNCHANGED crashes

Restart(g) ==
  /\ pc[g] = "down"
  /\ pc' = [pc EXCEPT ![g] = "check"]
  /\ next' = [next EXCEPT ![g] = 1]
  /\ UNCHANGED <<applied, effects, crashes>>

Crash(g) ==
  /\ pc[g] # "down"
  /\ crashes < MaxCrashes
  /\ crashes' = crashes + 1
  /\ Fail(g)

MigrationsStep(g) ==
  Check(g) \/ Exec(g) \/ ExecFails(g) \/ Record(g) \/ Commit(g) \/ Restart(g)

MigrationsNext == \E g \in Gates : MigrationsStep(g) \/ Crash(g)

MigrationsSpec == MigrationsInit /\ [][MigrationsNext]_migrationVars

-----------------------------------------------------------------------------
\* The SQL of a patch takes effect once, however many replicas start together:
\* patch 002 resets the balances of the seeded accounts each time it runs.
\* About the transaction around the patch and its row in schema_migrations.
AppliedOnce == \A p \in Patch : effects[p] = IF p \in applied THEN 1 ELSE 0

\* A replica serves only when every patch is in, and no patch is in before the
\* ones it builds on.  About "if err != nil, return" of every statement.
ServesMigrated ==
  /\ \A g \in Gates : pc[g] = "serve" => applied = Patch
  /\ \A p \in applied : 1 .. p \subseteq applied
=============================================================================
