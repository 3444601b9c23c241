-------------------------------- MODULE Kahn --------------------------------
(***************************************************************************)
(* ValidateDAG of the API gateway (Go): Kahn's algorithm decides whether a *)
(* submitted DAG may become a workflow.  A DAG is given as the function    *)
(* from task keys to dependency lists; a list may name a key twice, or a   *)
(* key that is no task.  Go iterates over maps in any order, so the order  *)
(* of tasks that become free together is free.                             *)
(***************************************************************************)
EXTENDS Integers, Sequences, FiniteSets, Functions

CONSTANTS
  Key,   \* task keys
  Dags   \* DAGs that may be submitted

ASSUME DagsAssumption ==
  \A d \in Dags : /\ DOMAIN d \subseteq Key
                  /\ IsFiniteSet(DOMAIN d)
                  /\ \A t \in DOMAIN d : d[t] \in Seq(Key)

VARIABLES
  dag,         \* the submitted DAG
  pc,          \* "validate", "loop" or "done"
  inDegrees,   \* task -> edges into it from tasks not yet sorted
  queue,       \* tasks without such edges, in order of discovery
  sortedList,  \* the tasks taken from the queue
  verdict      \* "none" until decided, then "empty", "orphan", "cyclic", "sorted"

kahnVars == <<dag, pc, inDegrees, queue, sortedList, verdict>>

Nodes == DOMAIN dag

\* Positions at which the dependency list of t names a member of S.
Edges(t, S) == {i \in 1 .. Len(dag[t]) : dag[t][i] \in S}

Orphaned == \E t \in Nodes : \E i \in 1 .. Len(dag[t]) : dag[t][i] \notin Nodes

Orders(S) == Bijection(1 .. Cardinality(S), S)

KahnInit ==
  /\ dag \in Dags
  /\ pc = "validate"
  /\ inDegrees = [t \in Nodes |-> 0]
  /\ queue = <<>>
  /\ sortedList = <<>>
  /\ verdict = "none"

Reject(reason) ==
  /\ verdict' = reason
  /\ pc' = "done"
  /\ UNCHANGED <<dag, inDegrees, queue, sortedList>>

RejectEmpty == pc = "validate" /\ Nodes = {} /\ Reject("empty")

RejectOrphan == pc = "validate" /\ Nodes # {} /\ Orphaned /\ Reject("orphan")

\* Step 2: in-degrees count edges, duplicates included.
Prepare ==
  /\ pc = "validate"
  /\ Nodes # {}
  /\ ~Orphaned
  /\ inDegrees' = [t \in Nodes |-> Len(dag[t])]
  /\ queue' \in Orders({t \in Nodes : Len(dag[t]) = 0})
  /\ pc' = "loop"
  /\ UNCHANGED <<dag, sortedList, verdict>>

\* Step 3: one iteration.  The inner loop decrements once per edge.
DequeueOnce ==
  LET curr == Head(queue)
      left == [t \in Nodes |-> inDegrees[t] - (IF Edges(t, {curr}) = {} THEN 0 ELSE 1)]
  IN  /\ pc = "loop"
      /\ queue # <<>>
      /\ sortedList' = Append(sortedList, curr)
      /\ inDegrees' = left
      /\ \E freed \in Orders({t \in Nodes : inDegrees[t] > 0 /\ left[t] = 0}) :
           queue' = Tail(queue) \o freed
      /\ UNCHANGED <<dag, pc, verdict>>
Dequeue ==
  LET curr == Head(queue)
      left == [t \in Nodes |-> inDegrees[t] - Cardinality(Edges(t, {curr}))]
  IN  /\ pc = "loop"
      /\ queue # <<>>
      /\ sortedList' = Append(sortedList, curr)
      /\ inDegrees' = left
      /\ \E freed \in Orders({t \in Nodes : inDegrees[t] > 0 /\ left[t] = 0}) :
           queue' = Tail(queue) \o freed
      /\ UNCHANGED <<dag, pc, verdict>>

\* Step 4.
DecideUnchecked ==
  /\ pc = "loop"
  /\ queue = <<>>
  /\ verdict' = "sorted"
  /\ pc' = "done"
  /\ UNCHANGED <<dag, inDegrees, queue, sortedList>>
Decide ==
  /\ pc = "loop"
  /\ queue = <<>>
  /\ verdict' = IF Len(sortedList) # Cardinality(Nodes) THEN "cyclic" ELSE "sorted"
  /\ pc' = "done"
  /\ UNCHANGED <<dag, inDegrees, queue, sortedList>>

KahnNext == RejectEmpty \/ RejectOrphan \/ Prepare \/ Dequeue \/ Decide

KahnSpec == KahnInit /\ [][KahnNext]_kahnVars

-----------------------------------------------------------------------------
\* An accepted DAG is listed completely, each task once, after everything it
\* depends on.  About the length test of step 4, which is all that is checked.
SortedIsTopological ==
  verdict = "sorted" =>
    /\ sortedList \in Bijection(1 .. Cardinality(Nodes), Nodes)
    /\ \A j \in DOMAIN sortedList :
         \A i \in DOMAIN dag[sortedList[j]] :
           \E k \in 1 .. j - 1 : sortedList[k] = dag[sortedList[j]][i]

\* Tasks none of which can be the first to run.
Stuck(S) == S # {} /\ \A t \in S : Edges(t, S) # {}

\* A DAG is called cyclic only if some of its tasks wait for each other.
\* About the in-degrees: one decrement too few and a sound DAG is refused.
CyclicHasCycle == verdict = "cyclic" => \E S \in SUBSET Nodes : Stuck(S)
=============================================================================
