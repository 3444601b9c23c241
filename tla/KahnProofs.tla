------------------------------ MODULE KahnProofs ------------------------------
(***************************************************************************)
(* What the gateway's validation decides is right for every DAG.  The      *)
(* loop invariant: the tasks listed and the tasks queued are exactly those *)
(* whose in-degree is zero, the in-degree of a task counts its edges from  *)
(* the tasks not listed yet, and the list is topological so far.           *)
(***************************************************************************)
EXTENDS Kahn, SequenceTheorems, FiniteSetTheorems, TLAPS

Left == Nodes \ Range(sortedList)

Listed == Range(sortedList) \cup Range(queue)

LoopTypeOK ==
  /\ sortedList \in Seq(Nodes)
  /\ queue \in Seq(Nodes)
  /\ inDegrees \in [Nodes -> Nat]

ListedOnce ==
  /\ IsInjective(sortedList)
  /\ IsInjective(queue)
  /\ Range(sortedList) \cap Range(queue) = {}

CountsLeft ==
  \A t \in Nodes : inDegrees[t] = Cardinality(Edges(t, Left))

ListedAreFree == \A t \in Nodes : inDegrees[t] = 0 <=> t \in Listed

\* Every dependency of the task at position j is listed before it.
Topological ==
  \A j \in DOMAIN sortedList :
    \A i \in DOMAIN dag[sortedList[j]] :
      \E k \in 1 .. j - 1 : sortedList[k] = dag[sortedList[j]][i]

LoopInv ==
  /\ ~Orphaned
  /\ LoopTypeOK /\ ListedOnce /\ CountsLeft /\ ListedAreFree /\ Topological

KahnIInv ==
  /\ dag \in Dags
  /\ pc \in {"validate", "loop", "done"}
  /\ pc # "done" => verdict = "none"
  /\ pc = "validate" => sortedList = <<>>
  /\ pc = "loop" => LoopInv
  /\ SortedIsTopological /\ CyclicHasCycle

-----------------------------------------------------------------------------
(* Operators of the algorithm. *)

LEMMA DagType ==
  ASSUME dag \in Dags
  PROVE  /\ IsFiniteSet(Nodes)
         /\ \A t \in Nodes : /\ Len(dag[t]) \in Nat
                             /\ DOMAIN dag[t] = 1 .. Len(dag[t])
BY DagsAssumption, LenProperties DEF Nodes

LEMMA EdgesFinite ==
  ASSUME dag \in Dags, NEW t \in Nodes, NEW S
  PROVE  /\ IsFiniteSet(Edges(t, S))
         /\ Cardinality(Edges(t, S)) \in Nat
         /\ Cardinality(Edges(t, S)) = 0 <=> Edges(t, S) = {}
<1>1. IsFiniteSet(1 .. Len(dag[t]))
  BY DagType, FS_Interval
<1>2. Edges(t, S) \in SUBSET (1 .. Len(dag[t]))
  BY DEF Edges
<1>3. IsFiniteSet(Edges(t, S))
  BY <1>1, <1>2, FS_Subset
<1>. QED BY <1>3, FS_CardinalityType, FS_EmptySet

\* The edges from S are those from x and those from the rest of S.
LEMMA EdgesSplit ==
  ASSUME dag \in Dags, NEW t \in Nodes, NEW S, NEW x \in S
  PROVE  Cardinality(Edges(t, S \ {x}))
           = Cardinality(Edges(t, S)) - Cardinality(Edges(t, {x}))
<1>1. Edges(t, S \ {x}) = Edges(t, S) \ Edges(t, {x})
  BY DEF Edges
<1>2. Edges(t, S) \cap Edges(t, {x}) = Edges(t, {x})
  BY DEF Edges
<1>3. IsFiniteSet(Edges(t, S))
  BY EdgesFinite
<1>. QED BY <1>1, <1>2, <1>3, FS_Difference

\* An order of a finite set lists each of its members once.
LEMMA OrderLists ==
  ASSUME NEW S, IsFiniteSet(S), NEW order \in Orders(S)
  PROVE  order \in Seq(S) /\ IsInjective(order) /\ Range(order) = S
<1>1. Cardinality(S) \in Nat
  BY FS_CardinalityType
<1>2. order \in [1 .. Cardinality(S) -> S] /\ IsInjective(order)
  BY DEF Orders, Bijection, Injection
<1>3. \A x \in S : \E i \in 1 .. Cardinality(S) : order[i] = x
  BY DEF Orders, Bijection, Surjection
<1>4. order \in Seq(S)
  BY <1>1, <1>2, SeqDef
<1>5. Range(order) = S
  BY <1>2, <1>3 DEF Range
<1>. QED BY <1>2, <1>4, <1>5

\* Appending two lists of different tasks.
LEMMA JoinLists ==
  ASSUME NEW S, NEW s \in Seq(S), NEW r \in Seq(S),
         IsInjective(s), IsInjective(r), Range(s) \cap Range(r) = {}
  PROVE  IsInjective(s \o r)
<1>1. /\ s \o r \in Seq(S)
      /\ Len(s \o r) = Len(s) + Len(r)
      /\ \A i \in 1 .. Len(s) + Len(r) :
           (s \o r)[i] = IF i <= Len(s) THEN s[i] ELSE r[i - Len(s)]
  BY ConcatProperties
<1>2. /\ DOMAIN s = 1 .. Len(s) /\ DOMAIN r = 1 .. Len(r)
      /\ DOMAIN (s \o r) = 1 .. Len(s) + Len(r)
      /\ Len(s) \in Nat /\ Len(r) \in Nat
  BY <1>1, LenProperties
<1>3. ASSUME NEW i \in DOMAIN (s \o r), NEW j \in DOMAIN (s \o r),
             (s \o r)[i] = (s \o r)[j]
      PROVE  i = j
  <2>1. CASE i <= Len(s) /\ j <= Len(s)
    BY <1>1, <1>2, <1>3, <2>1 DEF IsInjective
  <2>2. CASE i > Len(s) /\ j > Len(s)
    <3>1. r[i - Len(s)] = r[j - Len(s)]
      BY <1>1, <1>2, <1>3, <2>2
    <3>2. i - Len(s) \in DOMAIN r /\ j - Len(s) \in DOMAIN r
      BY <1>2, <2>2
    <3>3. i - Len(s) = j - Len(s)
      BY <3>1, <3>2 DEF IsInjective
    <3>. QED BY <1>2, <3>3
  <2>3. CASE i <= Len(s) /\ j > Len(s)
    <3>1. s[i] = r[j - Len(s)] /\ i \in DOMAIN s /\ j - Len(s) \in DOMAIN r
      BY <1>1, <1>2, <1>3, <2>3
    <3>. QED BY <3>1 DEF Range
  <2>4. CASE i > Len(s) /\ j <= Len(s)
    <3>1. s[j] = r[i - Len(s)] /\ j \in DOMAIN s /\ i - Len(s) \in DOMAIN r
      BY <1>1, <1>2, <1>3, <2>4
    <3>. QED BY <3>1 DEF Range
  <2>. QED BY <1>2, <2>1, <2>2, <2>3, <2>4
<1>. QED BY <1>3 DEF IsInjective

\* Taking the first task off a list.
LEMMA TakeFirst ==
  ASSUME NEW S, NEW s \in Seq(S), s # <<>>, IsInjective(s)
  PROVE  /\ Head(s) \in Range(s) /\ Head(s) \in S
         /\ Tail(s) \in Seq(S)
         /\ IsInjective(Tail(s))
         /\ Range(Tail(s)) = Range(s) \ {Head(s)}
<1>1. /\ Tail(s) \in Seq(S) /\ Head(s) = s[1]
      /\ Len(s) \in Nat /\ Len(s) > 0
      /\ DOMAIN s = 1 .. Len(s)
      /\ DOMAIN Tail(s) = 1 .. Len(s) - 1
      /\ \A i \in 1 .. Len(s) - 1 : Tail(s)[i] = s[i + 1]
  BY HeadTailProperties, LenProperties, EmptySeq
<1>2. 1 \in DOMAIN s /\ s[1] \in S
  BY <1>1, ElementOfSeq
<1>3. IsInjective(Tail(s))
  <2>1. ASSUME NEW i \in DOMAIN Tail(s), NEW j \in DOMAIN Tail(s),
               Tail(s)[i] = Tail(s)[j]
        PROVE  i = j
    <3>1. i + 1 \in DOMAIN s /\ j + 1 \in DOMAIN s /\ s[i + 1] = s[j + 1]
      BY <1>1, <2>1
    <3>2. i + 1 = j + 1
      BY <3>1 DEF IsInjective
    <3>. QED BY <1>1, <3>2
  <2>. QED BY <2>1 DEF IsInjective
<1>4. Range(Tail(s)) \subseteq Range(s) \ {Head(s)}
  <2>1. ASSUME NEW i \in DOMAIN Tail(s)
        PROVE  Tail(s)[i] \in Range(s) /\ Tail(s)[i] # Head(s)
    <3>1. i + 1 \in DOMAIN s /\ i + 1 # 1 /\ Tail(s)[i] = s[i + 1]
      BY <1>1, <2>1
    <3>. QED BY <1>1, <1>2, <3>1 DEF IsInjective, Range
  <2>. QED BY <2>1 DEF Range
<1>5. Range(s) \ {Head(s)} \subseteq Range(Tail(s))
  <2>1. ASSUME NEW i \in DOMAIN s, s[i] # Head(s)
        PROVE  s[i] \in Range(Tail(s))
    <3>1. i - 1 \in DOMAIN Tail(s) /\ Tail(s)[i - 1] = s[i]
      BY <1>1, <2>1
    <3>. QED BY <3>1 DEF Range
  <2>. QED BY <2>1 DEF Range
<1>. QED BY <1>1, <1>2, <1>3, <1>4, <1>5 DEF Range

-----------------------------------------------------------------------------
(* The loop. *)

LEMMA KahnInitial == KahnInit => KahnIInv
BY DEF KahnInit, KahnIInv, SortedIsTopological, CyclicHasCycle

\* When the loop starts every edge counts, and the tasks without are queued.
LEMMA PrepareKeeps ==
  ASSUME KahnIInv, Prepare
  PROVE  KahnIInv'
<1>. DEFINE free == {t \in Nodes : Len(dag[t]) = 0}
<1>1. /\ dag \in Dags /\ ~Orphaned /\ sortedList = <<>> /\ verdict = "none"
      /\ pc' = "loop" /\ UNCHANGED <<dag, sortedList, verdict>>
      /\ inDegrees' = [t \in Nodes |-> Len(dag[t])]
      /\ queue' \in Orders(free)
  BY DEF KahnIInv, Prepare
<1>2. Nodes' = Nodes /\ ~Orphaned'
  BY <1>1 DEF Nodes, Orphaned
<1>3. IsFiniteSet(free)
  BY <1>1, DagType, FS_Subset
<1>4. queue' \in Seq(free) /\ IsInjective(queue') /\ Range(queue') = free
  BY <1>1, <1>3, OrderLists
<1>5. sortedList' = <<>> /\ Range(sortedList') = {} /\ Left' = Nodes
  BY <1>1, <1>2 DEF Range, Left
<1>6. LoopTypeOK'
  <2>1. queue' \in Seq(Nodes)
    BY <1>4, SeqMonotonic
  <2>. QED BY <1>1, <1>2, <1>5, <2>1, DagType, EmptySeq DEF LoopTypeOK
<1>7. ListedOnce'
  BY <1>4, <1>5 DEF ListedOnce, IsInjective
<1>8. CountsLeft'
  <2>1. ASSUME NEW t \in Nodes
        PROVE  Len(dag[t]) = Cardinality(Edges(t, Nodes))
    <3>1. Edges(t, Nodes) = 1 .. Len(dag[t])
      BY <1>1, DagType DEF Edges, Orphaned
    <3>. QED BY <1>1, <3>1, DagType, FS_Interval
  <2>2. \A t \in Nodes : Edges(t, Left)' = Edges(t, Nodes)
    BY <1>1, <1>5 DEF Edges
  <2>. QED BY <1>1, <1>2, <2>1, <2>2 DEF CountsLeft
<1>9. ListedAreFree'
  BY <1>1, <1>2, <1>4, <1>5 DEF ListedAreFree, Listed
<1>10. Topological'
  BY <1>5 DEF Topological
<1>11. SortedIsTopological' /\ CyclicHasCycle'
  BY <1>1 DEF SortedIsTopological, CyclicHasCycle
<1>. QED BY <1>1, <1>2, <1>6, <1>7, <1>8, <1>9, <1>10, <1>11 DEF KahnIInv, LoopInv

\* An iteration lists a task whose edges are all from listed tasks.
LEMMA DequeueKeeps ==
  ASSUME KahnIInv, Dequeue
  PROVE  KahnIInv'
<1>. DEFINE curr == Head(queue)
            left == [t \in Nodes |-> inDegrees[t] - Cardinality(Edges(t, {curr}))]
            freed == {t \in Nodes : inDegrees[t] > 0 /\ left[t] = 0}
<1>1. /\ dag \in Dags /\ verdict = "none"
      /\ ~Orphaned /\ LoopTypeOK /\ ListedOnce /\ CountsLeft /\ ListedAreFree
      /\ Topological
      /\ pc' = "loop" /\ UNCHANGED <<dag, verdict>>
      /\ queue # <<>>
      /\ sortedList' = Append(sortedList, curr)
      /\ inDegrees' = left
  BY DEF KahnIInv, LoopInv, Dequeue
<1>2. PICK order \in Orders(freed) : queue' = Tail(queue) \o order
  BY DEF Dequeue
<1>3. Nodes' = Nodes /\ ~Orphaned'
  BY <1>1 DEF Nodes, Orphaned
<1>4. /\ curr \in Range(queue) /\ curr \in Nodes
      /\ Tail(queue) \in Seq(Nodes) /\ IsInjective(Tail(queue))
      /\ Range(Tail(queue)) = Range(queue) \ {curr}
  BY <1>1, TakeFirst DEF LoopTypeOK, ListedOnce
<1>5. /\ <<curr>> \in Seq(Nodes) /\ IsInjective(<<curr>>) /\ Range(<<curr>>) = {curr}
      /\ sortedList' = sortedList \o <<curr>>
  <2>1. <<curr>> \in Seq(Nodes) /\ DOMAIN <<curr>> = {1} /\ <<curr>>[1] = curr
    BY <1>4
  <2>2. IsInjective(<<curr>>) /\ Range(<<curr>>) = {curr}
    BY <2>1 DEF IsInjective, Range
  <2>. QED BY <1>1, <1>4, <2>1, <2>2, AppendIsConcat DEF LoopTypeOK
<1>6. curr \notin Range(sortedList) /\ curr \in Left
  BY <1>1, <1>4 DEF ListedOnce, Left
<1>7. /\ sortedList' \in Seq(Nodes) /\ IsInjective(sortedList')
      /\ Range(sortedList') = Range(sortedList) \cup {curr}
  <2>1. Range(sortedList) \cap Range(<<curr>>) = {}
    BY <1>5, <1>6
  <2>2. sortedList \in Seq(Nodes) /\ IsInjective(sortedList)
    BY <1>1 DEF LoopTypeOK, ListedOnce
  <2>3. IsInjective(sortedList \o <<curr>>)
    BY <1>5, <2>1, <2>2, JoinLists
  <2>4. /\ sortedList \o <<curr>> \in Seq(Nodes)
        /\ Range(sortedList \o <<curr>>) = Range(sortedList) \cup Range(<<curr>>)
    BY <1>5, <2>2, ConcatProperties, RangeConcatenation
  <2>. QED BY <1>5, <2>3, <2>4
<1>8. Left' = Left \ {curr}
  BY <1>3, <1>7 DEF Left
<1>9. ASSUME NEW t \in Nodes
      PROVE  /\ inDegrees[t] \in Nat
             /\ left[t] = Cardinality(Edges(t, Left'))
             /\ left[t] \in Nat /\ left[t] <= inDegrees[t]
  <2>1. inDegrees[t] = Cardinality(Edges(t, Left)) /\ inDegrees[t] \in Nat
    BY <1>1 DEF CountsLeft, LoopTypeOK
  <2>2. Cardinality(Edges(t, Left \ {curr}))
          = Cardinality(Edges(t, Left)) - Cardinality(Edges(t, {curr}))
    BY <1>1, <1>6, EdgesSplit
  <2>3. Cardinality(Edges(t, {curr})) \in Nat /\ Cardinality(Edges(t, Left')) \in Nat
    BY <1>1, EdgesFinite
  <2>. QED BY <1>8, <2>1, <2>2, <2>3
<1>10. /\ order \in Seq(Nodes) /\ IsInjective(order) /\ Range(order) = freed
  <2>1. IsFiniteSet(freed)
    BY <1>1, DagType, FS_Subset
  <2>2. freed \subseteq Nodes
    OBVIOUS
  <2>. HIDE DEF freed
  <2>3. order \in Seq(freed) /\ IsInjective(order) /\ Range(order) = freed
    BY <2>1, OrderLists
  <2>. QED BY <2>2, <2>3, SeqMonotonic
<1>11. freed \cap Listed = {}
  BY <1>1 DEF ListedAreFree
<1>12. /\ queue' \in Seq(Nodes) /\ IsInjective(queue')
       /\ Range(queue') = (Range(queue) \ {curr}) \cup freed
  <2>1. Range(Tail(queue)) \cap Range(order) = {}
    BY <1>4, <1>10, <1>11 DEF Listed
  <2>2. IsInjective(Tail(queue) \o order)
    BY <1>4, <1>10, <2>1, JoinLists
  <2>3. Tail(queue) \o order \in Seq(Nodes)
    BY <1>4, <1>10, ConcatProperties
  <2>4. Tail(queue) \in Seq(Nodes) /\ order \in Seq(Nodes)
    BY <1>4, <1>10
  <2>5. Range(Tail(queue) \o order) = Range(Tail(queue)) \cup Range(order)
    BY <2>4, RangeConcatenation
  <2>. QED BY <1>2, <1>4, <1>10, <2>2, <2>3, <2>5
<1>13. LoopTypeOK'
  BY <1>1, <1>3, <1>7, <1>9, <1>12 DEF LoopTypeOK
<1>14. ListedOnce'
  BY <1>1, <1>4, <1>7, <1>11, <1>12 DEF ListedOnce, Listed
<1>15. CountsLeft'
  <2>1. \A t \in Nodes : Edges(t, Left)' = Edges(t, Left')
    BY <1>1 DEF Edges
  <2>. QED BY <1>1, <1>3, <1>9, <2>1 DEF CountsLeft
<1>16. ListedAreFree'
  <2>1. Listed' = Listed \cup freed
    BY <1>4, <1>7, <1>12 DEF Listed
  <2>2. \A t \in Nodes : left[t] = 0 <=> t \in Listed \/ t \in freed
    <3>1. ASSUME NEW t \in Nodes
          PROVE  /\ inDegrees[t] \in Nat /\ left[t] \in Nat
                 /\ left[t] <= inDegrees[t]
                 /\ inDegrees[t] = 0 <=> t \in Listed
                 /\ t \in freed <=> inDegrees[t] > 0 /\ left[t] = 0
      BY <1>1, <1>9 DEF ListedAreFree
    <3>. HIDE DEF left, freed
    <3>. QED BY <3>1
  <2>. QED BY <1>1, <1>3, <2>1, <2>2 DEF ListedAreFree
<1>17. Topological'
  <2>. DEFINE n == Len(sortedList)
  <2>1. /\ n \in Nat /\ DOMAIN sortedList = 1 .. n /\ DOMAIN sortedList' = 1 .. n + 1
        /\ \A j \in 1 .. n : sortedList'[j] = sortedList[j]
        /\ sortedList'[n + 1] = curr
    BY <1>1, <1>4, <1>7, AppendProperties, LenProperties DEF LoopTypeOK
  <2>2. ASSUME NEW i \in DOMAIN dag[curr]
        PROVE  \E k \in 1 .. n : sortedList[k] = dag[curr][i]
    <3>1. inDegrees[curr] = 0
      BY <1>1, <1>4 DEF ListedAreFree, Listed
    <3>2. Edges(curr, Left) = {}
      BY <1>1, <1>4, <3>1, EdgesFinite DEF CountsLeft
    <3>3. i \in 1 .. Len(dag[curr]) /\ dag[curr][i] \in Nodes
      BY <1>1, <1>4, <2>2, DagType DEF Orphaned
    <3>4. dag[curr][i] \in Range(sortedList)
      BY <3>2, <3>3 DEF Edges, Left
    <3>. QED BY <2>1, <3>4 DEF Range
  <2>3. ASSUME NEW j \in 1 .. n + 1, NEW i \in DOMAIN dag[sortedList'[j]]
        PROVE  \E k \in 1 .. j - 1 : sortedList'[k] = dag[sortedList'[j]][i]
    <3>1. CASE j = n + 1
      BY <2>1, <2>2, <2>3, <3>1
    <3>2. CASE j \in 1 .. n
      <4>1. PICK k \in 1 .. j - 1 : sortedList[k] = dag[sortedList[j]][i]
        BY <1>1, <2>1, <2>3, <3>2 DEF Topological
      <4>. QED BY <2>1, <3>2, <4>1
    <3>. QED BY <2>1, <3>1, <3>2
  <2>. QED BY <1>1, <2>1, <2>3 DEF Topological
<1>18. SortedIsTopological' /\ CyclicHasCycle'
  BY <1>1 DEF SortedIsTopological, CyclicHasCycle
<1>. QED BY <1>1, <1>3, <1>13, <1>14, <1>15, <1>16, <1>17, <1>18
         DEF KahnIInv, LoopInv

\* With the queue empty, the length of the list tells whether any task is left,
\* and the tasks left wait for each other.
LEMMA DecideKeeps ==
  ASSUME KahnIInv, Decide
  PROVE  KahnIInv'
<1>1. /\ dag \in Dags /\ LoopTypeOK /\ ListedOnce /\ CountsLeft /\ ListedAreFree
      /\ Topological /\ queue = <<>>
      /\ pc' = "done" /\ UNCHANGED <<dag, sortedList>>
      /\ verdict' = IF Len(sortedList) # Cardinality(Nodes) THEN "cyclic" ELSE "sorted"
  BY DEF KahnIInv, LoopInv, Decide
<1>2. Nodes' = Nodes
  BY <1>1 DEF Nodes
<1>3. /\ Len(sortedList) \in Nat /\ DOMAIN sortedList = 1 .. Len(sortedList)
      /\ sortedList \in Injection(1 .. Len(sortedList), Nodes)
  BY <1>1, LenProperties DEF LoopTypeOK, ListedOnce, Injection
<1>4. Cardinality(1 .. Len(sortedList)) = Len(sortedList)
  <2>1. Len(sortedList) \in Int /\ 1 \in Int
    BY <1>3
  <2>2. Cardinality(1 .. Len(sortedList))
          = IF 1 > Len(sortedList) THEN 0 ELSE Len(sortedList) - 1 + 1
    BY <2>1, FS_Interval
  <2>. QED BY <1>3, <2>2
<1>5. Len(sortedList) = Cardinality(Nodes)
        <=> sortedList \in Surjection(1 .. Len(sortedList), Nodes)
  BY <1>1, <1>3, <1>4, DagType, FS_Injection
<1>6. ASSUME verdict' = "sorted" PROVE SortedIsTopological'
  <2>1. Len(sortedList) = Cardinality(Nodes)
    BY <1>1, <1>6
  <2>2. sortedList \in Bijection(1 .. Cardinality(Nodes), Nodes)
    BY <1>3, <1>5, <2>1 DEF Bijection
  <2>. QED BY <1>1, <1>2, <2>2 DEF SortedIsTopological, Topological
<1>7. ASSUME verdict' = "cyclic" PROVE \E S \in SUBSET Nodes : Stuck(S)
  <2>1. sortedList \notin Surjection(1 .. Len(sortedList), Nodes)
    BY <1>1, <1>5, <1>7
  <2>2. Left # {}
    BY <1>3, <2>1 DEF Left, Range, Surjection, Injection
  <2>3. Listed = Range(sortedList)
    BY <1>1 DEF Listed, Range
  <2>4. \A t \in Left : Edges(t, Left) # {}
    BY <1>1, <2>3, EdgesFinite DEF CountsLeft, ListedAreFree, Left
  <2>. QED BY <2>2, <2>4 DEF Stuck, Left
<1>8. CyclicHasCycle'
  BY <1>1, <1>2, <1>7 DEF CyclicHasCycle, Stuck, Edges
<1>9. SortedIsTopological'
  BY <1>6 DEF SortedIsTopological
<1>. QED BY <1>1, <1>8, <1>9 DEF KahnIInv

LEMMA KahnInductive == KahnIInv /\ [KahnNext]_kahnVars => KahnIInv'
<1>. SUFFICES ASSUME KahnIInv, [KahnNext]_kahnVars PROVE KahnIInv'
  OBVIOUS
<1>1. CASE RejectEmpty \/ RejectOrphan
  BY <1>1 DEF RejectEmpty, RejectOrphan, Reject, KahnIInv, SortedIsTopological,
     CyclicHasCycle
<1>2. CASE Prepare
  BY <1>2, PrepareKeeps
<1>3. CASE Dequeue
  BY <1>3, DequeueKeeps
<1>4. CASE Decide
  BY <1>4, DecideKeeps
<1>5. CASE UNCHANGED kahnVars
  BY <1>5 DEF kahnVars, KahnIInv, LoopInv, LoopTypeOK, ListedOnce, CountsLeft,
     ListedAreFree, Topological, Left, Listed, Nodes, Edges, Orphaned,
     SortedIsTopological, CyclicHasCycle, Stuck
<1>. QED BY <1>1, <1>2, <1>3, <1>4, <1>5 DEF KahnNext

\* The list of an accepted DAG, of any size and with any doubled
\* dependencies, is complete, without repetition and in dependency order.
THEOREM KahnSorts == KahnSpec => []SortedIsTopological
<1>1. KahnIInv => SortedIsTopological
  BY DEF KahnIInv
<1>. QED BY <1>1, KahnInitial, KahnInductive, PTL DEF KahnSpec

\* No DAG without a cycle is ever refused as cyclic.
THEOREM KahnRefusesCycles == KahnSpec => []CyclicHasCycle
<1>1. KahnIInv => CyclicHasCycle
  BY DEF KahnIInv
<1>. QED BY <1>1, KahnInitial, KahnInductive, PTL DEF KahnSpec
=============================================================================
