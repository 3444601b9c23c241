--------------------------- MODULE LogStreamProofs ---------------------------
(***************************************************************************)
(* No client is sent a log twice at the same time, for any number of pods, *)
(* connections and outages.  A tailer lives only while its pod is in the   *)
(* set of its connection; the set alone would let the second scan start    *)
(* another tailer as soon as the first had left the set while alive.       *)
(***************************************************************************)
EXTENDS LogStream, Integers, TLAPS

Points == [at : {"none", "reading", "sending"}, line : Int]

\* The part of the state that matters here is of its type, the tailers that
\* live are remembered, and they are one per connection and pod.
TailInv ==
  /\ tailer \in [Tailers -> Points]
  /\ tailingPods \in [Conns -> SUBSET Pods]
  /\ written \in [Pods -> Int]
  /\ \A t \in Tailers : Alive(t) => t[3] \in tailingPods[t[1]]
  /\ \A t, u \in Tailers :
       Alive(t) /\ Alive(u) /\ t[1] = u[1] /\ t[3] = u[3] => t[2] = u[2]

tailVars == <<tailer, tailingPods, written>>

LEMMA TailersShape ==
  /\ \A t \in Tailers : t[1] \in Conns /\ t[2] \in Scanners /\ t[3] \in Pods
  /\ \A c \in Conns, s \in Scanners, p \in Pods : <<c, s, p>> \in Tailers
  /\ \A t \in Tailers : t = <<t[1], t[2], t[3]>>
BY DEF Tailers

LEMMA TailInitial == LogStreamInit => TailInv
BY TailersShape DEF LogStreamInit, TailInv, Points, Idle, Alive

LEMMA WriteKeeps ==
  ASSUME TailInv, NEW p \in Pods, Write(p) PROVE TailInv'
BY DEF TailInv, Write, handlerVars, Alive

\* A scan starts a tailer only when no tailer of that pod is alive.
LEMMA DiscoverKeeps ==
  ASSUME TailInv, NEW c \in Conns, NEW s \in Scanners, NEW p \in Pods,
         Discover(c, s, p)
  PROVE  TailInv'
<1> DEFINE d == <<c, s, p>>
<1>1. CASE p \in tailingPods[c]
  BY <1>1 DEF Discover, podVars, TailInv, Alive
<1>2. CASE p \notin tailingPods[c]
  <2>1. /\ tailingPods' = [tailingPods EXCEPT ![c] = @ \cup {p}]
        /\ tailer' = [tailer EXCEPT ![d] = [at |-> "reading", line |-> TailFrom(p)]]
        /\ written' = written
    BY <1>2 DEF Discover, podVars
  <2>2. \A t \in Tailers : t[1] = c /\ t[3] = p => ~Alive(t)
    BY <1>2 DEF TailInv
  <2>3. d \in Tailers /\ d[1] = c /\ d[2] = s /\ d[3] = p
    BY TailersShape
  <2>4. \A t \in Tailers : Alive(t)' => Alive(t) \/ t = d
    BY <2>1, <2>3 DEF TailInv, Alive
  <2>5. TailFrom(p) \in Int
    BY LogStreamAssumption DEF TailFrom, TailInv
  <2>6. tailer' \in [Tailers -> Points]
    BY <2>1, <2>5 DEF TailInv, Points
  <2>7. tailingPods' \in [Conns -> SUBSET Pods]
    BY <2>1 DEF TailInv
  <2>8. \A t \in Tailers : Alive(t)' => t[3] \in tailingPods'[t[1]]
    BY <2>1, <2>3, <2>4, TailersShape DEF TailInv
  <2>9. \A t, u \in Tailers :
          Alive(t)' /\ Alive(u)' /\ t[1] = u[1] /\ t[3] = u[3] => t[2] = u[2]
    BY <2>2, <2>3, <2>4 DEF TailInv
  <2>. QED BY <2>1, <2>6, <2>7, <2>8, <2>9 DEF TailInv
<1>. QED BY <1>1, <1>2

\* Reading and sending keep a tailer alive and start none.
LEMMA FollowKeeps ==
  ASSUME TailInv, NEW t \in Tailers, ReadLine(t) \/ SendLine(t) PROVE TailInv'
<1>1. PICK q \in Points : tailer' = [tailer EXCEPT ![t] = q]
  <2>1. CASE ReadLine(t)
    <3> DEFINE q == [at |-> "sending", line |-> tailer[t].line + 1]
    <3>1. q \in Points
      BY DEF TailInv, Points
    <3>2. tailer' = [tailer EXCEPT ![t] = q]
      BY <2>1 DEF ReadLine
    <3>. QED BY <3>1, <3>2
  <2>2. CASE SendLine(t)
    <3> DEFINE q == [at |-> "reading", line |-> tailer[t].line]
    <3>1. q \in Points
      BY DEF TailInv, Points
    <3>2. [tailer[t] EXCEPT !.at = "reading"] = q
      BY DEF TailInv, Points
    <3>3. tailer' = [tailer EXCEPT ![t] = q]
      BY <2>2, <3>2 DEF SendLine
    <3>. QED BY <3>1, <3>3
  <2>. QED BY <2>1, <2>2
<1>2. tailingPods' = tailingPods /\ written' = written
  BY DEF ReadLine, SendLine, podVars
<1>3. Alive(t)
  BY DEF ReadLine, SendLine, Alive
<1>4. \A u \in Tailers : Alive(u)' => Alive(u)
  BY <1>1, <1>3 DEF TailInv, Alive
<1>5. tailer' \in [Tailers -> Points]
  BY <1>1 DEF TailInv
<1>. QED BY <1>2, <1>4, <1>5 DEF TailInv, Alive

\* A tailer that returns is the last of its pod, which may then be forgotten.
LEMMA ReturnsKeeps ==
  ASSUME TailInv, NEW t \in Tailers, Alive(t), Returns(t) PROVE TailInv'
<1>1. /\ tailer' = [tailer EXCEPT ![t] = Idle]
      /\ tailingPods' = [tailingPods EXCEPT ![t[1]] = @ \ {t[3]}]
      /\ written' = written
  BY DEF Returns
<1>2. tailer' \in [Tailers -> Points] /\ tailingPods' \in [Conns -> SUBSET Pods]
  BY <1>1, TailersShape DEF TailInv, Points, Idle
<1>3. \A u \in Tailers : Alive(u)' => Alive(u) /\ u # t
  BY <1>1 DEF TailInv, Alive, Idle
<1>4. \A u \in Tailers : Alive(u)' => u[1] # t[1] \/ u[3] # t[3]
  BY <1>3, TailersShape DEF TailInv
<1>5. \A u \in Tailers : Alive(u)' => u[3] \in tailingPods'[u[1]]
  BY <1>1, <1>3, <1>4, TailersShape DEF TailInv
<1>. QED BY <1>1, <1>2, <1>3, <1>5 DEF TailInv

LEMMA TailInductive == TailInv /\ [LogStreamNext]_logStreamVars => TailInv'
<1> SUFFICES ASSUME TailInv, [LogStreamNext]_logStreamVars PROVE TailInv'
  OBVIOUS
<1>1. CASE UNCHANGED tailVars
  BY <1>1 DEF tailVars, TailInv, Alive
<1>2. CASE \E p \in Pods : Write(p)
  BY <1>2, WriteKeeps
<1>3. CASE \E c \in Conns : Scan(c)
  BY <1>3, <1>1, DiscoverKeeps DEF Scan, Tick, podVars, tailVars
<1>4. CASE \E c \in Conns : Connect(c) \/ Deliver(c) \/ Leave(c) \/ StopTicking(c)
  BY <1>4, <1>1 DEF Connect, Deliver, Leave, StopTicking, podVars, tailVars
<1>5. CASE \E c \in Conns, s \in Scanners : ScanFails(c, s)
  BY <1>5, <1>1 DEF ScanFails, tailVars
<1>6. CASE \E t \in Tailers : Follow(t) \/ StreamEnds(t)
  BY <1>6, FollowKeeps, ReturnsKeeps DEF Follow, SeesDone, StreamEnds, Alive
<1>7. CASE ForwardNext /\ Disconnect
  BY <1>7, <1>1 DEF Disconnect, podVars, handlerVars, tailVars
<1>8. CASE UNCHANGED logStreamVars
  BY <1>8, <1>1 DEF logStreamVars, podVars, handlerVars, tailVars
<1>. QED
  BY <1>2, <1>3, <1>4, <1>5, <1>6, <1>7, <1>8
     DEF LogStreamNext, Streaming, LogNext

\* However many scans, connections and broken streams there are.
THEOREM OneTailPerPod == LogStreamSpec => []TailedOnce
<1>1. TailInv => TailedOnce
  BY TailersShape DEF TailInv, TailedOnce, Scanners
<1>. QED BY <1>1, TailInitial, TailInductive, PTL DEF LogStreamSpec
=============================================================================
