------------------------------ MODULE LogStream ------------------------------
(***************************************************************************)
(* The log stream of the probe (Go) and the page that reads it (App.tsx),  *)
(* through the port forward of the probe.  Every connection has a handler  *)
(* of its own: a first scan and a ticker's scans look for pods, one tailer *)
(* per pod follows its log, a channel of bounded capacity leads back.      *)
(*                                                                         *)
(* The pods of the namespace stay Running; the stream of one may end, as   *)
(* when the API server closes it.  The logs and the API server are         *)
(* external.  The window of 500 lines and its filters, and the mock lines  *)
(* of a probe outside Kubernetes are left out.                             *)
(***************************************************************************)
EXTENDS PortForward, Sequences

CONSTANTS
  Pods,        \* Running pods of the namespace
  MaxLines,    \* bound on the lines a pod writes
  MaxEnds,     \* bound on streams that end and on scans that fail, together
  Capacity,    \* of logChan
  TailLines    \* lines a new tail starts with

ASSUME LogStreamAssumption ==
  /\ {MaxLines, MaxEnds} \subseteq Nat
  /\ {Capacity, TailLines} \subseteq Nat \ {0}

Conns    == 1 .. MaxOutages + 1
Scanners == {"first", "ticker"}
Tailers  == Conns \X Scanners \X Pods  \* handler, scan that started it, pod

VARIABLES
  written,      \* pod -> lines of its log
  ends,         \* streams that ended so far
  source,       \* the connection of the page's EventSource, or 0
  handler,      \* connection -> "unused", "open", "gone": its handler
  ticking,      \* connections whose ticker goroutine lives
  scan,         \* connection -> scanner -> pods of its list still to look at
  tailingPods,  \* connection -> pods
  tailer,       \* tailer -> [at: "none", "reading", "sending"; line]
  logChan,      \* connection -> lines on the channel
  logs          \* lines the page has shown

podVars       == <<written, ends>>
handlerVars   == <<handler, ticking, scan, tailingPods, tailer, logChan>>
logStreamVars == <<forwardVars, podVars, source, handlerVars, logs>>

Idle == [at |-> "none", line |-> 0]

LogStreamInit ==
  /\ ForwardInit
  /\ written = [p \in Pods |-> 0] /\ ends = 0
  /\ source = 0
  /\ handler = [c \in Conns |-> "unused"]
  /\ ticking = {}
  /\ scan = [c \in Conns |-> [s \in Scanners |-> {}]]
  /\ tailingPods = [c \in Conns |-> {}]
  /\ tailer = [t \in Tailers |-> Idle]
  /\ logChan = [c \in Conns |-> <<>>]
  /\ logs = {}

Write(p) ==
  /\ written[p] < MaxLines
  /\ written' = [written EXCEPT ![p] = @ + 1]
  /\ UNCHANGED <<ends, source, handlerVars, logs>>

-----------------------------------------------------------------------------
(* The EventSource of the log terminal, and handleLogsStream. *)

\* It connects by itself, again and again.
Connect(c) ==
  /\ source = 0 /\ "probe" \in forwards
  /\ handler[c] = "unused" /\ \A d \in Conns : d < c => handler[d] # "unused"
  /\ source' = c
  /\ handler' = [handler EXCEPT ![c] = "open"]
  /\ ticking' = ticking \cup {c}
  /\ scan' = [scan EXCEPT ![c]["first"] = Pods]
  /\ UNCHANGED <<podVars, tailingPods, tailer, logChan, logs>>

\* What goes through a forward breaks with it.
Disconnect ==
  /\ source' = IF "probe" \in forwards' THEN source ELSE 0
  /\ UNCHANGED <<podVars, handlerVars, logs>>

Deliver(c) ==
  /\ handler[c] = "open" /\ logChan[c] # <<>>
  /\ logChan' = [logChan EXCEPT ![c] = Tail(@)]
  /\ logs' = IF c = source THEN logs \cup {Head(logChan[c])} ELSE logs
  /\ UNCHANGED <<podVars, source, handler, ticking, scan, tailingPods, tailer>>

\* The request's context is done, and the deferred close(done) runs.
Leave(c) ==
  /\ handler[c] = "open" /\ c # source
  /\ handler' = [handler EXCEPT ![c] = "gone"]
  /\ UNCHANGED <<podVars, source, ticking, scan, tailingPods, tailer, logChan,
                 logs>>

\* The select takes either branch when the tick and done are both there.
Tick(c) ==
  /\ c \in ticking /\ scan[c]["ticker"] = {}
  /\ scan' = [scan EXCEPT ![c]["ticker"] = Pods]
  /\ UNCHANGED <<podVars, source, handler, ticking, tailingPods, tailer, logChan,
                 logs>>

StopTicking(c) ==
  /\ c \in ticking /\ scan[c]["ticker"] = {}
  /\ handler[c] = "gone"
  /\ ticking' = ticking \ {c}
  /\ UNCHANGED <<podVars, source, handler, scan, tailingPods, tailer, logChan, logs>>

\* The list could not be had.
ScanFails(c, s) ==
  /\ scan[c][s] = Pods /\ ends < MaxEnds
  /\ ends' = ends + 1
  /\ scan' = [scan EXCEPT ![c][s] = {}]
  /\ UNCHANGED <<written, source, handler, ticking, tailingPods, tailer, logChan,
                 logs>>

TailFrom(p) == IF written[p] > TailLines THEN written[p] - TailLines ELSE 0

\* One turn of discoverPods' loop, under the mutex.
DiscoverUnchecked(c, s, p) ==
  /\ p \in scan[c][s]
  /\ scan' = [scan EXCEPT ![c][s] = @ \ {p}]
  /\ IF tailer[<<c, s, p>>].at # "none"
       THEN UNCHANGED <<tailingPods, tailer>>
       ELSE /\ tailingPods' = [tailingPods EXCEPT ![c] = @ \cup {p}]
            /\ tailer' = [tailer EXCEPT ![<<c, s, p>>] =
                            [at |-> "reading", line |-> TailFrom(p)]]
  /\ UNCHANGED <<podVars, source, handler, ticking, logChan, logs>>
Discover(c, s, p) ==
  /\ p \in scan[c][s]
  /\ scan' = [scan EXCEPT ![c][s] = @ \ {p}]
  /\ IF p \in tailingPods[c]
       THEN UNCHANGED <<tailingPods, tailer>>
       ELSE /\ tailingPods' = [tailingPods EXCEPT ![c] = @ \cup {p}]
            /\ tailer' = [tailer EXCEPT ![<<c, s, p>>] =
                            [at |-> "reading", line |-> TailFrom(p)]]
  /\ UNCHANGED <<podVars, source, handler, ticking, logChan, logs>>

-----------------------------------------------------------------------------
(* tailPodLogs: t is <<connection, scanner, pod>>. *)

\* Scan waits for the next line as long as it takes.
ReadLine(t) ==
  /\ tailer[t].at = "reading"
  /\ tailer[t].line < written[t[3]]
  /\ tailer' = [tailer EXCEPT ![t] = [at |-> "sending", line |-> @.line + 1]]
  /\ UNCHANGED <<podVars, source, handler, ticking, scan, tailingPods, logChan,
                 logs>>

SendLine(t) ==
  /\ tailer[t].at = "sending"
  /\ Len(logChan[t[1]]) < Capacity
  /\ logChan' = [logChan EXCEPT ![t[1]] = Append(@, <<t[3], tailer[t].line>>)]
  /\ tailer' = [tailer EXCEPT ![t].at = "reading"]
  /\ UNCHANGED <<podVars, source, handler, ticking, scan, tailingPods, logs>>

\* It returns, and the deferred function forgets the pod.
ReturnsRemembered(t) ==
  /\ tailer' = [tailer EXCEPT ![t] = Idle]
  /\ UNCHANGED <<tailingPods, written, source, handler, ticking, scan, logChan, logs>>
Returns(t) ==
  /\ tailer' = [tailer EXCEPT ![t] = Idle]
  /\ tailingPods' = [tailingPods EXCEPT ![t[1]] = @ \ {t[3]}]
  /\ UNCHANGED <<written, source, handler, ticking, scan, logChan, logs>>

SeesDoneBeforeScan(t) ==
  /\ tailer[t].at = "reading"
  /\ handler[t[1]] = "gone"
  /\ Returns(t)
  /\ UNCHANGED ends
SeesDone(t) ==
  /\ tailer[t].at = "sending"
  /\ handler[t[1]] = "gone"
  /\ Returns(t)
  /\ UNCHANGED ends

StreamEnds(t) ==
  /\ tailer[t].at = "reading"
  /\ ends < MaxEnds /\ ends' = ends + 1
  /\ Returns(t)

-----------------------------------------------------------------------------
Scan(c)   == Tick(c) \/ \E s \in Scanners, p \in Pods : Discover(c, s, p)
Follow(t) == ReadLine(t) \/ SendLine(t) \/ SeesDone(t)

LogNext ==
  \/ \E p \in Pods : Write(p)
  \/ \E c \in Conns :
       \/ Connect(c) \/ Deliver(c) \/ Leave(c)
       \/ Scan(c) \/ StopTicking(c)
       \/ \E s \in Scanners : ScanFails(c, s)
  \/ \E t \in Tailers : Follow(t) \/ StreamEnds(t)

Streaming(A) == A /\ UNCHANGED forwardVars

LogStreamNext ==
  \/ Streaming(LogNext)
  \/ ForwardNext /\ Disconnect

LogStreamSpec == LogStreamInit /\ [][LogStreamNext]_logStreamVars

\* Goroutines run, the ticker ticks, the select is fair to done and the browser
\* reconnects.  No pod has to write, no stream to end, nobody to start a script.
LogStreamFairSpec ==
  /\ LogStreamSpec
  /\ WF_logStreamVars(Streaming(\E c \in Conns : Connect(c)))
  /\ \A c \in Conns :
       /\ WF_logStreamVars(Streaming(Deliver(c) \/ Leave(c)))
       /\ WF_logStreamVars(Streaming(Scan(c)))
       /\ SF_logStreamVars(Streaming(StopTicking(c)))
       /\ WF_logStreamVars(
            Streaming(\E s \in Scanners, p \in Pods : Follow(<<c, s, p>>)))

-----------------------------------------------------------------------------
Alive(t) == tailer[t].at # "none"

\* No client is sent the log of a pod twice at the same time, although two
\* scans find it.  About tailingPods and its mutex.
TailedOnce ==
  \A c \in Conns, p \in Pods :
    ~ (Alive(<<c, "first", p>>) /\ Alive(<<c, "ticker", p>>))

\* A tailer whose client has left goes with the next line of its pod: none is
\* left before a full channel that nobody reads.  About the done case of the
\* select in tailPodLogs, and the scan that is under way when the client leaves.
TailersLeave ==
  <>[](\A t \in Tailers :
         Alive(t) /\ handler[t[1]] = "gone"
           => tailer[t].at = "reading" /\ tailer[t].line = written[t[3]])

\* Whatever streams end, scans fail and connections break, the page has shown
\* the last line of every pod once the probe stays in reach.  About the deferred
\* delete, the ticker and the reconnecting EventSource.
PageCatchesUp ==
  <>[]("probe" \in forwards)
    => <>[](\A p \in Pods : written[p] > 0 => <<p, written[p]>> \in logs)
=============================================================================
