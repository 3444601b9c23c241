------------------------------- MODULE Blaster -------------------------------
(***************************************************************************)
(* The Blaster of the chaos cannon (Go): one mutex, a timer, a cancel      *)
(* function and a pool of goroutines per blast.  A blast is named by the   *)
(* request that fired it; a scheduled one is a timer first, and the run    *)
(* its callback starts keeps the name.  `active` is written beside         *)
(* `status` everywhere and is TRUE exactly when that is RUNNING; progress  *)
(* and errors are written and shown, never read back.  The idle workers of *)
(* a blast are alike, and so are the busy ones: they are counted.          *)
(***************************************************************************)
EXTENDS Naturals, FiniteSets

CONSTANTS
  MaxBlasts,  \* bound on the requests to fire
  Configs     \* [total, concurrency, delay] they may ask for

ASSUME BlasterAssumption ==
  /\ MaxBlasts \in Nat
  /\ Configs \subseteq [total : Nat \ {0}, concurrency : Nat \ {0}, delay : Nat]

Blasts == 1 .. MaxBlasts
None == 0          \* nil

VARIABLES
  status,      \* "IDLE", "SCHEDULED", "RUNNING"
  config,      \* of the last request to fire
  cancelFunc,  \* the blast it cancels, or None
  timer,       \* the blast it starts, or None
  fires,       \* requests to fire so far
  phase,       \* blast -> where its timer and its run are
  cancelled,   \* blasts whose context is done
  left,        \* blast -> indices in its channel
  idle,        \* blast -> workers at the select
  busy         \* blast -> workers with a request in flight

control == <<status, config, cancelFunc, timer, fires, cancelled>>
pool == <<left, idle, busy>>
blasterVars == <<control, pool, phase>>

Phases == {"unused", "armed", "fired", "starting", "queued", "pooled", "running", "done"}

BlasterInit ==
  /\ status = "IDLE"
  /\ config = [total |-> 0, concurrency |-> 0, delay |-> 0]
  /\ cancelFunc = None /\ timer = None
  /\ fires = 0
  /\ phase = [b \in Blasts |-> "unused"]
  /\ cancelled = {}
  /\ left = [b \in Blasts |-> 0]
  /\ idle = [b \in Blasts |-> 0]
  /\ busy = [b \in Blasts |-> 0]

\* stopInternal: what it cancels, and the timers that are left.  Stop has no
\* effect on a timer whose function has already been started.
CancelNothing == cancelled
Cancel == cancelled \cup ({cancelFunc} \ {None})
StopTimer == [b \in Blasts |-> IF b = timer /\ phase[b] = "armed" THEN "done" ELSE phase[b]]

Fire(cfg) ==
  LET b == fires + 1
  IN  /\ fires < MaxBlasts
      /\ fires' = b
      /\ cancelled' = Cancel
      /\ config' = cfg
      /\ IF cfg.delay > 0
           THEN /\ status' = "SCHEDULED"
                /\ timer' = b
                /\ cancelFunc' = None
                /\ phase' = [StopTimer EXCEPT ![b] = "armed"]
           ELSE /\ status' = "RUNNING"
                /\ timer' = None
                /\ cancelFunc' = b
                /\ phase' = [StopTimer EXCEPT ![b] = "starting"]
      /\ UNCHANGED pool

Stop ==
  /\ cancelled' = Cancel
  /\ phase' = StopTimer
  /\ status' = "IDLE"
  /\ timer' = None
  /\ cancelFunc' = None
  /\ UNCHANGED <<config, fires, pool>>

\* The delay is over: the function runs in a goroutine and asks for the mutex.
TimerFires(b) ==
  /\ phase[b] = "armed"
  /\ phase' = [phase EXCEPT ![b] = "fired"]
  /\ UNCHANGED <<control, pool>>

TimerCallbackUnmarked(b) ==
  /\ phase[b] = "fired"
  /\ phase' = [phase EXCEPT ![b] = IF status = "SCHEDULED" THEN "starting" ELSE "done"]
  /\ cancelFunc' = IF status = "SCHEDULED" THEN b ELSE cancelFunc
  /\ UNCHANGED <<status, config, timer, fires, cancelled, pool>>
TimerCallback(b) ==
  /\ phase[b] = "fired"
  /\ IF status = "SCHEDULED"
       THEN /\ status' = "RUNNING"
            /\ cancelFunc' = b
            /\ phase' = [phase EXCEPT ![b] = "starting"]
       ELSE /\ phase' = [phase EXCEPT ![b] = "done"]
            /\ UNCHANGED <<status, cancelFunc>>
  /\ UNCHANGED <<config, timer, fires, cancelled, pool>>

\* runBlast copies b.config without the mutex, after the goroutine started: a
\* later request may have replaced it, before the copy or in the middle.
ReadTotal(b) ==
  /\ phase[b] \in {"starting", "pooled"}
  /\ phase' = [phase EXCEPT ![b] = IF @ = "starting" THEN "queued" ELSE "running"]
  /\ left' = [left EXCEPT ![b] = config.total]
  /\ UNCHANGED <<control, idle, busy>>

ReadConcurrency(b) ==
  /\ phase[b] \in {"starting", "queued"}
  /\ phase' = [phase EXCEPT ![b] = IF @ = "starting" THEN "pooled" ELSE "running"]
  /\ idle' = [idle EXCEPT ![b] = config.concurrency]
  /\ UNCHANGED <<control, left, busy>>

\* A worker at the select.  If the context is done and the channel has an
\* index, Go takes either branch.
WorkerTake(b) ==
  /\ phase[b] = "running"
  /\ idle[b] > 0
  /\ left[b] > 0
  /\ left' = [left EXCEPT ![b] = @ - 1]
  /\ idle' = [idle EXCEPT ![b] = @ - 1]
  /\ busy' = [busy EXCEPT ![b] = @ + 1]
  /\ UNCHANGED <<control, phase>>

WorkerExitCancelled(b) ==
  /\ phase[b] = "running"
  /\ idle[b] > 0
  /\ b \in cancelled
  /\ idle' = [idle EXCEPT ![b] = @ - 1]
  /\ UNCHANGED <<control, phase, left, busy>>
WorkerExit(b) ==
  /\ phase[b] = "running"
  /\ idle[b] > 0
  /\ b \in cancelled \/ left[b] = 0
  /\ idle' = [idle EXCEPT ![b] = @ - 1]
  /\ UNCHANGED <<control, phase, left, busy>>

\* submitWorkflow returns: the gateway's answer, the client's timeout, or the
\* end of the context.
Submitted(b) ==
  /\ busy[b] > 0
  /\ busy' = [busy EXCEPT ![b] = @ - 1]
  /\ idle' = [idle EXCEPT ![b] = @ + 1]
  /\ UNCHANGED <<control, phase, left>>

\* wg.Wait returns: the status is reset whichever blast it now speaks of.
BlastEnd(b) ==
  /\ phase[b] = "running"
  /\ idle[b] + busy[b] = 0
  /\ phase' = [phase EXCEPT ![b] = "done"]
  /\ status' = "IDLE"
  /\ UNCHANGED <<config, cancelFunc, timer, fires, cancelled, pool>>

BlastStep(b) ==
  \/ TimerFires(b) \/ TimerCallback(b)
  \/ ReadTotal(b) \/ ReadConcurrency(b)
  \/ WorkerTake(b) \/ WorkerExit(b)
  \/ Submitted(b)
  \/ BlastEnd(b)

BlasterNext ==
  \/ \E cfg \in Configs : Fire(cfg)
  \/ Stop
  \/ \E b \in Blasts : BlastStep(b)

BlasterSpec == BlasterInit /\ [][BlasterNext]_blasterVars

-----------------------------------------------------------------------------
Live == {b \in Blasts : phase[b] \in {"starting", "queued", "pooled", "running"}}

\* At most one blast keeps sending: every older run has its context cancelled.
\* About "Stop any existing runs/timers" and the status test in the callback,
\* which two pending callbacks may reach after two schedules.
OneLiveRun == \A b \in Live \ cancelled : b = cancelFunc

\* RUNNING is never shown when nothing runs, nor SCHEDULED when no timer will
\* start the blast.  About the end of a run and the timer's callback, the two
\* places that write the status without being asked to.
StatusTruthful ==
  /\ status = "RUNNING" => cancelFunc \in Live \ cancelled
  /\ status = "SCHEDULED" => timer \in Blasts /\ phase[timer] \in {"armed", "fired"}

\* Every run ends, and a blast runs once: stopped, superseded, or out of
\* indices.  About the two ways out of the worker's select.
RunsEnd == <>[](Live = {})
=============================================================================
