---------------------------- MODULE BlasterProofs ----------------------------
(***************************************************************************)
(* The Blaster's safety properties, for any number of requests to fire and *)
(* any configurations.  The invariant adds what the two properties rest    *)
(* on: a blast is not cancelled before it runs, and while one is scheduled *)
(* no other can be cancelled.  The console adds nothing to what may be     *)
(* asked of a Blaster, so all of it holds behind the console.              *)
(***************************************************************************)
EXTENDS Console, TLAPS

ControlTypeOK ==
  /\ status \in {"IDLE", "SCHEDULED", "RUNNING"}
  /\ cancelFunc \in Blasts \cup {None}
  /\ timer \in Blasts \cup {None}
  /\ fires \in 0 .. MaxBlasts
  /\ phase \in [Blasts -> Phases]
  /\ cancelled \in SUBSET Blasts

\* What a blast that does not run yet cannot have met.
Waiting ==
  \A b \in Blasts :
    /\ b > fires => phase[b] = "unused"
    /\ phase[b] \in {"unused", "armed", "fired"} =>
         b \notin cancelled /\ b # cancelFunc

NothingToCancel == status = "SCHEDULED" => cancelFunc = None

BlasterIInv ==
  ControlTypeOK /\ Waiting /\ NothingToCancel /\ OneLiveRun /\ StatusTruthful

LEMMA BlasterInitial == BlasterInit => BlasterIInv
BY BlasterAssumption
   DEF BlasterInit, BlasterIInv, ControlTypeOK, Waiting, NothingToCancel,
       OneLiveRun, StatusTruthful, Live, Blasts, None, Phases

LEMMA FireKeeps ==
  ASSUME BlasterIInv, NEW cfg \in Configs, Fire(cfg)
  PROVE  BlasterIInv'
<1>. DEFINE b == fires + 1
<1>0. /\ b \in Blasts /\ fires \in Nat /\ phase[b] = "unused"
      /\ b \notin cancelled /\ b # cancelFunc /\ b # None
  BY BlasterAssumption DEF BlasterIInv, ControlTypeOK, Waiting, Fire, Blasts, None
<1>1. /\ fires' = b /\ cancelled' = Cancel
      /\ \A x \in Blasts \ {b} : phase'[x] = StopTimer[x]
      /\ phase' \in [Blasts -> Phases]
  BY <1>0 DEF Fire, BlasterIInv, ControlTypeOK, StopTimer, Phases
<1>2. \A x \in Live \ cancelled : x \in Cancel
  BY DEF BlasterIInv, OneLiveRun, Cancel, None, Live, Blasts
<1>3. b \notin Cancel /\ Cancel \subseteq Blasts
  BY <1>0 DEF BlasterIInv, ControlTypeOK, Cancel, None
<1>4. \A x \in Blasts \ {b} :
        /\ phase'[x] \in {"unused", "armed", "fired"} =>
             phase[x] \in {"unused", "armed", "fired"}
        /\ phase'[x] \in {"starting", "queued", "pooled", "running"} =>
             phase'[x] = phase[x]
        /\ phase[x] = "unused" => phase'[x] = "unused"
  BY <1>1 DEF StopTimer
<1>5. \A x \in Blasts \ {b} :
        phase'[x] \in {"unused", "armed", "fired"} => x \notin Cancel
  BY <1>4 DEF BlasterIInv, Waiting, Cancel
<1>6. \A x \in Blasts \ {b} : x > b => phase'[x] = "unused"
  BY <1>0, <1>4 DEF BlasterIInv, Waiting, Blasts
<1>7. \A x \in Blasts \ {b} :
        phase'[x] \in {"starting", "queued", "pooled", "running"} => x \in Cancel
  BY <1>2, <1>4 DEF Live, Cancel
<1>8. fires' \in 0 .. MaxBlasts
  BY <1>0, <1>1 DEF Blasts
<1>9. CASE cfg.delay > 0
  <2>1. /\ status' = "SCHEDULED" /\ timer' = b /\ cancelFunc' = None
        /\ phase'[b] = "armed"
    BY <1>0, <1>9 DEF Fire, StopTimer
  <2>2. ControlTypeOK'
    BY <1>0, <1>1, <1>3, <1>8, <2>1 DEF ControlTypeOK, Blasts, None
  <2>3. Waiting'
    BY <1>0, <1>1, <1>3, <1>5, <1>6, <2>1 DEF Waiting, Blasts, None
  <2>4. OneLiveRun'
    BY <1>1, <1>7, <2>1 DEF OneLiveRun, Live, Blasts
  <2>5. StatusTruthful' /\ NothingToCancel'
    BY <1>0, <2>1 DEF StatusTruthful, NothingToCancel, Blasts
  <2>. QED BY <2>2, <2>3, <2>4, <2>5 DEF BlasterIInv
<1>10. CASE ~(cfg.delay > 0)
  <2>1. /\ status' = "RUNNING" /\ timer' = None /\ cancelFunc' = b
        /\ phase'[b] = "starting"
    BY <1>0, <1>10 DEF Fire, StopTimer
  <2>2. ControlTypeOK'
    BY <1>0, <1>1, <1>3, <1>8, <2>1 DEF ControlTypeOK, Blasts, None
  <2>3. Waiting'
    BY <1>0, <1>1, <1>3, <1>5, <1>6, <2>1 DEF Waiting, Blasts
  <2>4. OneLiveRun'
    BY <1>1, <1>7, <2>1 DEF OneLiveRun, Live, Blasts
  <2>5. StatusTruthful' /\ NothingToCancel'
    BY <1>0, <1>1, <1>3, <2>1 DEF StatusTruthful, NothingToCancel, Live, Blasts
  <2>. QED BY <2>2, <2>3, <2>4, <2>5 DEF BlasterIInv
<1>. QED BY <1>9, <1>10

LEMMA StopKeeps ==
  ASSUME BlasterIInv, Stop
  PROVE  BlasterIInv'
<1>1. ControlTypeOK'
  BY DEF BlasterIInv, ControlTypeOK, Stop, Cancel, StopTimer, None, Phases
<1>2. Waiting'
  BY DEF BlasterIInv, ControlTypeOK, Waiting, Stop, Cancel, StopTimer, None, Blasts
<1>3. OneLiveRun'
  BY DEF BlasterIInv, ControlTypeOK, OneLiveRun, Live, Stop, Cancel, StopTimer,
         None, Blasts
<1>4. StatusTruthful' /\ NothingToCancel'
  BY DEF Stop, StatusTruthful, NothingToCancel
<1>. QED BY <1>1, <1>2, <1>3, <1>4 DEF BlasterIInv

LEMMA BlastKeeps ==
  ASSUME BlasterIInv, NEW b \in Blasts, BlastStep(b)
  PROVE  BlasterIInv'
<1>. USE DEF BlasterIInv, ControlTypeOK, Waiting, NothingToCancel, OneLiveRun,
             StatusTruthful, Live, control, Phases
<1>0. b # None
  BY DEF Blasts, None
<1>1. CASE TimerFires(b)
  BY <1>1 DEF TimerFires
<1>2. CASE TimerCallback(b)
  <2>1. CASE status = "SCHEDULED"
    <3>1. /\ status' = "RUNNING" /\ cancelFunc' = b /\ phase[b] = "fired"
          /\ phase' = [phase EXCEPT ![b] = "starting"]
          /\ UNCHANGED <<timer, fires, cancelled>>
      BY <1>2, <2>1 DEF TimerCallback
    <3>2. b \notin cancelled /\ b <= fires /\ fires \in Nat
      BY <3>1, BlasterAssumption DEF Blasts
    <3>3. \A x \in Blasts : x > fires => x # b
      BY <3>2 DEF Blasts
    <3>4. \A x \in Blasts \ cancelled :
            phase[x] \notin {"starting", "queued", "pooled", "running"}
      BY <2>1 DEF Blasts, None
    <3>5. ControlTypeOK' /\ NothingToCancel' /\ StatusTruthful'
      BY <3>1, <3>2
    <3>6. Waiting'
      BY <3>1, <3>2, <3>3
    <3>7. OneLiveRun'
      BY <3>1, <3>4
    <3>. QED BY <3>5, <3>6, <3>7
  <2>2. CASE status # "SCHEDULED"
    BY <1>2, <2>2 DEF TimerCallback
  <2>. QED BY <2>1, <2>2
<1>3. CASE ReadTotal(b)
  BY <1>3 DEF ReadTotal
<1>4. CASE ReadConcurrency(b)
  BY <1>4 DEF ReadConcurrency
<1>5. CASE WorkerTake(b) \/ WorkerExit(b) \/ Submitted(b)
  BY <1>5 DEF WorkerTake, WorkerExit, Submitted
<1>6. CASE BlastEnd(b)
  BY <1>6 DEF BlastEnd
<1>. QED BY <1>1, <1>2, <1>3, <1>4, <1>5, <1>6 DEF BlastStep

LEMMA BlasterInductive == BlasterIInv /\ [BlasterNext]_blasterVars => BlasterIInv'
<1>. SUFFICES ASSUME BlasterIInv, [BlasterNext]_blasterVars PROVE BlasterIInv'
  OBVIOUS
<1>1. CASE UNCHANGED blasterVars
  BY <1>1 DEF blasterVars, control, BlasterIInv, ControlTypeOK, Waiting,
     NothingToCancel, OneLiveRun, StatusTruthful, Live
<1>. QED BY <1>1, FireKeeps, StopKeeps, BlastKeeps DEF BlasterNext

\* However many blasts are fired, scheduled and stopped, and wherever their
\* timers are meanwhile, at most one keeps sending.
THEOREM OneBlast == BlasterSpec => []OneLiveRun
<1>1. BlasterIInv => OneLiveRun
  BY DEF BlasterIInv
<1>. QED BY <1>1, BlasterInitial, BlasterInductive, PTL DEF BlasterSpec

\* RUNNING and SCHEDULED are never shown of nothing.
THEOREM StatusIsTrue == BlasterSpec => []StatusTruthful
<1>1. BlasterIInv => StatusTruthful
  BY DEF BlasterIInv
<1>. QED BY <1>1, BlasterInitial, BlasterInductive, PTL DEF BlasterSpec

\* Every step of the console is one of the Blaster's or leaves it alone.  About
\* the only two ways from the page to the cannon, handleFire and handleStop.
THEOREM ConsoleDrivesBlaster == ConsoleSpec => BlasterSpec
<1>1. ConsoleInit => BlasterInit
  BY DEF ConsoleInit
<1>2. ASSUME [ConsoleNext]_consoleVars PROVE [BlasterNext]_blasterVars
  <2>1. CASE \E b \in Blasts : Cannon(b)
    BY <2>1 DEF Cannon, BlasterNext
  <2>2. CASE \E cfg \in Configs : FireArrives(cfg)
    BY <2>2 DEF FireArrives, BlasterNext
  <2>3. CASE StopArrives
    BY <2>3 DEF StopArrives, BlasterNext
  <2>4. CASE ForwardNext /\ UNCHANGED <<blasterVars, pollVars, clickVars>>
    BY <2>4
  <2>5. CASE Poll \/ StatusSent \/ \E u \in Urls : EditURL(u)
    BY <2>5 DEF Poll, StatusSent, EditURL
  <2>6. CASE stop \/ \E answer \in Shown : StatusShown(answer)
    BY <2>6 DEF stop, StatusShown
  <2>7. CASE \E cfg \in Configs : fire(cfg)
    BY <2>7 DEF fire
  <2>8. CASE UNCHANGED consoleVars
    BY <2>8 DEF consoleVars
  <2>. QED
    BY <1>2, <2>1, <2>2, <2>3, <2>4, <2>5, <2>6, <2>7, <2>8 DEF ConsoleNext
<1>. QED BY <1>1, <1>2, PTL DEF ConsoleSpec, BlasterSpec

\* However fast the buttons are clicked and however late the requests arrive.
THEOREM OneBlastBehindConsole == ConsoleSpec => []OneLiveRun
BY OneBlast, ConsoleDrivesBlaster
=============================================================================
