------------------------------- MODULE Console -------------------------------
(***************************************************************************)
(* The chaos console of the dashboard (App.tsx) and the Blaster it drives, *)
(* through the port forward of the cannon.  The page asks for the status   *)
(* every second and never cancels a request: answers come back late and    *)
(* out of order, those of an address no longer in the box included.  The   *)
(* buttons obey what is shown.                                             *)
(*                                                                         *)
(* At another address than the cannon's nothing answers: a click there has *)
(* no effect and is left out.  Wrong inputs of the form are left out, too. *)
(***************************************************************************)
EXTENDS Blaster, PortForward, FiniteSetsExt

CONSTANTS
  MaxPolls,  \* bound on the polls in flight
  MaxEdits   \* bound on edits of the address, outages before them included

Urls  == {"cannon", "elsewhere"}
Shown == {"IDLE", "SCHEDULED", "RUNNING", "UNKNOWN"}
Polls == {"asked"} \cup Shown  \* of the cannon, or answered

VARIABLES
  cannonURL,  \* in the box
  edits,
  shown,      \* cannonStatus.status
  cannonOk,
  polls,      \* poll -> how many are in flight
  firing,     \* configuration -> requests to fire in flight
  stopping    \* a request to stop is in flight

pollVars    == <<cannonURL, edits, shown, cannonOk, polls>>
clickVars   == <<firing, stopping>>
consoleVars == <<blasterVars, forwardVars, pollVars, clickVars>>

ConsoleInit ==
  /\ BlasterInit
  /\ ForwardInit
  /\ cannonURL = "cannon" /\ edits = 0
  /\ shown = "IDLE" /\ cannonOk = FALSE
  /\ polls = [p \in Polls |-> IF p = "asked" THEN 1 ELSE 0]
  /\ firing = [c \in Configs |-> 0] /\ stopping = FALSE

-----------------------------------------------------------------------------
(* The poll. *)

\* A poll of another address can only fail.
Ask(u) ==
  /\ SumFunction(polls) < MaxPolls
  /\ polls' = [polls EXCEPT ![IF u = "cannon" THEN "asked" ELSE "UNKNOWN"] = @ + 1]

Poll ==
  /\ Ask(cannonURL)
  /\ UNCHANGED <<blasterVars, forwardVars, cannonURL, edits, shown, cannonOk,
                 clickVars>>

\* The effect asks the new address at once; what the old one was asked goes on.
EditURL(u) ==
  /\ u # cannonURL /\ edits + outages < MaxEdits
  /\ cannonURL' = u /\ edits' = edits + 1
  /\ Ask(u)
  /\ UNCHANGED <<blasterVars, forwardVars, shown, cannonOk, clickVars>>

\* handleStatus, or no connection.
StatusSent ==
  LET answer == IF "cannon" \in forwards THEN status ELSE "UNKNOWN"
  IN  /\ polls["asked"] > 0
      /\ polls' = [polls EXCEPT !["asked"] = @ - 1, ![answer] = @ + 1]
      /\ UNCHANGED <<blasterVars, forwardVars, cannonURL, edits, shown, cannonOk,
                     clickVars>>

\* setCannonStatus and setCannonOk, in the continuation or in its catch block.
StatusShownChanged(answer) ==
  /\ polls[answer] > 0
  /\ polls' = [polls EXCEPT ![answer] = @ - 1]
  /\ shown' = answer
  /\ cannonOk' = IF answer = shown THEN cannonOk ELSE answer # "UNKNOWN"
  /\ UNCHANGED <<blasterVars, forwardVars, cannonURL, edits, clickVars>>
StatusShown(answer) ==
  /\ polls[answer] > 0
  /\ polls' = [polls EXCEPT ![answer] = @ - 1]
  /\ shown' = answer
  /\ cannonOk' = (answer # "UNKNOWN")
  /\ UNCHANGED <<blasterVars, forwardVars, cannonURL, edits, clickVars>>

-----------------------------------------------------------------------------
(* The buttons: enabled until another status is shown, so that a second click *)
(* may follow at once.                                                        *)

fire(cfg) ==
  /\ cannonURL = "cannon"
  /\ cannonOk /\ shown # "RUNNING"
  /\ fires + SumFunction(firing) < MaxBlasts
  /\ firing' = [firing EXCEPT ![cfg] = @ + 1]
  /\ UNCHANGED <<blasterVars, forwardVars, pollVars, stopping>>

stop ==
  /\ cannonURL = "cannon"
  /\ shown \in {"RUNNING", "SCHEDULED"}
  /\ ~stopping /\ stopping' = TRUE
  /\ UNCHANGED <<blasterVars, forwardVars, pollVars, firing>>

\* handleFire and handleStop, unless the forward is gone.
FireArrives(cfg) ==
  /\ firing[cfg] > 0
  /\ firing' = [firing EXCEPT ![cfg] = @ - 1]
  /\ IF "cannon" \in forwards THEN Fire(cfg) ELSE UNCHANGED blasterVars
  /\ UNCHANGED <<forwardVars, pollVars, stopping>>

StopArrives ==
  /\ stopping /\ stopping' = FALSE
  /\ IF "cannon" \in forwards THEN Stop ELSE UNCHANGED blasterVars
  /\ UNCHANGED <<forwardVars, pollVars, firing>>

-----------------------------------------------------------------------------
Cannon(b) == BlastStep(b) /\ UNCHANGED <<forwardVars, pollVars, clickVars>>

ConsoleNext ==
  \/ \E b \in Blasts : Cannon(b)
  \/ ForwardNext /\ UNCHANGED <<blasterVars, pollVars, clickVars>>
  \/ Poll \/ StatusSent
  \/ \E u \in Urls : EditURL(u)
  \/ \E answer \in Shown : StatusShown(answer)
  \/ \E cfg \in Configs : fire(cfg) \/ FireArrives(cfg)
  \/ stop \/ StopArrives

ConsoleSpec == ConsoleInit /\ [][ConsoleNext]_consoleVars

\* Timers, goroutines and requests come to their end and the interval ticks;
\* nobody has to click, to edit or to start a script.
ConsoleFairSpec ==
  /\ ConsoleSpec
  /\ \A b \in Blasts : WF_consoleVars(Cannon(b))
  /\ WF_consoleVars(Poll)
  /\ WF_consoleVars(StatusSent)
  /\ \A answer \in Shown : WF_consoleVars(StatusShown(answer))
  /\ WF_consoleVars(StopArrives \/ \E cfg \in Configs : FireArrives(cfg))

-----------------------------------------------------------------------------
\* Whatever was polled, clicked and answered in which order, the panel ends up
\* showing what the cannon says once the cannon stays in reach.  About polls
\* that nobody cancels and the interval of the effect.
PanelConverges ==
  <>[](cannonURL = "cannon" /\ "cannon" \in forwards)
    => <>[](cannonOk /\ shown = status)
=============================================================================
