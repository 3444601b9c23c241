----------------------------- MODULE PortForward -----------------------------
(***************************************************************************)
(* port_forward.js: one kubectl child per service, without which a browser *)
(* on the developer's machine reaches nothing.                             *)
(***************************************************************************)
EXTENDS Naturals

CONSTANTS
  targets,    \* services the page under study needs
  MaxOutages  \* bound on children that exit and on Ctrl+C, together

ASSUME PortForwardAssumption == MaxOutages \in Nat

VARIABLES
  forwarding,  \* the script runs
  forwards,    \* its children that live
  outages

forwardVars == <<forwarding, forwards, outages>>

ForwardInit == forwarding = TRUE /\ forwards = targets /\ outages = 0

Outage == outages < MaxOutages /\ outages' = outages + 1

\* The exit of a child is printed; the script goes on without it.
ForwardExits(t) ==
  /\ t \in forwards
  /\ forwards' = forwards \ {t}
  /\ Outage
  /\ UNCHANGED forwarding

shutdown ==
  /\ forwarding
  /\ forwarding' = FALSE
  /\ forwards' = {}
  /\ Outage

\* Run again: the preflight found the cluster.
Forward ==
  /\ ~forwarding
  /\ forwarding' = TRUE
  /\ forwards' = targets
  /\ UNCHANGED outages

ForwardNext == (\E t \in targets : ForwardExits(t)) \/ shutdown \/ Forward
=============================================================================
