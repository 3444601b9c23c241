------------------------------- MODULE MCLedger -------------------------------
(***************************************************************************)
(* Instances of Reddo with its business tables.                            *)
(***************************************************************************)
EXTENDS MCReddo, Ledger

\* An order that may be refused and that is cancelled when the reservation fails.
RefusableOrder ==
  [create        |-> [Task("java", {}, "cancel", "create_order", "none")
                        EXCEPT !.refusable = TRUE],
   cancel        |-> Task("java", {Sentinel}, "none", "cancel_order", "none"),
   reserve       |-> Task("node", {"create"}, "none", "unknown", "fail"),
   __SAGA_FAIL__ |-> Plain("java", {"reserve"})]
=============================================================================
