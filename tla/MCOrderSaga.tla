----------------------------- MODULE MCOrderSaga ------------------------------
(***************************************************************************)
(* The saga of order_saga, one of those whose books are balanced.          *)
(***************************************************************************)
EXTENDS MCLedger

\* A charged order is picked, then packed and labelled in parallel, then
\* shipped by the Node.js pods.  The shipping fails: both executors have
\* something to undo.
PackedOrder ==
  [charge        |-> Task("java", {}, "refund", "charge_payment", "none"),
   refund        |-> Task("java", {Sentinel}, "none", "refund_payment", "none"),
   pick          |-> Plain("node", {"charge"}),
   pack          |-> Task("node", {"pick"}, "unpack", "unknown", "none"),
   unpack        |-> Plain("node", {Sentinel}),
   label         |-> Plain("node", {"pick"}),
   ship          |-> Task("node", {"pack", "label"}, "none", "unknown", "fail"),
   __SAGA_FAIL__ |-> Plain("java", {"ship"})]

\* The theorems about such sagas speak of this one.
ASSUME PackedOrderBalances == BooksBalance
ASSUME PackedOrderFinishes == Finishes
=============================================================================
