------------------------------ MODULE MCConsole ------------------------------
(***************************************************************************)
(* An immediate and a scheduled blast of one request each.                 *)
(***************************************************************************)
EXTENDS Console

NowAndLater ==
  {[total |-> 1, concurrency |-> 1, delay |-> 0],
   [total |-> 1, concurrency |-> 1, delay |-> 1]}
=============================================================================
