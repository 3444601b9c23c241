------------------------------ MODULE MCCluster ------------------------------
(***************************************************************************)
(* Instances of Cluster: the command lines of manage_infra.js.             *)
(***************************************************************************)
EXTENDS Cluster

Line(action, group) == [action |-> action, group |-> group]

Lines == {Line("start", "all"), Line("stop", "all"), Line("stop", "infra"),
          Line("stop", "app"), Line("restart", "all")}
=============================================================================
