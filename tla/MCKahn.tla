------------------------------- MODULE MCKahn -------------------------------
(***************************************************************************)
(* Every DAG of at most three tasks whose dependency lists have at most    *)
(* two entries: self-loops, doubled dependencies, keys that are no task,   *)
(* chains, joins and three-cycles.                                         *)
(***************************************************************************)
EXTENDS Kahn

Lists == UNION {[1 .. n -> Key] : n \in 0 .. 2}

SmallDags == UNION {[T -> Lists] : T \in SUBSET (Key \ {"x"})}
=============================================================================
