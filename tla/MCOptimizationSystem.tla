------------------------ MODULE MCOptimizationSystem ------------------------
(***************************************************************************)
(* Two workloads and two workers.  The keys of the workloads fall on two   *)
(* partitions, so that both workers are busy, or on one, so that offsets   *)
(* of different tasks are committed in one log.                            *)
(***************************************************************************)
EXTENDS OptimizationSystem

CONSTANTS t1, t2

MCPartitions == {1, 2}
MCPartitionOf(t) == IF t = t1 THEN 1 ELSE 2
MCOnePartition == {1}
MCSamePartition(t) == 1
MCEarlierResults == <<[run |-> "earlier", task |-> t1, accepted |-> TRUE]>>
=============================================================================
