--------------------------- MODULE MCInMemoryBus ---------------------------
(***************************************************************************)
(* Two consumers that share a group, and a third one in a group of its     *)
(* own; two keys on two partitions.                                        *)
(***************************************************************************)
EXTENDS InMemoryBus

MCConsumers == {"worker1", "worker2", "audit"}
MCGroups == {"workers", "auditors"}
MCGroupOf == [c \in MCConsumers |-> IF c = "audit" THEN "auditors" ELSE "workers"]
MCKeys == {"orders", "mail"}
MCPartitionOf == [k \in MCKeys |-> IF k = "mail" THEN 1 ELSE 0]
============================================================================
