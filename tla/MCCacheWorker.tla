--------------------------- MODULE MCCacheWorker ---------------------------
(* CacheWorker on small instances; the bounds are in the .cfg files. *)
EXTENDS CacheWorker, TLC

PartitionSymmetry == Permutations(Partitions)
=============================================================================
