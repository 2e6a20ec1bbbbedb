------------------------- MODULE MCStorageProcessor -------------------------
(* StorageProcessor on small instances; the bounds are in the .cfg files. *)
EXTENDS StorageProcessor, TLC

TopicSymmetry == Permutations(Topics)
=============================================================================
