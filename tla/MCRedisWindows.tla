--------------------------- MODULE MCRedisWindows ---------------------------
(* RedisWindows on small instances; the bounds are in the .cfg files. *)
EXTENDS RedisWindows, TLC

FieldSymmetry == Permutations(Fields)
=============================================================================
