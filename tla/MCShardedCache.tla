--------------------------- MODULE MCShardedCache --------------------------
(***************************************************************************)
(* Two shards with a key each and two callers.  An entry lives through the *)
(* clock step in which it is stamped, and the ticker fires at every step:  *)
(* in two steps an entry can expire, be swept, be written again while the  *)
(* sweep is under way and expire again, and a tick can be dropped.         *)
(***************************************************************************)
EXTENDS ShardedCache

MCShardOf == [k \in Keys |-> IF k = "c" THEN 2 ELSE 1]
=============================================================================
