--------------------------- MODULE MCCacheLookup ---------------------------
(***************************************************************************)
(* Lookups of three blocks of one shard, of two with faults, and of one    *)
(* block of three shards with and without faults.                          *)
(***************************************************************************)
EXTENDS CacheLookup

SmallLayouts == {[num |-> 3, shards |-> 1, faults |-> {FALSE}],
                 [num |-> 2, shards |-> 1, faults |-> {TRUE}],
                 [num |-> 1, shards |-> 3, faults |-> BOOLEAN]}
=============================================================================
