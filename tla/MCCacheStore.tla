---------------------------- MODULE MCCacheStore ----------------------------
(* Task sets for CacheStore.  One task of each kind per process; the keys   *)
(* overlap, so processes meet on the same nodes.                            *)
EXTENDS CacheStore, TLC

CONSTANTS p1, p2, k1, k2, k3, l1, l2, l3, d1, d2

ProcOfDef == [t \in Tasks |-> IF t \in {l1, l3, d1} THEN p1 ELSE p2]

(* What each task asks for; a task that is not named is not submitted.      *)
Scenario(given, nodes, faults) ==
  [keys |-> [t \in Tasks |-> IF t \in DOMAIN given THEN given[t] ELSE <<>>],
   nodes |-> nodes, faults |-> faults]

(* Two loads ask for two shards in opposite orders while a third key is     *)
(* dumped; two loads and two dumps that share keys; all compete for nodes.  *)
NoFaults == {Scenario(l1 :> <<k1, k2>> @@ l2 :> <<k2, k1>> @@ d1 :> <<k3>>, {1, 2}, {}),
             Scenario(l1 :> <<k1>> @@ l2 :> <<k1>> @@ d1 :> <<k2>> @@ d2 :> <<k2>>, {1}, {}),
             Scenario(l1 :> <<k2>> @@ d1 :> <<k1, k2>> @@ d2 :> <<k3>>, {1, 2}, {})}

(* Tasks of one shard meet on a node while the backend fails; a load and a  *)
(* dump of two shards meet while copies fail and waits time out too.        *)
WithFaults ==
  {Scenario(l1 :> <<k1>> @@ l2 :> <<k1>> @@ d2 :> <<k3>>, {1}, {"backend", "submit"}),
   Scenario(l1 :> <<k3>> @@ l2 :> <<k3>> @@ d2 :> <<k3>>, {1}, {"backend", "submit"}),
   Scenario(l1 :> <<k1, k2>> @@ d2 :> <<k2, k1>>, {1, 2}, {"backend", "device", "timeout"})}

Meetings == NoFaults \cup WithFaults

(* A load of two shards and a later one of the same process.                *)
LoadAfterLoad == {Scenario(l1 :> <<k1, k2>> @@ l3 :> <<k3>>, {1, 2}, {"backend"})}
PairAfterPair == {Scenario(l1 :> <<k1, k2>> @@ l3 :> <<k3, k2>>, {1, 2}, {"timeout"})}
=============================================================================
