----------------------------- MODULE NodeTable -----------------------------
(***************************************************************************)
(* The metadata of the cache buffer's nodes and the updates made to one    *)
(* node under its lock (BufferMetaNode and the node-locked sections of     *)
(* TransBuffer, ucm/store/cache/cc/trans_buffer.cc).  A key stands for a   *)
(* (block, shard) pair.  Every operator maps a table to a table, so the    *)
(* lock-level model, the atomic model and the queues share them.           *)
(***************************************************************************)
EXTENDS Naturals

CONSTANTS Keys,   \* (block, shard) pairs
          Nodes,  \* node indices
          NoKey   \* a node that was never bound

ASSUME NoKeyAssumption == NoKey \notin Keys

States == {"LOADING", "READY", "FAILED"}

(* BufferMetaNode::Init *)
FreshNode == [key |-> NoKey, ref |-> 0, st |-> "LOADING"]

(* The state a node enters when Get finds it: the first reference retries a *)
(* failed load, and reload (bypassHitOnLoad_ on a load) also discards a     *)
(* READY copy.                                                              *)
HitState(m, reload) ==
  IF m.ref = 0 /\ (m.st = "FAILED" \/ (reload /\ m.st = "READY")) THEN "LOADING" ELSE m.st

(* FindAt on a match: Owner is decided by the count before it is raised.    *)
IsOwner(m) == m.ref = 0
Hit(tab, n, reload) ==
  [tab EXCEPT ![n].ref = @ + 1, ![n].st = HitState(tab[n], reload)]

(* The tail of Alloc: an unreferenced node is bound to key k.               *)
Claim(tab, n, k) ==
  [tab EXCEPT ![n].ref = @ + 1, ![n].key = k, ![n].st = "LOADING"]

(* Release *)
Release(tab, n) == [tab EXCEPT ![n].ref = @ - 1]

(* MarkReady, MarkFailed: only a LOADING node changes.                      *)
Mark(tab, n, s) == [tab EXCEPT ![n].st = IF @ = "LOADING" THEN s ELSE @]
=============================================================================
