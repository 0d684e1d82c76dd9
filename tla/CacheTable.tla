----------------------------- MODULE CacheTable -----------------------------
(***************************************************************************)
(* What TransBuffer promises its callers, with every operation atomic: a   *)
(* table that maps a key to at most one node, elects one owner per         *)
(* unreferenced node and never rebinds a node somebody references.  The    *)
(* lock-level model TransBuffer implements it; CacheStore is built on it.  *)
(***************************************************************************)
EXTENDS TableClients

VARIABLES tab,     \* the node metadata
          handle   \* the Handle each client holds: its node, key and owner flag

vars == <<tab, handle>>

NoHandle == [node |-> NoKey, key |-> NoKey, own |-> FALSE]

Init == /\ tab = [n \in Nodes |-> FreshNode]
        /\ handle = [c \in Clients |-> NoHandle]

Holds(c) == handle[c] # NoHandle

GetHit(c, k, n, reload) ==
  /\ ~Holds(c)
  /\ tab[n].key = k
  /\ tab' = Hit(tab, n, reload)
  /\ handle' = [handle EXCEPT ![c] = [node |-> n, key |-> k, own |-> IsOwner(tab[n])]]

Absent(k) == \A m \in Nodes : tab[m].key # k

(* Alloc takes a node nobody references, only for a key that has no node.   *)
GetMiss(c, k, n) ==
  /\ ~Holds(c)
  /\ Absent(k)
  /\ tab[n].ref = 0
  /\ tab' = Claim(tab, n, k)
  /\ handle' = [handle EXCEPT ![c] = [node |-> n, key |-> k, own |-> TRUE]]

(* The first half of a rebinding: the node leaves the chain of its old key. *)
Evict(n) ==
  /\ tab[n].ref = 0 /\ tab[n].key # NoKey
  /\ tab' = [tab EXCEPT ![n].key = NoKey]
  /\ UNCHANGED handle

(* Only the owner loads the node, so only the owner settles its state.      *)
OwnerMarks(c, s) ==
  /\ Holds(c) /\ handle[c].own
  /\ tab' = Mark(tab, handle[c].node, s)
  /\ UNCHANGED handle

DropHandle(c) ==
  /\ Holds(c)
  /\ tab' = Release(tab, handle[c].node)
  /\ handle' = [handle EXCEPT ![c] = NoHandle]

Next ==
  \/ \E c \in Clients :
       \/ \E k \in Keys, n \in Nodes :
            GetMiss(c, k, n) \/ \E reload \in BOOLEAN : GetHit(c, k, n, reload)
       \/ \E s \in {"READY", "FAILED"} : OwnerMarks(c, s)
       \/ DropHandle(c)
  \/ \E n \in Nodes : Evict(n)

Spec == Init /\ [][Next]_vars

----------------------------------------------------------------------------
Node == [key : Keys \cup {NoKey}, ref : Nat, st : States]
Handle == [node : Nodes, key : Keys, own : BOOLEAN]

TypeOK == /\ tab \in [Nodes -> Node]
          /\ handle \in [Clients -> Handle \cup {NoHandle}]

Holders(n) == {c \in Clients : handle[c].node = n}

(* A key has at most one node, so a block is cached once however many       *)
(* threads and processes ask for it at the same time.                       *)
UniqueKey == \A m, n \in Nodes : (tab[m].key = tab[n].key /\ tab[m].key # NoKey) => m = n

(* A node's reference count is the number of live handles on it.            *)
RefExact == \A n \in Nodes : tab[n].ref = Cardinality(Holders(n))

(* A node somebody holds stays bound to the key it was asked for: Alloc     *)
(* never takes a buffer that a transfer still reads or writes.              *)
Pinned == \A c \in Clients : Holds(c) => tab[handle[c].node].key = handle[c].key

(* At most one live handle per node is the owner, so at most one backend    *)
(* load writes a node.                                                      *)
SingleOwner ==
  \A c, d \in Clients :
     (Holds(c) /\ Holds(d) /\ handle[c].own /\ handle[d].own
        /\ handle[c].node = handle[d].node) => c = d
=============================================================================
