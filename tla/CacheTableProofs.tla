-------------------------- MODULE CacheTableProofs --------------------------
(* The atomic node table keeps its promises for every set of keys, nodes    *)
(* and clients.  The four invariants need each other: a node is free to be  *)
(* rebound because its count is zero, and the count is zero only if nobody  *)
(* holds it.                                                                *)
EXTENDS CacheTable, FiniteSetTheorems, TLAPS

TableInv == TypeOK /\ UniqueKey /\ RefExact /\ Pinned /\ SingleOwner

LEMMA HoldersFinite == \A n : IsFiniteSet(Holders(n))
  BY ClientsAssumption, FS_Subset DEF Holders

(* A node without references has no holder.                                 *)
LEMMA Unreferenced ==
  ASSUME RefExact, NEW n \in Nodes, tab[n].ref = 0
  PROVE  \A c \in Clients : handle[c].node # n
<1>1. Holders(n) = {}
  BY HoldersFinite, FS_EmptySet DEF RefExact
<1>2. QED
  BY <1>1 DEF Holders

(* A handle that a client takes or drops moves one count by one.            *)
LEMMA TakeCounts ==
  ASSUME TypeOK, RefExact, NEW c \in Clients, NEW n \in Nodes, NEW h \in Handle,
         handle[c] = NoHandle, h.node = n,
         handle' = [handle EXCEPT ![c] = h],
         tab' \in [Nodes -> Node], tab'[n].ref = tab[n].ref + 1,
         \A m \in Nodes : m # n => tab'[m].ref = tab[m].ref
  PROVE  RefExact'
<1> SUFFICES ASSUME NEW m \in Nodes PROVE tab'[m].ref = Cardinality(Holders(m)')
  BY DEF RefExact
<1>1. handle \in [Clients -> Handle \cup {NoHandle}]
  BY DEF TypeOK
<1>2. CASE m = n
  <2>1. c \notin Holders(n)
    BY ClientsAssumption DEF Holders, NoHandle
  <2>2. Holders(n)' = Holders(n) \cup {c}
    BY <1>1 DEF Holders
  <2>3. Cardinality(Holders(n)') = Cardinality(Holders(n)) + 1
    BY <2>1, <2>2, HoldersFinite, FS_AddElement
  <2>4. QED
    BY <1>2, <2>3 DEF RefExact
<1>3. CASE m # n
  <2>1. Holders(m)' = Holders(m)
    BY <1>1, <1>3, ClientsAssumption DEF Holders, NoHandle
  <2>2. QED
    BY <1>3, <2>1 DEF RefExact
<1>4. QED
  BY <1>2, <1>3

LEMMA DropCounts ==
  ASSUME TypeOK, RefExact, NEW c \in Clients, DropHandle(c)
  PROVE  RefExact' /\ TypeOK'
<1>0. handle \in [Clients -> Handle \cup {NoHandle}] /\ tab \in [Nodes -> Node]
  BY DEF TypeOK
<1>1. handle[c] \in Handle
  BY <1>0 DEF DropHandle, Holds
<1>a. PICK n \in Nodes : n = handle[c].node
  BY <1>1 DEF Handle
<1>2. c \in Holders(n) /\ Holders(n)' = Holders(n) \ {c}
  BY <1>0, <1>1, <1>a, ClientsAssumption DEF Holders, DropHandle, NoHandle
<1>3. Cardinality(Holders(n)') = Cardinality(Holders(n)) - 1 /\ Cardinality(Holders(n)) \in Nat
      /\ Cardinality(Holders(n)') \in Nat
  BY <1>2, HoldersFinite, FS_RemoveElement, FS_CardinalityType, FS_Subset
<1>4. tab[n].ref = Cardinality(Holders(n))
  BY <1>a DEF RefExact
<1>5. tab'[n].ref = Cardinality(Holders(n)') /\ tab' \in [Nodes -> Node]
  BY <1>0, <1>1, <1>a, <1>3, <1>4 DEF DropHandle, Release, Node
<1>6. ASSUME NEW m \in Nodes, m # n PROVE tab'[m].ref = Cardinality(Holders(m)')
  <2>1. Holders(m)' = Holders(m)
    BY <1>0, <1>1, <1>a, <1>6, ClientsAssumption DEF Holders, DropHandle, NoHandle
  <2>2. QED
    BY <1>0, <1>1, <1>a, <1>6, <2>1 DEF RefExact, DropHandle, Release
<1>7. RefExact'
  BY <1>5, <1>6 DEF RefExact
<1>8. TypeOK'
  BY <1>0, <1>5 DEF TypeOK, DropHandle
<1>9. QED
  BY <1>7, <1>8

(* A hit leaves the table well typed: it raises one count, then sets one    *)
(* state.                                                                   *)
LEMMA RaiseType ==
  ASSUME NEW t \in [Nodes -> Node], NEW n \in Nodes
  PROVE  [t EXCEPT ![n].ref = @ + 1] \in [Nodes -> Node]
  BY DEF Node

LEMMA SetStateType ==
  ASSUME NEW t \in [Nodes -> Node], NEW n \in Nodes, NEW s \in States
  PROVE  [t EXCEPT ![n].st = s] \in [Nodes -> Node]
  BY DEF Node

LEMMA HitInTwo ==
  ASSUME NEW t \in [Nodes -> Node], NEW n \in Nodes, NEW s \in States
  PROVE  [t EXCEPT ![n].ref = @ + 1, ![n].st = s]
           = [[t EXCEPT ![n].ref = @ + 1] EXCEPT ![n].st = s]
  OBVIOUS

LEMMA HitType ==
  ASSUME NEW t \in [Nodes -> Node], NEW n \in Nodes, NEW s \in States
  PROVE  [t EXCEPT ![n].ref = @ + 1, ![n].st = s] \in [Nodes -> Node]
  BY RaiseType, SetStateType, HitInTwo

LEMMA SetKeyType ==
  ASSUME NEW t \in [Nodes -> Node], NEW n \in Nodes, NEW k \in Keys
  PROVE  [t EXCEPT ![n].key = k] \in [Nodes -> Node]
  BY DEF Node

LEMMA ClaimInThree ==
  ASSUME NEW t \in [Nodes -> Node], NEW n \in Nodes, NEW k \in Keys
  PROVE  Claim(t, n, k) = [[[t EXCEPT ![n].ref = @ + 1] EXCEPT ![n].key = k] EXCEPT ![n].st = "LOADING"]
  BY DEF Claim

LEMMA ClaimType ==
  ASSUME NEW t \in [Nodes -> Node], NEW n \in Nodes, NEW k \in Keys
  PROVE  Claim(t, n, k) \in [Nodes -> Node]
<1>1. [t EXCEPT ![n].ref = @ + 1] \in [Nodes -> Node]
  BY RaiseType
<1>2. [[t EXCEPT ![n].ref = @ + 1] EXCEPT ![n].key = k] \in [Nodes -> Node]
  BY <1>1, SetKeyType
<1>3. "LOADING" \in States
  BY DEF States
<1> DEFINE bound == [[t EXCEPT ![n].ref = @ + 1] EXCEPT ![n].key = k]
<1>4. bound \in [Nodes -> Node] /\ Claim(t, n, k) = [bound EXCEPT ![n].st = "LOADING"]
  BY <1>2, ClaimInThree
<1> HIDE DEF bound
<1>5. QED
  BY <1>3, <1>4, SetStateType

LEMMA InitTable == Init => TableInv
<1> SUFFICES ASSUME Init PROVE TableInv
  OBVIOUS
<1>1. TypeOK
  BY DEF Init, TypeOK, FreshNode, Node, States
<1>2. UniqueKey /\ Pinned /\ SingleOwner
  BY DEF Init, UniqueKey, Pinned, SingleOwner, FreshNode, Holds
<1>3. \A n \in Nodes : Holders(n) = {}
  BY ClientsAssumption DEF Init, Holders, NoHandle
<1>4. RefExact
  BY <1>3, FS_EmptySet DEF RefExact, Init, FreshNode
<1>5. QED
  BY <1>1, <1>2, <1>4 DEF TableInv

LEMMA NextTable == TableInv /\ [Next]_vars => TableInv'
<1> SUFFICES ASSUME TableInv, [Next]_vars PROVE TableInv'
  OBVIOUS
<1>0. /\ TypeOK /\ UniqueKey /\ RefExact /\ Pinned /\ SingleOwner
      /\ tab \in [Nodes -> Node] /\ handle \in [Clients -> Handle \cup {NoHandle}]
  BY DEF TableInv, TypeOK
<1>1. CASE UNCHANGED vars
  BY <1>1 DEF vars, TableInv, TypeOK, UniqueKey, RefExact, Pinned, SingleOwner, Holders, Holds
<1>2. ASSUME NEW c \in Clients, NEW k \in Keys, NEW n \in Nodes, NEW reload \in BOOLEAN,
             GetHit(c, k, n, reload)
      PROVE  TableInv'
  <2> DEFINE h == [node |-> n, key |-> k, own |-> IsOwner(tab[n])]
  <2>1. h \in Handle /\ handle[c] = NoHandle /\ handle' = [handle EXCEPT ![c] = h]
    BY <1>2 DEF GetHit, Holds, Handle, IsOwner
  <2>2. tab' \in [Nodes -> Node]
    <3>1. tab[n] \in Node /\ HitState(tab[n], reload) \in States
      BY <1>0 DEF HitState, Node, States
    <3>2. QED
      BY <1>0, <1>2, <3>1, HitType DEF GetHit, Hit
  <2>3. \A m \in Nodes : tab'[m].key = tab[m].key /\ (m # n => tab'[m].ref = tab[m].ref)
    BY <1>0, <1>2 DEF GetHit, Hit
  <2>4. tab'[n].ref = tab[n].ref + 1
    BY <1>0, <1>2 DEF GetHit, Hit, Node
  <2>5. TypeOK' /\ RefExact'
    <3>1. TypeOK'
      BY <1>0, <2>1, <2>2 DEF TypeOK
    <3>2. h.node = n
      OBVIOUS
    <3> HIDE DEF h
    <3>3. QED
      BY <1>0, <2>1, <2>2, <2>3, <2>4, <3>1, <3>2, TakeCounts
  <2>6. UniqueKey'
    BY <1>0, <2>3 DEF UniqueKey
  <2>7. Pinned'
    BY <1>0, <1>2, <2>1, <2>3 DEF Pinned, GetHit, Holds, Handle
  <2>8. SingleOwner'
    <3>1. IsOwner(tab[n]) => \A d \in Clients : handle[d].node # n
      BY <1>0, Unreferenced DEF IsOwner
    <3>2. QED
      BY <1>0, <2>1, <3>1 DEF SingleOwner, Holds, Handle
  <2>9. QED
    BY <2>5, <2>6, <2>7, <2>8 DEF TableInv
<1>3. ASSUME NEW c \in Clients, NEW k \in Keys, NEW n \in Nodes, GetMiss(c, k, n)
      PROVE  TableInv'
  <2> DEFINE h == [node |-> n, key |-> k, own |-> TRUE]
  <2>1. h \in Handle /\ handle[c] = NoHandle /\ handle' = [handle EXCEPT ![c] = h]
    BY <1>3 DEF GetMiss, Holds, Handle
  <2>2. tab' \in [Nodes -> Node]
    BY <1>0, <1>3, ClaimType DEF GetMiss
  <2>3. \A m \in Nodes : m # n => tab'[m] = tab[m]
    BY <1>0, <1>3 DEF GetMiss, Claim
  <2>4. tab'[n].ref = tab[n].ref + 1 /\ tab'[n].key = k
    BY <1>0, <1>3 DEF GetMiss, Claim, Node
  <2>5. \A d \in Clients : handle[d].node # n
    BY <1>0, <1>3, Unreferenced DEF GetMiss
  <2>6. TypeOK' /\ RefExact'
    <3>1. TypeOK'
      BY <1>0, <2>1, <2>2 DEF TypeOK
    <3>2. h.node = n
      OBVIOUS
    <3> HIDE DEF h
    <3>3. QED
      BY <1>0, <2>1, <2>2, <2>3, <2>4, <3>1, <3>2, TakeCounts
  <2>7. UniqueKey'
    BY <1>0, <1>3, <2>3, <2>4 DEF UniqueKey, GetMiss, Absent
  <2>8. Pinned'
    BY <1>0, <2>1, <2>3, <2>4, <2>5 DEF Pinned, Holds, Handle
  <2>9. SingleOwner'
    BY <1>0, <2>1, <2>5 DEF SingleOwner, Holds, Handle
  <2>10. QED
    BY <2>6, <2>7, <2>8, <2>9 DEF TableInv
<1>4. ASSUME NEW n \in Nodes, Evict(n) PROVE TableInv'
  <2>1. /\ tab' \in [Nodes -> Node] /\ handle' = handle
        /\ \A m \in Nodes : tab'[m].ref = tab[m].ref /\ (m # n => tab'[m] = tab[m])
        /\ tab'[n].key = NoKey
    BY <1>0, <1>4 DEF Evict, Node
  <2>2. \A d \in Clients : handle[d].node # n
    BY <1>0, <1>4, Unreferenced DEF Evict
  <2>3. TypeOK' /\ RefExact' /\ SingleOwner'
    BY <1>0, <2>1 DEF TypeOK, RefExact, SingleOwner, Holders, Holds
  <2>4. UniqueKey'
    BY <1>0, <2>1 DEF UniqueKey
  <2>5. Pinned'
    BY <1>0, <2>1, <2>2 DEF Pinned, Holds, Handle
  <2>6. QED
    BY <2>3, <2>4, <2>5 DEF TableInv
<1>5. ASSUME NEW c \in Clients, NEW s \in {"READY", "FAILED"}, OwnerMarks(c, s)
      PROVE  TableInv'
  <2>1. /\ tab' \in [Nodes -> Node] /\ handle' = handle
        /\ \A m \in Nodes : tab'[m].ref = tab[m].ref /\ tab'[m].key = tab[m].key
    BY <1>0, <1>5 DEF OwnerMarks, Mark, Node, States
  <2>2. QED
    BY <1>0, <2>1 DEF TableInv, TypeOK, UniqueKey, RefExact, Pinned, SingleOwner, Holders, Holds,
                      Handle
<1>6. ASSUME NEW c \in Clients, DropHandle(c) PROVE TableInv'
  <2>1. TypeOK' /\ RefExact'
    BY <1>0, <1>6, DropCounts
  <2>2. /\ handle' = [handle EXCEPT ![c] = NoHandle]
        /\ \A m \in Nodes : tab'[m].key = tab[m].key
    BY <1>0, <1>6 DEF DropHandle, Release
  <2>3. UniqueKey' /\ Pinned' /\ SingleOwner'
    BY <1>0, <2>2 DEF UniqueKey, Pinned, SingleOwner, Holds, Handle
  <2>4. QED
    BY <2>1, <2>3 DEF TableInv
<1>7. QED
  BY <1>1, <1>2, <1>3, <1>4, <1>5, <1>6 DEF Next

(* However the calls of Get, Release, MarkReady and MarkFailed interleave,  *)
(* a key has one node, counts are exact, a held node keeps its key and has  *)
(* at most one owner.                                                       *)
THEOREM TableSafe == Spec => [](TypeOK /\ UniqueKey /\ RefExact /\ Pinned /\ SingleOwner)
<1>1. Spec => []TableInv
  BY InitTable, NextTable, PTL DEF Spec
<1>2. QED
  BY <1>1, PTL DEF TableInv
=============================================================================
