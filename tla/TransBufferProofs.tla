------------------------- MODULE TransBufferProofs -------------------------
(***************************************************************************)
(* The lock-level table implements the atomic one for every number of      *)
(* nodes, keys, buckets and clients.                                       *)
(*                                                                         *)
(* The chains are described by an order of the nodes: within a bucket no   *)
(* two nodes have the same rank, next is the node of the next lower rank,  *)
(* prev the one of the next higher rank and the head has the highest.      *)
(* Unlinking keeps the ranks of the others, linking gives the node the     *)
(* highest.  A walk has passed exactly the nodes above the one it is at,   *)
(* so a walk that ends has seen its whole bucket.  The same facts show     *)
(* that the locks cannot deadlock.                                         *)
(***************************************************************************)
EXTENDS TransBuffer, Integers, TLAPS

MetaNode == [key : Keys \cup {NoKey}, ref : Int, st : States, hash : Buckets \cup {Nil},
             prev : Nodes \cup {Nil}, next : Nodes \cup {Nil}]

Owning  == {"tryOld", "unlinkPrev", "unlinkNext", "link", "bind"}
Missed  == {"fetch", "fetchStore", "claim"} \cup Owning
Working == {"walk"} \cup Missed
Local   == [pc : Working \cup {"idle", "held"}, op : {"load", "dump", "exist"},
            key : Keys \cup {NoKey}, at : Nodes \cup {Nil}, own : BOOLEAN]

TypeOK ==
  /\ meta \in [Nodes -> MetaNode]
  /\ first \in [Buckets -> Nodes \cup {Nil}]
  /\ freeHead \in 0 .. NNode
  /\ bucketLock \in [Buckets -> Clients \cup {Nil}]
  /\ nodeLock \in [Nodes -> Clients \cup {Nil}]
  /\ cl \in [Clients -> Local]

(* What a client relies on: the locks of its section are its own, and what  *)
(* it has read under them still holds.                                      *)
OwnsBucket(c) == cl[c].pc \in Working => cl[c].key \in Keys /\ bucketLock[Bucket(c)] = c
HasCandidate(c) ==
  /\ cl[c].pc \in (Missed \ {"fetch"}) \cup {"held"} => cl[c].at \in Nodes
  /\ cl[c].pc \in Missed \ {"fetch"} /\ cl[c].op # "load" => cl[c].at < NNode - Reserved
  /\ cl[c].pc = "held" => cl[c].key \in Keys
OwnsNode(c) ==
  /\ cl[c].pc \in Owning => nodeLock[cl[c].at] = c /\ meta[cl[c].at].ref = 0
  /\ \A n \in Nodes : nodeLock[n] = c => cl[c].pc \in Owning /\ cl[c].at = n
OwnsOld(c) ==
  /\ cl[c].pc \in {"tryOld", "unlinkPrev", "unlinkNext"} =>
       /\ OldBucket(c) \in Buckets /\ OldBucket(c) # Bucket(c)
       /\ meta[cl[c].at].key \in Keys /\ Hash[meta[cl[c].at].key] = OldBucket(c)
  /\ cl[c].pc \in {"unlinkPrev", "unlinkNext"} => bucketLock[OldBucket(c)] = c
Linking(c) ==
  /\ cl[c].pc = "link" => /\ meta[cl[c].at].hash = Nil /\ meta[cl[c].at].prev = Nil
                          /\ meta[cl[c].at].key = NoKey \/ Hash[meta[cl[c].at].key] # Bucket(c)
  /\ cl[c].pc = "bind" => meta[cl[c].at].hash = Bucket(c)
KeyAbsent(c) ==
  cl[c].pc \in Missed => \A m \in Nodes : meta[m].hash = Bucket(c) => meta[m].key # cl[c].key

ClientOK(c) == /\ OwnsBucket(c) /\ HasCandidate(c) /\ OwnsNode(c)
               /\ OwnsOld(c) /\ Linking(c) /\ KeyAbsent(c)
ClientInv == \A c \in Clients : ClientOK(c)

(* A node is in the bucket of its key, unless somebody rebinds it.          *)
KeyInv ==
  \A m \in Nodes : nodeLock[m] = Nil =>
    /\ meta[m].hash # Nil => meta[m].key \in Keys /\ Hash[meta[m].key] = meta[m].hash
    /\ meta[m].hash = Nil => meta[m].key = NoKey /\ meta[m].prev = Nil

(* The order of the chains.  A node that its predecessor already skips is   *)
(* nobody's successor, but it still has a place.                            *)
Skipped(n) == \E c \in Clients : cl[c].pc = "unlinkNext" /\ cl[c].at = n
Linked(n) == meta[n].hash # Nil
Mates(n, m) == meta[m].hash = meta[n].hash

Distinct(rank) ==
  \A n, m \in Nodes : Linked(n) /\ Mates(n, m) /\ rank[n] = rank[m] => n = m
Heads(rank) ==
  \A b \in Buckets :
    /\ first[b] # Nil => meta[first[b]].hash = b
    /\ \A m \in Nodes : meta[m].hash = b => first[b] # Nil /\ rank[m] <= rank[first[b]]
NextIsLower(rank) ==
  \A n \in Nodes : Linked(n) =>
    /\ meta[n].next # Nil => /\ Mates(n, meta[n].next) /\ ~Skipped(meta[n].next)
                             /\ rank[meta[n].next] < rank[n]
    /\ \A m \in Nodes : Mates(n, m) /\ ~Skipped(m) /\ rank[m] < rank[n] =>
         meta[n].next # Nil /\ rank[m] <= rank[meta[n].next]
PrevIsHigher(rank) ==
  \A n \in Nodes : Linked(n) =>
    /\ meta[n].prev # Nil => Mates(n, meta[n].prev) /\ rank[n] < rank[meta[n].prev]
    /\ \A m \in Nodes : Mates(n, m) /\ rank[n] < rank[m] =>
         meta[n].prev # Nil /\ rank[meta[n].prev] <= rank[m]

(* A walk is in its own bucket and has passed no node of its key.           *)
WalkOK(c, rank) ==
  cl[c].pc = "walk" =>
    /\ cl[c].at # Nil => meta[cl[c].at].hash = Bucket(c)
    /\ \A m \in Nodes : meta[m].hash = Bucket(c) /\ meta[m].key = cl[c].key =>
         cl[c].at # Nil /\ rank[m] <= rank[cl[c].at]
Walks(rank) == \A c \in Clients : WalkOK(c, rank)

Ordered(rank) == Distinct(rank) /\ Heads(rank) /\ NextIsLower(rank) /\ PrevIsHigher(rank)

ChainInv == \E rank \in [Nodes -> Int] : Ordered(rank) /\ Walks(rank)

Inv == TypeOK /\ ClientInv /\ KeyInv /\ ChainInv

----------------------------------------------------------------------------
(* What most steps have in common.                                          *)

OnlyMoves(c) == \A d \in Clients : d # c => cl'[d] = cl[d]
KeepsLocks(c) ==
  /\ \A b \in Buckets, d \in Clients : d # c /\ bucketLock[b] = d => bucketLock'[b] = d
  /\ \A n \in Nodes, d \in Clients : d # c /\ nodeLock'[n] = d => nodeLock[n] = d
  /\ \A n \in Nodes, d \in Clients : d # c /\ nodeLock[n] = d =>
       /\ nodeLock'[n] = d
       /\ meta'[n].key = meta[n].key /\ meta'[n].ref = meta[n].ref
       /\ meta'[n].hash = meta[n].hash /\ meta'[n].prev = meta[n].prev
(* Nothing enters a bucket that another client has locked.                  *)
KeepsBuckets(c) ==
  \A b \in Buckets, m \in Nodes, d \in Clients : d # c /\ bucketLock[b] = d /\ meta'[m].hash = b =>
    meta[m].hash = b /\ meta'[m].key = meta[m].key
KeepsLinks ==
  /\ first' = first
  /\ \A n \in Nodes : /\ meta'[n].hash = meta[n].hash /\ meta'[n].next = meta[n].next
                      /\ meta'[n].prev = meta[n].prev

LEMMA Constants == /\ \A k \in Keys : Hash[k] \in Buckets
                   /\ NoKey \notin Keys /\ Nil \notin Nodes /\ Nil \notin Buckets /\ Nil \notin Clients
                   /\ NNode \in Nat /\ Reserved \in Nat /\ 0 < NNode - Reserved
                   /\ \A n \in Nodes : n \in Nat /\ n < NNode
  BY TableAssumption, NoKeyAssumption

(* Updates of one node, field by field.                                     *)
LEMMA PrevSet ==
  ASSUME NEW M \in [Nodes -> MetaNode], NEW y \in Nodes, NEW q \in Nodes \cup {Nil}
  PROVE  /\ [M EXCEPT ![y].prev = q] \in [Nodes -> MetaNode]
         /\ \A m \in Nodes : LET w == [M EXCEPT ![y].prev = q][m]
                            IN  /\ w.key = M[m].key /\ w.ref = M[m].ref /\ w.st = M[m].st
                                /\ w.hash = M[m].hash /\ w.next = M[m].next
                                /\ w.prev = IF m = y THEN q ELSE M[m].prev
  BY DEF MetaNode

LEMMA NextSet ==
  ASSUME NEW M \in [Nodes -> MetaNode], NEW y \in Nodes, NEW q \in Nodes \cup {Nil}
  PROVE  /\ [M EXCEPT ![y].next = q] \in [Nodes -> MetaNode]
         /\ \A m \in Nodes : LET w == [M EXCEPT ![y].next = q][m]
                            IN  /\ w.key = M[m].key /\ w.ref = M[m].ref /\ w.st = M[m].st
                                /\ w.hash = M[m].hash /\ w.prev = M[m].prev
                                /\ w.next = IF m = y THEN q ELSE M[m].next
  BY DEF MetaNode

Cleared(M, y) == [M EXCEPT ![y].prev = Nil, ![y].next = Nil, ![y].hash = Nil]
(* Remove takes a node out of its bucket, MoveTo puts it first in another.  *)
IsCleared(W, M, y) ==
  /\ W \in [Nodes -> MetaNode]
  /\ W[y].prev = Nil /\ W[y].next = Nil /\ W[y].hash = Nil
  /\ \A m \in Nodes : /\ W[m].key = M[m].key /\ W[m].ref = M[m].ref /\ W[m].st = M[m].st
                      /\ m # y => W[m].prev = M[m].prev /\ W[m].next = M[m].next /\ W[m].hash = M[m].hash
LEMMA ClearSets ==
  ASSUME NEW M \in [Nodes -> MetaNode], NEW y \in Nodes
  PROVE  IsCleared(Cleared(M, y), M, y)
<1> DEFINE W == Cleared(M, y)
           w == [M[y] EXCEPT !.prev = Nil, !.next = Nil, !.hash = Nil]
<1>1. w \in MetaNode
  BY DEF MetaNode
<1>2. /\ w.prev = Nil /\ w.next = Nil /\ w.hash = Nil
      /\ w.key = M[y].key /\ w.ref = M[y].ref /\ w.st = M[y].st
  BY DEF MetaNode
<1>3. W = [m \in Nodes |-> IF m = y THEN w ELSE M[m]]
  BY DEF Cleared
<1> HIDE DEF w, W
<1>4. QED
  BY <1>1, <1>2, <1>3 DEF W, IsCleared

Placed(M, y, q, h) == [M EXCEPT ![y].next = q, ![y].hash = h]
IsPlaced(W, M, y, q, h) ==
  /\ W \in [Nodes -> MetaNode]
  /\ W[y].next = q /\ W[y].hash = h
  /\ \A m \in Nodes : /\ W[m].key = M[m].key /\ W[m].ref = M[m].ref /\ W[m].st = M[m].st
                      /\ W[m].prev = M[m].prev
                      /\ m # y => W[m].next = M[m].next /\ W[m].hash = M[m].hash
LEMMA LinkSets ==
  ASSUME NEW M \in [Nodes -> MetaNode], NEW y \in Nodes, NEW q \in Nodes \cup {Nil},
         NEW h \in Buckets
  PROVE  IsPlaced(Placed(M, y, q, h), M, y, q, h)
<1> DEFINE W == Placed(M, y, q, h)
           w == [M[y] EXCEPT !.next = q, !.hash = h]
<1>1. w \in MetaNode
  BY DEF MetaNode
<1>2. /\ w.next = q /\ w.hash = h /\ w.prev = M[y].prev
      /\ w.key = M[y].key /\ w.ref = M[y].ref /\ w.st = M[y].st
  BY DEF MetaNode
<1>3. W = [m \in Nodes |-> IF m = y THEN w ELSE M[m]]
  BY DEF Placed
<1> HIDE DEF w, W
<1>4. QED
  BY <1>1, <1>2, <1>3 DEF W, IsPlaced

LEMMA HitSets ==
  ASSUME NEW M \in [Nodes -> MetaNode], NEW y \in Nodes, NEW reload
  PROVE  /\ Hit(M, y, reload) \in [Nodes -> MetaNode]
         /\ \A m \in Nodes : LET w == Hit(M, y, reload)[m]
                            IN  /\ w.key = M[m].key /\ w.hash = M[m].hash
                                /\ w.prev = M[m].prev /\ w.next = M[m].next
                                /\ m # y => w.ref = M[m].ref
<1>1. PICK s \in States : s = HitState(M[y], reload)
  BY DEF HitState, MetaNode, States
<1>2. PICK r \in Int : r = M[y].ref + 1
  BY DEF MetaNode
<1>3. Hit(M, y, reload) = [M EXCEPT ![y].ref = r, ![y].st = s]
  BY <1>1, <1>2 DEF Hit
<1> DEFINE W == Hit(M, y, reload)
           w == [M[y] EXCEPT !.ref = r, !.st = s]
<1>4. w \in MetaNode
  BY DEF MetaNode
<1>5. w.key = M[y].key /\ w.hash = M[y].hash /\ w.prev = M[y].prev /\ w.next = M[y].next
  BY DEF MetaNode
<1>6. W = [m \in Nodes |-> IF m = y THEN w ELSE M[m]]
  BY <1>3
<1> HIDE DEF W, w
<1>7. QED
  BY <1>4, <1>5, <1>6 DEF W

LEMMA ClaimSets ==
  ASSUME NEW M \in [Nodes -> MetaNode], NEW y \in Nodes, NEW k \in Keys
  PROVE  /\ Claim(M, y, k) \in [Nodes -> MetaNode] /\ Claim(M, y, k)[y].key = k
         /\ \A m \in Nodes : LET w == Claim(M, y, k)[m]
                            IN  /\ w.hash = M[m].hash /\ w.prev = M[m].prev /\ w.next = M[m].next
                                /\ m # y => w.ref = M[m].ref /\ w.key = M[m].key
<1>1. PICK r \in Int : r = M[y].ref + 1
  BY DEF MetaNode
<1>2. Claim(M, y, k) = [M EXCEPT ![y].ref = r, ![y].key = k, ![y].st = "LOADING"]
  BY <1>1 DEF Claim
<1> DEFINE W == Claim(M, y, k)
           w == [M[y] EXCEPT !.ref = r, !.key = k, !.st = "LOADING"]
<1>3. w \in MetaNode
  BY DEF MetaNode, States
<1>4. w.key = k /\ w.hash = M[y].hash /\ w.prev = M[y].prev /\ w.next = M[y].next
  BY DEF MetaNode
<1>5. W = [m \in Nodes |-> IF m = y THEN w ELSE M[m]]
  BY <1>2
<1> HIDE DEF W, w
<1>6. QED
  BY <1>3, <1>4, <1>5 DEF W

(* When the second half of Remove can be taken.                             *)
LEMMA UnlinkNextWhen ==
  ASSUME NEW c \in Clients, UnlinkNext(c)
  PROVE  cl[c].pc = "unlinkNext" /\ Unlocked(meta[cl[c].at].next)
  BY Zenon DEF UnlinkNext, At

(* A client that takes no step keeps what it relies on.                     *)
LEMMA OthersKeep ==
  ASSUME TypeOK, ClientInv, NEW c \in Clients, OnlyMoves(c), KeepsLocks(c), KeepsBuckets(c),
         NEW d \in Clients, d # c
  PROVE  ClientOK(d)'
<1>1. /\ cl'[d] = cl[d] /\ cl[d] \in Local /\ ClientOK(d) /\ meta \in [Nodes -> MetaNode]
      /\ (cl[d].pc \in Working => cl[d].key \in Keys /\ Hash[cl[d].key] \in Buckets)
  BY Constants DEF OnlyMoves, ClientInv, TypeOK, ClientOK, OwnsBucket
<1>2. OwnsBucket(d)' /\ HasCandidate(d)'
  BY <1>1 DEF ClientOK, OwnsBucket, HasCandidate, KeepsLocks, Bucket
<1>3. cl[d].pc \in Owning => cl[d].at \in Nodes /\ nodeLock[cl[d].at] = d
  BY <1>1 DEF ClientOK, HasCandidate, OwnsNode, Missed, Owning
<1>4. cl[d].pc \in Owning => /\ nodeLock'[cl[d].at] = d
                             /\ meta'[cl[d].at].key = meta[cl[d].at].key
                             /\ meta'[cl[d].at].ref = meta[cl[d].at].ref
                             /\ meta'[cl[d].at].hash = meta[cl[d].at].hash
                             /\ meta'[cl[d].at].prev = meta[cl[d].at].prev
  BY <1>3 DEF KeepsLocks
<1>5. OwnsNode(d)'
  BY <1>1, <1>4 DEF ClientOK, OwnsNode, KeepsLocks
<1>6. OwnsOld(d)'
  BY <1>1, <1>4 DEF ClientOK, OwnsOld, OldBucket, Bucket, Owning, KeepsLocks
<1>7. Linking(d)'
  BY <1>1, <1>4 DEF ClientOK, Linking, Bucket, Owning
<1>8. KeyAbsent(d)'
  BY <1>1 DEF ClientOK, OwnsBucket, KeyAbsent, Bucket, KeepsBuckets, Working
<1>9. QED
  BY <1>2, <1>5, <1>6, <1>7, <1>8 DEF ClientOK

(* A client that takes no step stays where it is in its walk, though the    *)
(* ranks of nodes in other buckets change.                                  *)
KeepsRanks(c, rank, rank2) ==
  \A b \in Buckets, m \in Nodes, d \in Clients : d # c /\ bucketLock[b] = d /\ meta[m].hash = b =>
    meta'[m].hash = b /\ rank2[m] = rank[m]

LEMMA OthersWalk ==
  ASSUME TypeOK, ClientInv, NEW c \in Clients, OnlyMoves(c), KeepsBuckets(c),
         NEW rank, NEW rank2, Walks(rank), KeepsRanks(c, rank, rank2),
         NEW d \in Clients, d # c
  PROVE  WalkOK(d, rank2)'
<1> SUFFICES ASSUME cl[d].pc = "walk" PROVE WalkOK(d, rank2)'
  BY DEF WalkOK, OnlyMoves
<1>1. /\ cl'[d] = cl[d] /\ cl[d] \in Local /\ cl[d].key \in Keys /\ Bucket(d) \in Buckets
      /\ bucketLock[Bucket(d)] = d /\ Bucket(d)' = Bucket(d)
  BY Constants DEF OnlyMoves, ClientInv, TypeOK, ClientOK, OwnsBucket, Bucket, Working
<1>2. cl[d].at # Nil => cl[d].at \in Nodes
  BY <1>1 DEF Local
<1>3. QED
  BY <1>1, <1>2 DEF Walks, WalkOK, KeepsBuckets, KeepsRanks

(* A step that moves no link and neither starts nor ends the second half of *)
(* a removal keeps the order.                                               *)
LEMMA LinksKeep ==
  ASSUME NEW rank, Ordered(rank), TypeOK,
         KeepsLinks, \A n \in Nodes : Skipped(n)' = Skipped(n)
  PROVE  Ordered(rank)'
<1>0. \A n \in Nodes : meta[n].next \in Nodes \cup {Nil} /\ meta[n].prev \in Nodes \cup {Nil}
  BY DEF TypeOK, MetaNode
<1>1. Distinct(rank)'
  BY DEF Ordered, Distinct, KeepsLinks, Linked, Mates
<1>2. Heads(rank)'
  BY DEF Ordered, Heads, KeepsLinks, TypeOK
<1>3. NextIsLower(rank)'
  BY <1>0 DEF Ordered, NextIsLower, KeepsLinks, Linked, Mates
<1>4. PrevIsHigher(rank)'
  BY <1>0 DEF Ordered, PrevIsHigher, KeepsLinks, Linked, Mates
<1>5. QED
  BY <1>1, <1>2, <1>3, <1>4 DEF Ordered

(* What is left to show of a step: the facts of the client that takes it,   *)
(* the keys and the order.                                                  *)
LEMMA StepKeeps ==
  ASSUME TypeOK, ClientInv, NEW c \in Clients, OnlyMoves(c), KeepsLocks(c), KeepsBuckets(c),
         NEW rank, Walks(rank), NEW rank2 \in [Nodes -> Int], KeepsRanks(c, rank, rank2),
         TypeOK', ClientOK(c)', KeyInv', Ordered(rank2)', WalkOK(c, rank2)'
  PROVE  Inv'
<1>1. ClientInv'
  BY OthersKeep DEF ClientInv
<1>2. Walks(rank2)'
  BY OthersWalk DEF Walks
<1>3. QED
  BY <1>1, <1>2 DEF Inv, ChainInv

(* The same for a step that changes no key and no link.                     *)
LEMMA QuietStep ==
  ASSUME Inv, NEW c \in Clients, OnlyMoves(c), KeepsLocks(c), KeepsLinks,
         \A n \in Nodes : meta'[n].key = meta[n].key,
         cl[c].pc # "unlinkNext", cl'[c].pc # "unlinkNext",
         TypeOK', ClientOK(c)', KeyInv',
         \A rank \in [Nodes -> Int] : Ordered(rank) /\ WalkOK(c, rank) => WalkOK(c, rank)'
  PROVE  Inv'
<1>1. PICK rank \in [Nodes -> Int] : Ordered(rank) /\ Walks(rank)
  BY DEF Inv, ChainInv
<1>2. KeepsBuckets(c) /\ KeepsRanks(c, rank, rank)
  BY DEF KeepsBuckets, KeepsRanks, KeepsLinks
<1>3. \A n \in Nodes : Skipped(n)' = Skipped(n)
  BY DEF Skipped, OnlyMoves
<1>4. Ordered(rank)'
  BY <1>1, <1>3, LinksKeep DEF Inv
<1>5. WalkOK(c, rank)'
  BY <1>1 DEF Walks
<1>6. QED
  BY <1>1, <1>2, <1>4, <1>5, StepKeeps DEF Inv

----------------------------------------------------------------------------
(* The steps, one by one.                                                   *)

LEMMA CallKeeps ==
  ASSUME Inv, NEW c \in Clients, NEW op \in Ops, NEW k \in Keys, Call(c, op, k)
  PROVE  Inv'
<1>0. /\ TypeOK /\ ClientOK(c) /\ KeyInv /\ cl \in [Clients -> Local] /\ c # Nil
      /\ Hash[k] \in Buckets /\ first[Hash[k]] \in Nodes \cup {Nil} /\ op \in {"load", "dump", "exist"}
  BY Constants, TableAssumption DEF Inv, ClientInv, TypeOK
<1>1. cl'[c] = [pc |-> "walk", op |-> op, key |-> k, at |-> first[Hash[k]], own |-> FALSE]
  BY <1>0 DEF Call
<1>2. TypeOK'
  BY <1>0 DEF TypeOK, Call, Local, Working
<1>3. OnlyMoves(c) /\ KeepsLocks(c) /\ KeepsLinks /\ cl[c].pc # "unlinkNext"
  BY <1>0, Constants DEF Call, OnlyMoves, KeepsLocks, KeepsLinks, TypeOK, At
<1>4. ClientOK(c)'
  <2>1. OwnsNode(c)'
    BY <1>0, <1>1 DEF Call, At, ClientOK, OwnsNode, Owning
  <2>2. QED
    BY <1>0, <1>1, <2>1 DEF Call, ClientOK, OwnsBucket, HasCandidate, OwnsOld, Linking, KeyAbsent,
                            Missed, Owning, Bucket, TypeOK
<1>5. KeyInv'
  BY <1>0 DEF Call, KeyInv
<1>6. ASSUME NEW rank \in [Nodes -> Int], Ordered(rank) PROVE WalkOK(c, rank)'
  BY <1>0, <1>1, <1>6 DEF Call, WalkOK, Ordered, Heads, Bucket
<1>7. QED
  BY <1>1, <1>2, <1>3, <1>4, <1>5, <1>6, QuietStep DEF Call

(* The walk goes on to the node of the next lower rank: of the nodes of its *)
(* bucket the one it leaves, which has another key, is the only one passed. *)
LEMMA WalkOnKeeps ==
  ASSUME Inv, NEW c \in Clients, WalkOn(c)
  PROVE  Inv'
<1>0. /\ TypeOK /\ ClientOK(c) /\ KeyInv /\ cl \in [Clients -> Local] /\ c # Nil
      /\ cl[c].at \in Nodes /\ meta[cl[c].at].next \in Nodes \cup {Nil} /\ cl[c] \in Local
  BY Constants DEF Inv, ClientInv, TypeOK, WalkOn, Local, MetaNode
<1>1. cl'[c].pc = "walk"
      /\ cl'[c].at = meta[cl[c].at].next /\ cl'[c].key = cl[c].key
  BY <1>0 DEF WalkOn, At, Local
<1>2. TypeOK'
  BY <1>0 DEF TypeOK, WalkOn, Local
<1>3. OnlyMoves(c) /\ KeepsLocks(c) /\ KeepsLinks /\ cl[c].pc = "walk"
  BY <1>0 DEF WalkOn, OnlyMoves, KeepsLocks, KeepsLinks, TypeOK, At
<1>4. ClientOK(c)'
  BY <1>0, <1>1, <1>3 DEF WalkOn, ClientOK, OwnsBucket, HasCandidate, OwnsNode, OwnsOld, Linking, KeyAbsent,
                    Missed, Owning, Bucket, Working
<1>5. KeyInv'
  BY <1>0 DEF WalkOn, KeyInv
<1>6. ASSUME NEW rank \in [Nodes -> Int], Ordered(rank), WalkOK(c, rank) PROVE WalkOK(c, rank)'
  <2> DEFINE n == cl[c].at
             x == meta[n].next
  <2>1. n \in Nodes /\ meta[n].hash = Bucket(c) /\ Linked(n) /\ Bucket(c) \in Buckets
        /\ bucketLock[Bucket(c)] = c /\ meta[n].key # cl[c].key
    BY <1>0, <1>3, <1>6, Constants DEF WalkOK, ClientOK, OwnsBucket, Working, Linked, Bucket, WalkOn, Matches
  <2>2. \A m \in Nodes : Mates(n, m) => ~Skipped(m)
    <3> SUFFICES ASSUME NEW m \in Nodes, Mates(n, m), NEW d \in Clients,
                        cl[d].pc = "unlinkNext", cl[d].at = m
                 PROVE  FALSE
      BY DEF Skipped
    <3>1. ClientOK(d)
      BY DEF Inv, ClientInv
    <3>2. QED
      BY <1>3, <2>1, <3>1 DEF ClientOK, OwnsOld, OldBucket, Mates
  <2>3. NextIsLower(rank) /\ Distinct(rank)
    BY <1>6 DEF Ordered
  <2>4. x # Nil => meta[x].hash = Bucket(c)
    BY <2>1, <2>3 DEF NextIsLower, Mates
  <2>5. ASSUME NEW m \in Nodes, meta[m].hash = Bucket(c), meta[m].key = cl[c].key
        PROVE  x # Nil /\ rank[m] <= rank[x]
    <3>1. Mates(n, m) /\ rank[m] <= rank[n] /\ m # n
      BY <1>3, <1>6, <2>1, <2>5 DEF WalkOK, Mates
    <3>2. rank[m] < rank[n]
      BY <2>1, <2>3, <3>1 DEF Distinct
    <3>3. QED
      BY <2>1, <2>2, <2>3, <3>1, <3>2 DEF NextIsLower
  <2>6. Bucket(c)' = Bucket(c) /\ meta' = meta
    BY <1>1 DEF Bucket, WalkOn
  <2>7. QED
    BY <1>1, <2>4, <2>5, <2>6 DEF WalkOK
<1>7. QED
  BY <1>1, <1>2, <1>3, <1>4, <1>5, <1>6, QuietStep DEF WalkOn

LEMMA Facts ==
  ASSUME Inv, NEW c \in Clients
  PROVE  /\ TypeOK /\ ClientOK(c) /\ KeyInv /\ cl \in [Clients -> Local] /\ cl[c] \in Local
         /\ meta \in [Nodes -> MetaNode] /\ c # Nil
         /\ cl[c].pc \in Working => /\ cl[c].key \in Keys /\ Bucket(c) \in Buckets
                                    /\ bucketLock[Bucket(c)] = c
         /\ cl[c].pc \in (Missed \ {"fetch"}) \cup {"held"} => cl[c].at \in Nodes
  BY Constants DEF Inv, ClientInv, TypeOK, ClientOK, OwnsBucket, HasCandidate, Bucket

LEMMA FindHitKeeps ==
  ASSUME Inv, NEW c \in Clients, FindHit(c)
  PROVE  Inv'
<1>0. /\ TypeOK /\ ClientOK(c) /\ KeyInv /\ cl \in [Clients -> Local] /\ cl[c] \in Local
      /\ meta \in [Nodes -> MetaNode] /\ c # Nil
      /\ cl[c].pc = "walk" /\ cl[c].key \in Keys /\ Bucket(c) \in Buckets /\ bucketLock[Bucket(c)] = c
      /\ cl[c].at \in Nodes /\ nodeLock[cl[c].at] = Nil
  BY Facts DEF FindHit, Matches, Local, At, Working, Unlocked
<1>1. /\ cl'[c].pc = "held" /\ cl'[c].at = cl[c].at /\ cl'[c].key = cl[c].key
      /\ OnlyMoves(c)
  BY <1>0 DEF FindHit, Local, OnlyMoves
<1>a. /\ meta' \in [Nodes -> MetaNode]
      /\ \A n \in Nodes : /\ meta'[n].key = meta[n].key /\ meta'[n].hash = meta[n].hash
                          /\ meta'[n].prev = meta[n].prev /\ meta'[n].next = meta[n].next
                          /\ n # cl[c].at => meta'[n].ref = meta[n].ref
  BY <1>0, HitSets DEF FindHit
<1>2. TypeOK'
  BY <1>0, <1>a DEF TypeOK, FindHit, Local, IsOwner, Unlock
<1>3. KeepsLocks(c) /\ KeepsLinks
  BY <1>0, <1>a, Constants DEF FindHit, Unlock, KeepsLocks, KeepsLinks, TypeOK
<1>4. ClientOK(c)'
  BY <1>0, <1>1 DEF FindHit, ClientOK, OwnsBucket, HasCandidate, OwnsNode, OwnsOld, Linking, KeyAbsent,
                    Missed, Owning, Working
<1>5. KeyInv'
  BY <1>0, <1>a DEF FindHit, KeyInv
<1>6. \A rank : WalkOK(c, rank)'
  BY <1>1 DEF WalkOK
<1>7. QED
  BY <1>0, <1>1, <1>a, <1>2, <1>3, <1>4, <1>5, <1>6, QuietStep

(* The walk has ended, so no node of the bucket has the key.                *)
LEMMA FindMissKeeps ==
  ASSUME Inv, NEW c \in Clients, FindMiss(c)
  PROVE  Inv'
<1>0. /\ TypeOK /\ ClientOK(c) /\ KeyInv /\ cl \in [Clients -> Local] /\ cl[c] \in Local
      /\ cl[c].pc = "walk" /\ cl[c].at = Nil /\ \E rank : WalkOK(c, rank)
  BY Facts DEF FindMiss, At, Inv, ChainInv, Walks
<1>1. /\ cl'[c].pc = "fetch" /\ cl'[c].at = cl[c].at /\ cl'[c].key = cl[c].key /\ OnlyMoves(c)
      /\ UNCHANGED <<meta, first, freeHead, bucketLock, nodeLock>> /\ Bucket(c)' = Bucket(c)
  BY <1>0 DEF FindMiss, Goto, Local, OnlyMoves, Bucket
<1>2. TypeOK'
  BY <1>0 DEF TypeOK, FindMiss, Goto, Local, Missed, Working
<1>3. KeepsLocks(c) /\ KeepsLinks
  BY <1>1 DEF KeepsLocks, KeepsLinks
<1>4. ClientOK(c)'
  <2>1. KeyAbsent(c)'
    BY <1>0, <1>1 DEF KeyAbsent, WalkOK
  <2>2. QED
    BY <1>0, <1>1, <2>1 DEF ClientOK, OwnsBucket, HasCandidate, OwnsNode, OwnsOld, Linking,
                            Missed, Owning, Working
<1>5. KeyInv'
  BY <1>0, <1>1 DEF KeyInv
<1>6. \A rank : WalkOK(c, rank)'
  BY <1>1 DEF WalkOK
<1>7. QED
  BY <1>0, <1>1, <1>2, <1>3, <1>4, <1>5, <1>6, QuietStep

(* A client that becomes idle relies on nothing.                            *)
LEMMA IdleOK ==
  ASSUME NEW c \in Clients, ClientOK(c), cl[c].pc \notin Owning, UNCHANGED nodeLock, cl'[c] = Idle
  PROVE  ClientOK(c)' /\ \A rank : WalkOK(c, rank)'
  BY DEF Idle, ClientOK, OwnsBucket, HasCandidate, OwnsNode, OwnsOld, Linking, KeyAbsent,
         Missed, Owning, Working, WalkOK

LEMMA ExistReturnsKeeps ==
  ASSUME Inv, NEW c \in Clients, ExistReturns(c)
  PROVE  Inv'
<1>0. /\ TypeOK /\ ClientOK(c) /\ KeyInv /\ cl \in [Clients -> Local] /\ c # Nil
      /\ cl[c].pc = "walk" /\ Bucket(c) \in Buckets /\ bucketLock[Bucket(c)] = c
  BY Facts DEF ExistReturns, At, Working
<1>1. cl'[c] = Idle /\ OnlyMoves(c) /\ UNCHANGED <<meta, first, freeHead, nodeLock>>
  BY <1>0 DEF ExistReturns, OnlyMoves
<1>2. TypeOK'
  BY <1>0 DEF TypeOK, ExistReturns, Unlock, Idle, Local
<1>3. KeepsLocks(c) /\ KeepsLinks
  BY <1>0, <1>1, Constants DEF ExistReturns, Unlock, KeepsLocks, KeepsLinks, TypeOK
<1>4. KeyInv'
  BY <1>0, <1>1 DEF KeyInv
<1>5. cl'[c].pc # "unlinkNext" /\ cl[c].pc \notin Owning
  BY <1>0, <1>1 DEF Idle, Owning
<1>6. QED
  BY <1>0, <1>1, <1>2, <1>3, <1>4, <1>5, IdleOK, QuietStep

(* The node offered to a client is one that its operation may take.         *)
LEMMA CandidateOK ==
  ASSUME TypeOK, NEW c \in Clients
  PROVE  /\ Candidate(c) \in Nodes /\ Candidate(c) + 1 \in 0 .. NNode
         /\ cl[c].op # "load" => Candidate(c) < NNode - Reserved
  BY TableAssumption DEF TypeOK, Candidate, Limit

(* Between fetching candidates and claiming one a client only moves on.     *)
LEMMA FetchKeeps ==
  ASSUME Inv, NEW c \in Clients, NEW pc \in {"fetch", "fetchStore", "claim"},
         cl[c].pc \in {"fetch", "fetchStore", "claim"}, OnlyMoves(c),
         cl'[c].pc = pc, cl'[c].key = cl[c].key, cl'[c].op = cl[c].op,
         cl'[c].at \in Nodes, cl[c].op # "load" => cl'[c].at < NNode - Reserved,
         cl' \in [Clients -> Local], freeHead' \in 0 .. NNode,
         UNCHANGED <<meta, first, bucketLock, nodeLock>>
  PROVE  Inv'
<1>0. TypeOK /\ ClientOK(c) /\ KeyInv /\ Bucket(c)' = Bucket(c)
  BY Facts DEF Bucket
<1>2. TypeOK'
  BY <1>0 DEF TypeOK
<1>3. KeepsLocks(c) /\ KeepsLinks
  BY DEF KeepsLocks, KeepsLinks
<1>4. ClientOK(c)'
  BY <1>0 DEF ClientOK, OwnsBucket, HasCandidate, OwnsNode, OwnsOld, Linking, KeyAbsent,
              Missed, Owning, Working
<1>5. KeyInv'
  BY <1>0 DEF KeyInv
<1>6. \A rank : WalkOK(c, rank)'
  BY DEF WalkOK
<1>7. QED
  BY <1>2, <1>3, <1>4, <1>5, <1>6, QuietStep

LEMMA FetchNodeKeeps ==
  ASSUME Inv, NEW c \in Clients, FetchNode(c) \/ FetchNodeLoad(c) \/ FetchNodeStore(c) \/ SkipReferenced(c)
  PROVE  Inv'
<1>0. /\ TypeOK /\ ClientOK(c) /\ cl \in [Clients -> Local] /\ cl[c] \in Local
      /\ Candidate(c) \in Nodes /\ Candidate(c) + 1 \in 0 .. NNode
      /\ cl[c].op # "load" => Candidate(c) < NNode - Reserved
  BY Facts, CandidateOK
<1>1. CASE FetchNode(c)
  <2>1. /\ cl[c].pc = "fetch" /\ cl'[c].pc = "claim" /\ cl'[c].at = Candidate(c) /\ cl'[c].key = cl[c].key
        /\ cl'[c].op = cl[c].op /\ OnlyMoves(c) /\ cl' \in [Clients -> Local]
    BY <1>0, <1>1 DEF FetchNode, At, Local, OnlyMoves, Missed, Working
  <2>2. QED
    BY <1>0, <1>1, <2>1, FetchKeeps DEF FetchNode
<1>2. CASE FetchNodeLoad(c)
  <2>1. /\ cl[c].pc = "fetch" /\ cl'[c].pc = "fetchStore" /\ cl'[c].at = Candidate(c) /\ cl'[c].key = cl[c].key
        /\ cl'[c].op = cl[c].op /\ OnlyMoves(c) /\ cl' \in [Clients -> Local]
    BY <1>0, <1>2 DEF FetchNodeLoad, At, Local, OnlyMoves, Missed, Working
  <2>2. QED
    BY <1>0, <1>2, <2>1, FetchKeeps DEF FetchNodeLoad, TypeOK
<1>3. CASE FetchNodeStore(c) \/ SkipReferenced(c)
  <2>0. /\ cl[c].pc \in {"fetchStore", "claim"} /\ cl[c].at \in Nodes
        /\ cl[c].op # "load" => cl[c].at < NNode - Reserved
    BY <1>0, <1>3 DEF FetchNodeStore, SkipReferenced, At, ClientOK, HasCandidate, Missed
  <2>1. /\ cl'[c].pc \in {"fetch", "claim"} /\ cl'[c].at = cl[c].at /\ cl'[c].key = cl[c].key
        /\ cl'[c].op = cl[c].op /\ OnlyMoves(c) /\ cl' \in [Clients -> Local]
    BY <1>0, <1>3 DEF FetchNodeStore, SkipReferenced, Goto, Local, OnlyMoves, Missed, Working
  <2>2. freeHead' \in 0 .. NNode /\ UNCHANGED <<meta, first, bucketLock, nodeLock>>
    BY <1>0, <1>3, <2>0, Constants DEF FetchNodeStore, SkipReferenced, TypeOK
  <2>3. QED
    BY <2>0, <2>1, <2>2, FetchKeeps
<1>4. QED
  BY <1>1, <1>2, <1>3

(* A client takes an unreferenced node; the node's bucket decides what is   *)
(* next.                                                                    *)
LEMMA ClaimNodeKeeps ==
  ASSUME Inv, NEW c \in Clients, ClaimNode(c)
  PROVE  Inv'
<1> DEFINE n == cl[c].at
<1>0. /\ TypeOK /\ ClientOK(c) /\ KeyInv /\ cl \in [Clients -> Local] /\ cl[c] \in Local
      /\ meta \in [Nodes -> MetaNode] /\ c # Nil
      /\ cl[c].pc = "claim" /\ cl[c].key \in Keys /\ Bucket(c) \in Buckets /\ bucketLock[Bucket(c)] = c
      /\ n \in Nodes /\ nodeLock[n] = Nil /\ meta[n].ref = 0
  BY Facts, Constants DEF ClaimNode, At, Working, Missed, Unlocked, Unreferenced
<1>1. /\ cl'[c].at = n /\ cl'[c].key = cl[c].key /\ cl'[c].op = cl[c].op
      /\ cl'[c].pc = (CASE meta[n].hash = Bucket(c) -> "bind"
                        [] meta[n].hash = Nil       -> "link"
                        [] OTHER                    -> "tryOld")
      /\ OnlyMoves(c) /\ UNCHANGED <<meta, first, freeHead, bucketLock>> /\ Bucket(c)' = Bucket(c)
      /\ nodeLock' = [nodeLock EXCEPT ![n] = c]
  BY <1>0 DEF ClaimNode, Goto, Local, OnlyMoves, Bucket
<1>a. \/ cl'[c].pc = "bind" /\ meta[n].hash = Bucket(c)
      \/ cl'[c].pc = "link" /\ meta[n].hash = Nil /\ meta[n].prev = Nil /\ meta[n].key = NoKey
      \/ /\ cl'[c].pc = "tryOld" /\ meta[n].hash \in Buckets /\ meta[n].hash # Bucket(c)
         /\ meta[n].key \in Keys /\ Hash[meta[n].key] = meta[n].hash
  BY <1>0, <1>1, Constants DEF KeyInv, MetaNode
<1>2. TypeOK'
  <2>1. cl' \in [Clients -> Local]
    BY <1>0, <1>a DEF ClaimNode, Goto, Local, Missed, Owning, Working
  <2>2. QED
    BY <1>0, <1>1, <2>1 DEF TypeOK
<1>3. KeepsLocks(c) /\ KeepsLinks
  BY <1>0, <1>1, Constants DEF KeepsLocks, KeepsLinks, TypeOK
<1>4. ClientOK(c)'
  <2>1. OwnsBucket(c)' /\ HasCandidate(c)' /\ KeyAbsent(c)'
    BY <1>0, <1>1, <1>a DEF ClientOK, OwnsBucket, HasCandidate, KeyAbsent, Missed, Owning, Working
  <2>2. OwnsNode(c)' /\ OwnsOld(c)' /\ Linking(c)'
    BY <1>0, <1>1, <1>a DEF ClientOK, OwnsNode, OwnsOld, OldBucket, Linking, Owning, TypeOK
  <2>3. QED
    BY <2>1, <2>2 DEF ClientOK
<1>5. KeyInv'
  BY <1>0, <1>1 DEF KeyInv, TypeOK
<1>6. \A rank : WalkOK(c, rank)'
  BY <1>a DEF WalkOK
<1>7. QED
  BY <1>0, <1>1, <1>a, <1>2, <1>3, <1>4, <1>5, <1>6, QuietStep

LEMMA GiveUpKeeps ==
  ASSUME Inv, NEW c \in Clients, GiveUp(c)
  PROVE  Inv'
<1> DEFINE n == cl[c].at
<1>0. /\ TypeOK /\ ClientOK(c) /\ KeyInv /\ cl \in [Clients -> Local] /\ cl[c] \in Local
      /\ meta \in [Nodes -> MetaNode] /\ c # Nil /\ cl[c].pc = "tryOld" /\ n \in Nodes
      /\ nodeLock[n] = c /\ meta[n].hash \in Buckets /\ meta[n].hash # Nil
      /\ meta[n].key \in Keys /\ Hash[meta[n].key] = meta[n].hash
  BY Facts, Constants DEF GiveUp, At, Working, Missed, Owning, ClientOK, OwnsNode, OwnsOld, OldBucket
<1>1. /\ cl'[c].at = n /\ cl'[c].key = cl[c].key /\ cl'[c].op = cl[c].op /\ cl'[c].pc = "fetch"
      /\ OnlyMoves(c) /\ UNCHANGED <<meta, first, freeHead, bucketLock>> /\ Bucket(c)' = Bucket(c)
      /\ nodeLock' = [nodeLock EXCEPT ![n] = Nil]
  BY <1>0 DEF GiveUp, Unlock, Goto, Local, OnlyMoves, Bucket
<1>2. TypeOK'
  <2>1. cl' \in [Clients -> Local]
    BY <1>0 DEF GiveUp, Goto, Local, Missed, Working
  <2>2. QED
    BY <1>0, <1>1, <2>1 DEF TypeOK
<1>3. KeepsLocks(c) /\ KeepsLinks
  BY <1>0, <1>1, Constants DEF KeepsLocks, KeepsLinks, TypeOK
<1>4. ClientOK(c)'
  <2>1. OwnsNode(c)'
    BY <1>0, <1>1, Constants DEF ClientOK, OwnsNode, Owning, TypeOK
  <2>2. QED
    BY <1>0, <1>1, <2>1 DEF ClientOK, OwnsBucket, HasCandidate, OwnsOld, Linking, KeyAbsent,
                            Missed, Owning, Working
<1>5. KeyInv'
  BY <1>0, <1>1 DEF KeyInv, TypeOK
<1>6. \A rank : WalkOK(c, rank)'
  BY <1>1 DEF WalkOK
<1>7. QED
  BY <1>0, <1>1, <1>2, <1>3, <1>4, <1>5, <1>6, QuietStep

LEMMA TryOldBucketKeeps ==
  ASSUME Inv, NEW c \in Clients, TryOldBucket(c)
  PROVE  Inv'
<1> DEFINE n == cl[c].at
<1>0. /\ TypeOK /\ ClientOK(c) /\ KeyInv /\ cl \in [Clients -> Local] /\ cl[c] \in Local
      /\ cl[c].pc = "tryOld" /\ n \in Nodes /\ meta[n].hash \in Buckets /\ meta[n].hash # Bucket(c)
      /\ bucketLock[meta[n].hash] = Nil
  BY Facts DEF TryOldBucket, At, Working, Missed, Owning, ClientOK, OwnsOld, OldBucket
<1>1. /\ cl'[c].at = n /\ cl'[c].key = cl[c].key /\ cl'[c].op = cl[c].op /\ cl'[c].pc = "unlinkPrev"
      /\ OnlyMoves(c) /\ UNCHANGED <<meta, first, freeHead, nodeLock>> /\ Bucket(c)' = Bucket(c)
      /\ bucketLock' = [bucketLock EXCEPT ![meta[n].hash] = c]
  BY <1>0 DEF TryOldBucket, OldBucket, Goto, Local, OnlyMoves, Bucket
<1>2. TypeOK'
  <2>1. cl' \in [Clients -> Local]
    BY <1>0 DEF TryOldBucket, Goto, Local, Missed, Owning, Working
  <2>2. QED
    BY <1>0, <1>1, <2>1 DEF TypeOK
<1>3. KeepsLocks(c) /\ KeepsLinks
  BY <1>0, <1>1, Constants DEF KeepsLocks, KeepsLinks, TypeOK
<1>4. ClientOK(c)'
  BY <1>0, <1>1 DEF ClientOK, OwnsBucket, HasCandidate, OwnsNode, OwnsOld, OldBucket, Linking, KeyAbsent,
                    Missed, Owning, Working, TypeOK
<1>5. KeyInv'
  BY <1>0, <1>1 DEF KeyInv
<1>6. \A rank : WalkOK(c, rank)'
  BY <1>1 DEF WalkOK
<1>7. QED
  BY <1>0, <1>1, <1>2, <1>3, <1>4, <1>5, <1>6, QuietStep

LEMMA MarkStateKeeps ==
  ASSUME Inv, NEW c \in Clients, NEW s \in {"READY", "FAILED"}, MarkState(c, s)
  PROVE  Inv'
<1>0. /\ TypeOK /\ ClientOK(c) /\ KeyInv /\ meta \in [Nodes -> MetaNode] /\ cl[c].pc = "held"
      /\ cl[c].at \in Nodes
  BY Facts DEF MarkState, At
<1>1. /\ meta' \in [Nodes -> MetaNode]
      /\ \A n \in Nodes : /\ meta'[n].key = meta[n].key /\ meta'[n].hash = meta[n].hash
                          /\ meta'[n].prev = meta[n].prev /\ meta'[n].next = meta[n].next
                          /\ meta'[n].ref = meta[n].ref
      /\ UNCHANGED <<first, freeHead, bucketLock, nodeLock, cl>>
  BY <1>0 DEF MarkState, Mark, MetaNode, States
<1>2. TypeOK' /\ OnlyMoves(c) /\ KeepsLocks(c) /\ KeepsLinks /\ KeyInv'
  BY <1>0, <1>1 DEF TypeOK, OnlyMoves, KeepsLocks, KeepsLinks, KeyInv
<1>3. ClientOK(c)'
  BY <1>0, <1>1 DEF ClientOK, OwnsBucket, HasCandidate, OwnsNode, OwnsOld, Linking, KeyAbsent,
                    Missed, Owning, Working
<1>4. \A rank : WalkOK(c, rank)'
  BY <1>0, <1>1 DEF WalkOK
<1>5. QED
  BY <1>0, <1>1, <1>2, <1>3, <1>4, QuietStep

LEMMA ReleaseHandleKeeps ==
  ASSUME Inv, NEW c \in Clients, ReleaseHandle(c)
  PROVE  Inv'
<1>0. /\ TypeOK /\ ClientOK(c) /\ KeyInv /\ meta \in [Nodes -> MetaNode] /\ cl[c].pc = "held"
      /\ cl[c].at \in Nodes /\ nodeLock[cl[c].at] = Nil /\ cl \in [Clients -> Local]
  BY Facts, Constants DEF ReleaseHandle, At, Unlocked
<1>1. /\ meta' \in [Nodes -> MetaNode]
      /\ \A n \in Nodes : /\ meta'[n].key = meta[n].key /\ meta'[n].hash = meta[n].hash
                          /\ meta'[n].prev = meta[n].prev /\ meta'[n].next = meta[n].next
                          /\ n # cl[c].at => meta'[n].ref = meta[n].ref
      /\ UNCHANGED <<first, freeHead, bucketLock, nodeLock>>
  BY <1>0 DEF ReleaseHandle, Release, MetaNode
<1>2. cl'[c] = Idle /\ OnlyMoves(c) /\ cl' \in [Clients -> Local]
  BY <1>0 DEF ReleaseHandle, OnlyMoves, Idle, Local
<1>3. TypeOK' /\ KeepsLocks(c) /\ KeepsLinks /\ KeyInv'
  BY <1>0, <1>1, <1>2, Constants DEF TypeOK, KeepsLocks, KeepsLinks, KeyInv
<1>4. cl'[c].pc # "unlinkNext" /\ cl[c].pc \notin Owning
  BY <1>0, <1>2 DEF Idle, Owning
<1>5. QED
  BY <1>0, <1>1, <1>2, <1>3, <1>4, IdleOK, QuietStep

(* In a bucket whose lock a client holds without removing a node from it,   *)
(* every node is its predecessor's successor.                               *)
LEMMA NoneSkipped ==
  ASSUME Inv, NEW c \in Clients, NEW b \in Buckets, bucketLock[b] = c, cl[c].pc # "unlinkNext",
         NEW n \in Nodes, meta[n].hash = b
  PROVE  ~Skipped(n)
<1> SUFFICES ASSUME NEW d \in Clients, cl[d].pc = "unlinkNext", cl[d].at = n PROVE FALSE
  BY DEF Skipped
<1>1. ClientOK(d)
  BY DEF Inv, ClientInv
<1>2. QED
  BY <1>1 DEF ClientOK, OwnsOld, OldBucket

(* Binding changes the key of a node of the client's own bucket.            *)
LEMMA BindKeeps ==
  ASSUME Inv, NEW c \in Clients, Bind(c)
  PROVE  Inv'
<1> DEFINE n == cl[c].at
<1>0. /\ TypeOK /\ ClientOK(c) /\ KeyInv /\ cl \in [Clients -> Local] /\ cl[c] \in Local
      /\ meta \in [Nodes -> MetaNode] /\ c # Nil /\ cl[c].pc = "bind" /\ n \in Nodes
      /\ cl[c].key \in Keys /\ Bucket(c) \in Buckets /\ bucketLock[Bucket(c)] = c
      /\ nodeLock[n] = c /\ meta[n].hash = Bucket(c)
  BY Facts DEF Bind, At, Working, Missed, Owning, ClientOK, OwnsNode, Linking
<1>1. /\ cl'[c].at = n /\ cl'[c].key = cl[c].key /\ cl'[c].pc = "held" /\ OnlyMoves(c)
      /\ UNCHANGED <<first, freeHead>> /\ cl' \in [Clients -> Local]
      /\ bucketLock' = [bucketLock EXCEPT ![Bucket(c)] = Nil]
      /\ nodeLock' = [nodeLock EXCEPT ![n] = Nil]
  BY <1>0 DEF Bind, Unlock, Local, OnlyMoves
<1>2. /\ meta' \in [Nodes -> MetaNode] /\ meta'[n].key = cl[c].key
      /\ \A m \in Nodes : /\ meta'[m].hash = meta[m].hash
                          /\ meta'[m].prev = meta[m].prev /\ meta'[m].next = meta[m].next
                          /\ m # n => meta'[m].ref = meta[m].ref /\ meta'[m].key = meta[m].key
  BY <1>0, ClaimSets DEF Bind
<1>3. TypeOK' /\ KeepsLocks(c) /\ KeepsLinks /\ KeepsBuckets(c)
  <2>1. TypeOK' /\ KeepsLinks
    BY <1>0, <1>1, <1>2 DEF TypeOK, KeepsLinks
  <2>2. KeepsLocks(c)
    BY <1>0, <1>1, <1>2, Constants DEF TypeOK, KeepsLocks
  <2>3. KeepsBuckets(c)
    BY <1>0, <1>2 DEF KeepsBuckets
  <2>4. QED
    BY <2>1, <2>2, <2>3
<1>4. ClientOK(c)'
  <2>1. OwnsNode(c)'
    BY <1>0, <1>1, Constants DEF ClientOK, OwnsNode, Owning, TypeOK
  <2>2. QED
    BY <1>0, <1>1, <2>1 DEF ClientOK, OwnsBucket, HasCandidate, OwnsOld, Linking, KeyAbsent,
                            Missed, Owning, Working
<1>5. KeyInv'
  BY <1>0, <1>1, <1>2, Constants DEF KeyInv, TypeOK, Bucket
<1>6. \A rank : WalkOK(c, rank)'
  BY <1>1 DEF WalkOK
<1>7. PICK rank \in [Nodes -> Int] : Ordered(rank) /\ Walks(rank)
  BY DEF Inv, ChainInv
<1>8. \A m \in Nodes : Skipped(m)' = Skipped(m)
  BY <1>0, <1>1 DEF Skipped, OnlyMoves
<1>9. Ordered(rank)' /\ KeepsRanks(c, rank, rank)
  BY <1>0, <1>3, <1>7, <1>8, LinksKeep DEF KeepsRanks, KeepsLinks
<1>10. QED
  BY <1>1, <1>3, <1>4, <1>5, <1>6, <1>7, <1>9, StepKeeps DEF Inv

(* The predecessor skips the node.  Ranks stay: the predecessor's successor *)
(* is now the node's, and no other node had the removed one as successor.   *)
LEMMA UnlinkPrevKeeps ==
  ASSUME Inv, NEW c \in Clients, UnlinkPrev(c)
  PROVE  Inv'
<1> DEFINE n == cl[c].at
           b == meta[n].hash
           p == meta[n].prev
           x == meta[n].next
<1>0. /\ TypeOK /\ ClientOK(c) /\ KeyInv /\ cl \in [Clients -> Local] /\ cl[c] \in Local
      /\ meta \in [Nodes -> MetaNode] /\ c # Nil /\ cl[c].pc = "unlinkPrev" /\ n \in Nodes
      /\ b \in Buckets /\ b # Nil /\ bucketLock[b] = c
      /\ p \in Nodes \cup {Nil} /\ x \in Nodes \cup {Nil}
  BY Facts, Constants DEF UnlinkPrev, At, Working, Missed, Owning, ClientOK, OwnsOld, OldBucket, MetaNode
<1>1. /\ cl'[c].at = n /\ cl'[c].key = cl[c].key /\ cl'[c].op = cl[c].op /\ cl'[c].pc = "unlinkNext"
      /\ OnlyMoves(c) /\ UNCHANGED <<first, freeHead, bucketLock, nodeLock>> /\ Bucket(c)' = Bucket(c)
      /\ cl' \in [Clients -> Local]
  BY <1>0 DEF UnlinkPrev, Goto, Local, OnlyMoves, Bucket, Working, Missed, Owning
<1>2. /\ meta' \in [Nodes -> MetaNode]
      /\ \A m \in Nodes : /\ meta'[m].key = meta[m].key /\ meta'[m].ref = meta[m].ref
                          /\ meta'[m].hash = meta[m].hash /\ meta'[m].prev = meta[m].prev
                          /\ meta'[m].next = IF m = p THEN x ELSE meta[m].next
  <2>0. meta \in [Nodes -> MetaNode] /\ p \in Nodes \cup {Nil} /\ x \in Nodes \cup {Nil}
    BY <1>0
  <2>1. CASE p = Nil
    BY <1>0, <2>1, Constants DEF UnlinkPrev
  <2>2. CASE p # Nil
    <3>1. meta' = [meta EXCEPT ![p].next = x]
      BY <2>2 DEF UnlinkPrev
    <3> HIDE DEF n, p, x
    <3>2. QED
      BY <2>0, <2>2, <3>1, NextSet
  <2>3. QED
    BY <2>1, <2>2
<1>3. TypeOK' /\ KeyInv'
  BY <1>0, <1>1, <1>2 DEF TypeOK, KeyInv
<1>4. KeepsLocks(c) /\ KeepsBuckets(c)
  BY <1>1, <1>2 DEF KeepsLocks, KeepsBuckets
<1>5. ClientOK(c)'
  BY <1>0, <1>1, <1>2 DEF ClientOK, OwnsBucket, HasCandidate, OwnsNode, OwnsOld, OldBucket, Linking, KeyAbsent,
                          Missed, Owning, Working
<1>6. \A rank : WalkOK(c, rank)'
  BY <1>1 DEF WalkOK
<1>7. PICK rank \in [Nodes -> Int] : Ordered(rank) /\ Walks(rank)
  BY DEF Inv, ChainInv
<1>8. \A m \in Nodes : Skipped(m)' = (Skipped(m) \/ m = n)
  BY <1>0, <1>1 DEF Skipped, OnlyMoves
<1>9. Ordered(rank)'
  <2>1. Distinct(rank)' /\ Heads(rank)'
    BY <1>0, <1>1, <1>2, <1>7, SMTT(30) DEF Ordered, Distinct, Heads, Linked, Mates, TypeOK
  <2>2. PrevIsHigher(rank)'
    BY <1>0, <1>2, <1>7 DEF Ordered, PrevIsHigher, Linked, Mates, MetaNode
  <2>3. /\ \A m \in Nodes : meta[m].hash = b => ~Skipped(m)
        /\ p # Nil => p \in Nodes /\ meta[p].hash = b /\ rank[n] < rank[p]
        /\ \A m \in Nodes : meta[m].hash = b /\ rank[n] < rank[m] => p # Nil /\ rank[p] <= rank[m]
    BY <1>0, <1>7, NoneSkipped DEF Ordered, PrevIsHigher, Linked, Mates
  <2>4. ASSUME NEW k \in Nodes, Linked(k), k # p, meta[k].next = n PROVE FALSE
    <3>1. Mates(k, n) /\ rank[n] < rank[k] /\ meta[k].hash = b
      BY <1>0, <1>7, <2>4, Constants DEF Ordered, NextIsLower, Mates
    <3>2. p # Nil /\ rank[p] <= rank[k] /\ rank[p] \in Int /\ rank[k] \in Int /\ rank[n] \in Int
      BY <1>0, <2>3, <3>1
    <3>3. rank[p] < rank[k]
      BY <1>0, <1>7, <2>3, <2>4, <3>1, <3>2 DEF Ordered, Distinct, Mates
    <3>4. rank[p] <= rank[n]
      BY <1>7, <2>3, <2>4, <3>1, <3>2, <3>3 DEF Ordered, NextIsLower, Mates
    <3>5. QED
      BY <2>3, <3>2, <3>4
  <2>5. NextIsLower(rank)'
    <3> SUFFICES ASSUME NEW k \in Nodes, Linked(k), NEW y \in Nodes \cup {Nil}, y = meta'[k].next
                 PROVE  /\ y # Nil => Mates(k, y) /\ ~Skipped(y) /\ y # n /\ rank[y] < rank[k]
                        /\ \A m \in Nodes : Mates(k, m) /\ ~Skipped(m) /\ m # n /\ rank[m] < rank[k] =>
                             y # Nil /\ rank[m] <= rank[y]
      <4> SUFFICES ASSUME NEW k \in Nodes, Linked(k)'
                   PROVE  /\ meta'[k].next # Nil => /\ Mates(k, meta[k].next)' /\ ~Skipped(meta[k].next)'
                                                    /\ rank[meta'[k].next] < rank[k]
                          /\ \A m \in Nodes : Mates(k, m)' /\ ~Skipped(m)' /\ rank[m] < rank[k] =>
                               meta'[k].next # Nil /\ rank[m] <= rank[meta'[k].next]
        BY DEF NextIsLower
      <4>1. PICK y \in Nodes \cup {Nil} : y = meta'[k].next
        BY <1>2 DEF MetaNode
      <4>2. /\ Linked(k) /\ (y # Nil => Mates(k, meta[k].next)' = Mates(k, y))
            /\ \A m \in Nodes : Mates(k, m)' = Mates(k, m)
        BY <1>2, <4>1 DEF Linked, Mates
      <4>3. y # Nil => Skipped(meta[k].next)' = (Skipped(y) \/ y = n)
        BY <1>8, <4>1
      <4>4. QED
        BY <1>8, <4>1, <4>2, <4>3
    <3>1. CASE k = p
      <4>1. meta'[k].next = x /\ p # Nil /\ rank[n] < rank[p] /\ Mates(n, p) /\ Mates(p, n)
        BY <1>2, <2>3, <3>1, Constants DEF Mates
      <4>2. x # Nil => x \in Nodes /\ Mates(n, x) /\ ~Skipped(x) /\ rank[x] < rank[n]
        BY <1>0, <1>7 DEF Ordered, NextIsLower, Linked
      <4>3. ASSUME NEW m \in Nodes, Mates(p, m), m # n, rank[m] < rank[p]
            PROVE  x # Nil /\ rank[m] <= rank[x]
        <5>1. m # n /\ ~Skipped(m) /\ meta[m].hash = b /\ Mates(n, m)
          BY <2>3, <4>1, <4>3 DEF Mates
        <5>2. rank[m] <= rank[n]
          BY <1>0, <2>3, <3>1, <4>3, <5>1
        <5>3. rank[m] < rank[n]
          BY <1>0, <1>7, <5>1, <5>2 DEF Ordered, Distinct, Linked
        <5>4. QED
          BY <1>0, <1>7, <5>1, <5>3 DEF Ordered, NextIsLower, Linked
      <4>4. QED
        <5>1. n \in Nodes
          BY <1>0
        <5> HIDE DEF n, p, x
        <5>2. x # Nil => Mates(k, x) /\ ~Skipped(x) /\ x # n /\ rank[x] < rank[k]
          BY <3>1, <4>1, <4>2, <5>1 DEF Mates
        <5>3. QED
          BY <3>1, <4>1, <4>3, <5>2
    <3>2. CASE k # p
      <4>1. meta'[k].next = meta[k].next /\ meta[k].next # n /\ meta[k].next \in Nodes \cup {Nil}
        BY <1>0, <1>2, <2>4, <3>2 DEF MetaNode
      <4>2. QED
        BY <1>7, <4>1 DEF Ordered, NextIsLower
    <3>3. QED
      BY <3>1, <3>2
  <2>6. QED
    BY <2>1, <2>2, <2>5 DEF Ordered
<1>10. KeepsRanks(c, rank, rank)
  BY <1>2 DEF KeepsRanks
<1>11. QED
  BY <1>1, <1>3, <1>4, <1>5, <1>6, <1>7, <1>9, <1>10, StepKeeps DEF Inv

(* The successor and the head skip the node, which leaves the bucket.       *)
LEMMA UnlinkNextKeeps ==
  ASSUME Inv, NEW c \in Clients, UnlinkNext(c)
  PROVE  Inv'
<1> DEFINE n == cl[c].at
           b == meta[n].hash
           p == meta[n].prev
           x == meta[n].next
<1>0. /\ TypeOK /\ ClientOK(c) /\ KeyInv /\ cl \in [Clients -> Local] /\ cl[c] \in Local
      /\ meta \in [Nodes -> MetaNode] /\ c # Nil /\ cl[c].pc = "unlinkNext" /\ n \in Nodes
      /\ b \in Buckets /\ b # Nil /\ bucketLock[b] = c /\ b # Bucket(c) /\ nodeLock[n] = c
      /\ meta[n].ref = 0 /\ Hash[meta[n].key] = b
      /\ p \in Nodes \cup {Nil} /\ x \in Nodes \cup {Nil} /\ (x # Nil => nodeLock[x] = Nil)
  <2>1. /\ cl[c].pc = "unlinkNext" /\ cl[c].at \in Nodes /\ ClientOK(c) /\ meta \in [Nodes -> MetaNode]
        /\ (meta[cl[c].at].next # Nil => nodeLock[meta[cl[c].at].next] = Nil)
    BY Facts, UnlinkNextWhen DEF Missed, Owning, Unlocked
  <2>2. /\ nodeLock[n] = c /\ meta[n].ref = 0 /\ b \in Buckets /\ bucketLock[b] = c /\ b # Bucket(c)
        /\ Hash[meta[n].key] = b
    BY <2>1 DEF ClientOK, OwnsNode, OwnsOld, OldBucket, Owning
  <2>3. QED
    BY <2>1, <2>2, Facts, Constants DEF MetaNode
<1>1. /\ cl'[c].at = n /\ cl'[c].key = cl[c].key /\ cl'[c].op = cl[c].op /\ cl'[c].pc = "link"
      /\ OnlyMoves(c) /\ UNCHANGED <<freeHead, nodeLock>> /\ Bucket(c)' = Bucket(c)
      /\ cl' \in [Clients -> Local]
      /\ bucketLock' = [bucketLock EXCEPT ![b] = Nil]
      /\ first' = [first EXCEPT ![b] = IF first[b] = n THEN x ELSE first[b]]
  BY <1>0 DEF UnlinkNext, OldBucket, Unlock, Goto, Local, OnlyMoves, Bucket, Working, Missed, Owning
<1>2. /\ meta' \in [Nodes -> MetaNode]
      /\ meta'[n].hash = Nil /\ meta'[n].prev = Nil /\ meta'[n].next = Nil
      /\ \A m \in Nodes : /\ meta'[m].key = meta[m].key /\ meta'[m].ref = meta[m].ref
                          /\ m # n => /\ meta'[m].hash = meta[m].hash /\ meta'[m].next = meta[m].next
                                      /\ meta'[m].prev = IF m = x THEN p ELSE meta[m].prev
  <2> DEFINE cut == IF x = Nil THEN meta ELSE [meta EXCEPT ![x].prev = p]
  <2>0. meta \in [Nodes -> MetaNode] /\ n \in Nodes /\ p \in Nodes \cup {Nil} /\ x \in Nodes \cup {Nil}
    BY <1>0
  <2>1. /\ cut \in [Nodes -> MetaNode]
        /\ \A m \in Nodes : /\ cut[m].key = meta[m].key /\ cut[m].ref = meta[m].ref
                            /\ cut[m].hash = meta[m].hash /\ cut[m].next = meta[m].next
                            /\ cut[m].prev = IF m = x THEN p ELSE meta[m].prev
    <3> HIDE DEF n, p, x
    <3>1. CASE x = Nil
      BY <2>0, <3>1, Constants
    <3>2. CASE x # Nil
      BY <2>0, <3>2, PrevSet
    <3>3. QED
      BY <3>1, <3>2
  <2>2. meta' = Cleared(cut, n)
    BY DEF UnlinkNext, Cleared
  <2> HIDE DEF cut, n, p, x
  <2>3. QED
    <3>1. IsCleared(meta', cut, n)
      BY <2>0, <2>1, <2>2, ClearSets, Zenon
    <3>2. QED
      BY <2>0, <2>1, <3>1 DEF IsCleared
<1>3. PICK rank \in [Nodes -> Int] : Ordered(rank) /\ Walks(rank)
  BY DEF Inv, ChainInv
<1>4. /\ x # Nil => x # n /\ meta[x].hash = b /\ ~Skipped(x) /\ rank[x] < rank[n]
      /\ \A m \in Nodes : meta[m].hash = b /\ ~Skipped(m) /\ rank[m] < rank[n] => x # Nil /\ rank[m] <= rank[x]
      /\ p # Nil => p # n /\ meta[p].hash = b /\ rank[n] < rank[p]
      /\ \A m \in Nodes : meta[m].hash = b /\ rank[n] < rank[m] => p # Nil /\ rank[p] <= rank[m]
  BY <1>0, <1>3 DEF Ordered, NextIsLower, PrevIsHigher, Linked, Mates
<1>5. TypeOK' /\ KeyInv'
  <2>1. TypeOK'
    BY <1>0, <1>1, <1>2 DEF TypeOK
  <2>2. \A m \in Nodes : nodeLock'[m] = Nil => m # n /\ (meta[m].hash = Nil => m # x)
    BY <1>0, <1>1, <1>4, Constants
  <2>3. KeyInv'
    BY <1>0, <1>1, <1>2, <2>2 DEF KeyInv
  <2>4. QED
    BY <2>1, <2>3
<1>6. KeepsLocks(c)
  BY <1>0, <1>1, <1>2, Constants DEF KeepsLocks, TypeOK
<1>7. KeepsBuckets(c) /\ KeepsRanks(c, rank, rank)
  BY <1>0, <1>2, Constants DEF KeepsBuckets, KeepsRanks
<1>8. ClientOK(c)'
  <2>1. OwnsBucket(c)' /\ HasCandidate(c)' /\ KeyAbsent(c)'
    BY <1>0, <1>1, <1>2, Facts, Constants
       DEF ClientOK, OwnsBucket, HasCandidate, KeyAbsent, Missed, Owning, Working, TypeOK
  <2>2. OwnsNode(c)' /\ OwnsOld(c)' /\ Linking(c)'
    BY <1>0, <1>1, <1>2 DEF ClientOK, OwnsNode, OwnsOld, Linking, Owning
  <2>3. QED
    BY <2>1, <2>2 DEF ClientOK
<1>9. \A rk : WalkOK(c, rk)'
  BY <1>1 DEF WalkOK
<1>10. \A m \in Nodes : /\ Skipped(m)' => Skipped(m)
                        /\ Skipped(m) => Skipped(m)' \/ m = n
  BY <1>0, <1>1 DEF Skipped, OnlyMoves
<1>11. ASSUME NEW m \in Nodes, meta[m].hash = b, m # n PROVE ~Skipped(m)
  <2> SUFFICES ASSUME NEW d \in Clients, cl[d].pc = "unlinkNext", cl[d].at = m PROVE FALSE
    BY DEF Skipped
  <2>1. ClientOK(d)
    BY DEF Inv, ClientInv
  <2>2. QED
    BY <1>0, <1>11, <2>1 DEF ClientOK, OwnsOld, OldBucket
<1>12. Ordered(rank)'
  <2>1. Distinct(rank)'
    BY <1>2, <1>3 DEF Ordered, Distinct, Linked, Mates
  <2>2. Heads(rank)'
    <3> SUFFICES ASSUME NEW a \in Buckets
                 PROVE  /\ first'[a] # Nil => meta'[first'[a]].hash = a
                        /\ \A m \in Nodes : meta'[m].hash = a => first'[a] # Nil /\ rank[m] <= rank[first'[a]]
      BY DEF Heads
    <3>1. /\ first[a] \in Nodes \cup {Nil} /\ (first[a] # Nil => meta[first[a]].hash = a)
          /\ \A m \in Nodes : meta[m].hash = a => first[a] # Nil /\ rank[m] <= rank[first[a]]
      BY <1>0, <1>3 DEF Ordered, Heads, TypeOK
    <3>2. CASE a = b /\ first[b] = n
      <4>1. first'[a] = x
        BY <1>0, <1>1, <3>2 DEF TypeOK
      <4>2. ASSUME NEW m \in Nodes, meta'[m].hash = a PROVE x # Nil /\ rank[m] <= rank[x]
        <5>1. m # n /\ meta[m].hash = b /\ ~Skipped(m) /\ rank[m] <= rank[n]
          BY <1>0, <1>2, <1>11, <3>1, <3>2, <4>2
        <5>2. rank[m] < rank[n]
          BY <1>0, <1>3, <5>1 DEF Ordered, Distinct, Linked, Mates
        <5>3. QED
          BY <1>4, <5>1, <5>2
      <4>3. QED
        BY <1>0, <1>2, <1>4, <3>2, <4>1, <4>2
    <3>3. CASE ~(a = b /\ first[b] = n)
      <4>1. first'[a] = first[a] /\ first[a] # n
        <5>1. CASE a = b
          BY <1>0, <1>1, <3>3, <5>1 DEF TypeOK
        <5>2. CASE a # b
          BY <1>0, <1>1, <3>1, <5>2, Constants DEF TypeOK
        <5>3. QED
          BY <5>1, <5>2
      <4>2. QED
        BY <1>0, <1>2, <3>1, <4>1, Constants
    <3>4. QED
      BY <3>2, <3>3
  <2>3. NextIsLower(rank)'
    <3> SUFFICES ASSUME NEW k \in Nodes, Linked(k)'
                 PROVE  /\ meta'[k].next # Nil => /\ Mates(k, meta[k].next)' /\ ~Skipped(meta[k].next)'
                                                  /\ rank[meta'[k].next] < rank[k]
                        /\ \A m \in Nodes : Mates(k, m)' /\ ~Skipped(m)' /\ rank[m] < rank[k] =>
                             meta'[k].next # Nil /\ rank[m] <= rank[meta'[k].next]
      BY DEF NextIsLower
    <3>1. PICK y \in Nodes \cup {Nil} : y = meta'[k].next /\ y = meta[k].next /\ k # n /\ Linked(k)
      BY <1>0, <1>2 DEF MetaNode, Linked
    <3>2. y # Nil => Mates(k, y) /\ ~Skipped(y) /\ rank[y] < rank[k] /\ y # n
      BY <1>0, <1>1, <1>3, <3>1 DEF Ordered, NextIsLower, Skipped
    <3>3. \A m \in Nodes : Mates(k, m)' => m # n /\ Mates(k, m)
      BY <1>2, <3>1 DEF Mates, Linked
    <3>4. y # Nil => Mates(k, meta[k].next)'
      BY <1>2, <3>1, <3>2 DEF Mates
    <3>5. y # Nil => ~Skipped(meta[k].next)'
      BY <1>10, <3>1, <3>2
    <3>6. \A m \in Nodes : Mates(k, m)' /\ ~Skipped(m)' /\ rank[m] < rank[k] => y # Nil /\ rank[m] <= rank[y]
      BY <1>3, <1>10, <3>1, <3>3 DEF Ordered, NextIsLower
    <3>7. QED
      BY <3>1, <3>2, <3>4, <3>5, <3>6
  <2>4. PrevIsHigher(rank)'
    <3> SUFFICES ASSUME NEW k \in Nodes, k # n, Linked(k), NEW y \in Nodes \cup {Nil}, y = meta'[k].prev
                 PROVE  /\ y # Nil => y # n /\ Mates(k, y) /\ rank[k] < rank[y]
                        /\ \A m \in Nodes : m # n /\ Mates(k, m) /\ rank[k] < rank[m] =>
                             y # Nil /\ rank[y] <= rank[m]
      BY <1>2 DEF PrevIsHigher, Linked, Mates, MetaNode
    <3>1. CASE k = x
      <4>1. y = p /\ x # Nil /\ Mates(n, x) /\ Mates(x, n) /\ rank[x] < rank[n]
        BY <1>0, <1>2, <1>4, <3>1, Constants DEF Mates
      <4>2. ASSUME NEW m \in Nodes, m # n, Mates(k, m), rank[k] < rank[m] PROVE p # Nil /\ rank[p] <= rank[m]
        <5>1. meta[m].hash = b /\ ~Skipped(m)
          BY <1>0, <1>11, <3>1, <4>1, <4>2 DEF Mates
        <5>2. ~(rank[m] < rank[n])
          <6>1. x \in Nodes /\ n \in Nodes
            BY <1>0, <4>1
          <6> HIDE DEF n, b, p, x
          <6>2. QED
            BY <1>4, <3>1, <4>2, <5>1, <6>1
        <5>3. rank[m] # rank[n]
          BY <1>0, <1>3, <4>2, <5>1 DEF Ordered, Distinct, Linked, Mates
        <5>4. QED
          BY <1>0, <1>4, <5>1, <5>2, <5>3
      <4>3. p # Nil => p # n /\ Mates(k, p) /\ rank[k] < rank[p]
        <5>1. n \in Nodes /\ p \in Nodes \cup {Nil}
          BY <1>0
        <5> HIDE DEF n, b, p, x
        <5>2. QED
          BY <1>4, <3>1, <4>1, <5>1 DEF Mates
      <4>4. QED
        BY <4>1, <4>2, <4>3
    <3>2. CASE k # x
      <4>1. y = meta[k].prev
        BY <1>2, <3>2
      <4>2. y # n
        <5> SUFFICES ASSUME y = n PROVE FALSE
          OBVIOUS
        <5>1. Mates(k, n) /\ rank[k] < rank[n] /\ meta[k].hash = b
          BY <1>0, <1>3, <4>1, Constants DEF Ordered, PrevIsHigher, Mates
        <5>2. x # Nil /\ rank[k] <= rank[x]
          BY <1>4, <1>11, <5>1
        <5>3. rank[k] < rank[x] /\ Mates(k, x)
          BY <1>0, <1>3, <1>4, <3>2, <5>1, <5>2 DEF Ordered, Distinct, Mates
        <5>4. rank[n] <= rank[x]
          BY <1>0, <1>3, <4>1, <5>2, <5>3 DEF Ordered, PrevIsHigher
        <5>5. QED
          BY <1>0, <1>4, <5>2, <5>4
      <4>3. QED
        BY <1>3, <4>1, <4>2 DEF Ordered, PrevIsHigher
    <3>3. QED
      BY <3>1, <3>2
  <2>5. QED
    BY <2>1, <2>2, <2>3, <2>4 DEF Ordered
<1>13. QED
  BY <1>1, <1>3, <1>5, <1>6, <1>7, <1>8, <1>9, <1>12, StepKeeps DEF Inv

(* The node becomes the head of the new bucket, above all other ranks.      *)
LEMMA LinkKeeps ==
  ASSUME Inv, NEW c \in Clients, Link(c)
  PROVE  Inv'
<1> DEFINE n == cl[c].at
           b == Bucket(c)
           x == first[b]
<1>0. /\ TypeOK /\ ClientOK(c) /\ KeyInv /\ cl \in [Clients -> Local] /\ cl[c] \in Local
      /\ meta \in [Nodes -> MetaNode] /\ c # Nil /\ cl[c].pc = "link" /\ n \in Nodes /\ n # Nil
      /\ b \in Buckets /\ b # Nil /\ bucketLock[b] = c /\ nodeLock[n] = c /\ meta[n].ref = 0
      /\ meta[n].hash = Nil /\ meta[n].prev = Nil
      /\ meta[n].key = NoKey \/ Hash[meta[n].key] # b
      /\ x \in Nodes \cup {Nil} /\ (x # Nil => nodeLock[x] = Nil)
  BY Facts, Constants DEF Link, At, Working, Missed, Owning, ClientOK, OwnsNode, Linking, TypeOK, Unlocked
<1>1. /\ cl'[c].at = n /\ cl'[c].key = cl[c].key /\ cl'[c].op = cl[c].op /\ cl'[c].pc = "bind"
      /\ OnlyMoves(c) /\ UNCHANGED <<freeHead, bucketLock, nodeLock>> /\ Bucket(c)' = b
      /\ cl' \in [Clients -> Local]
      /\ first' = [first EXCEPT ![b] = n]
  BY <1>0 DEF Link, Goto, Local, OnlyMoves, Bucket, Working, Missed, Owning
<1>2. PICK rank \in [Nodes -> Int] : Ordered(rank) /\ Walks(rank)
  BY DEF Inv, ChainInv
<1>3. /\ x # Nil => x # n /\ meta[x].hash = b
      /\ \A m \in Nodes : meta[m].hash = b => x # Nil /\ rank[m] <= rank[x] /\ m # n /\ ~Skipped(m)
  BY <1>0, <1>2, NoneSkipped DEF Ordered, Heads
<1>4. /\ meta' \in [Nodes -> MetaNode]
      /\ meta'[n].hash = b /\ meta'[n].prev = Nil /\ meta'[n].next = x
      /\ \A m \in Nodes : /\ meta'[m].key = meta[m].key /\ meta'[m].ref = meta[m].ref
                          /\ m # n => /\ meta'[m].hash = meta[m].hash /\ meta'[m].next = meta[m].next
                                      /\ meta'[m].prev = IF m = x THEN n ELSE meta[m].prev
  <2>1. /\ Pushed(x, n) \in [Nodes -> MetaNode]
        /\ \A m \in Nodes : /\ Pushed(x, n)[m].key = meta[m].key /\ Pushed(x, n)[m].ref = meta[m].ref
                            /\ Pushed(x, n)[m].hash = meta[m].hash /\ Pushed(x, n)[m].next = meta[m].next
                            /\ Pushed(x, n)[m].prev = IF m = x THEN n ELSE meta[m].prev
    <3>1. CASE x = Nil
      BY <1>0, <3>1, Constants DEF Pushed
    <3>2. CASE x # Nil
      BY <1>0, <3>2, PrevSet DEF Pushed
    <3>3. QED
      BY <3>1, <3>2
  <2>2. meta' = Placed(Pushed(x, n), n, x, b)
    BY DEF Link, Placed
  <2>3. n \in Nodes /\ b \in Buckets /\ x \in Nodes \cup {Nil} /\ x # n /\ meta[n].prev = Nil
    BY <1>0, <1>3, Constants
  <2> HIDE DEF n, b, x
  <2>4. QED
    <3>1. IsPlaced(meta', Pushed(x, n), n, x, b)
      BY <2>1, <2>2, <2>3, LinkSets, Zenon
    <3>2. QED
      BY <2>1, <2>3, <3>1 DEF IsPlaced
<1>5. TypeOK' /\ KeyInv'
  <2>1. TypeOK'
    BY <1>0, <1>1, <1>4 DEF TypeOK
  <2>2. \A m \in Nodes : nodeLock'[m] = Nil => m # n /\ (meta[m].hash = Nil => m # x)
    BY <1>0, <1>1, <1>3, Constants
  <2>3. KeyInv'
    BY <1>0, <1>1, <1>4, <2>2 DEF KeyInv
  <2>4. QED
    BY <2>1, <2>3
<1>6. KeepsLocks(c)
  BY <1>0, <1>1, <1>4, Constants DEF KeepsLocks, TypeOK
<1>7. PICK rank2 \in [Nodes -> Int] : /\ \A m \in Nodes : m # n => rank2[m] = rank[m]
                                      /\ x # Nil => rank2[n] = rank2[x] + 1
  <2> DEFINE new == [rank EXCEPT ![n] = IF x = Nil THEN 0 ELSE rank[x] + 1]
  <2>1. /\ new \in [Nodes -> Int] /\ (\A m \in Nodes : m # n => new[m] = rank[m])
        /\ x # Nil => new[n] = new[x] + 1
    BY <1>0, <1>2, <1>3
  <2>2. QED
    BY <2>1
<1>8. KeepsBuckets(c) /\ KeepsRanks(c, rank, rank2)
  BY <1>0, <1>4, <1>7, Constants DEF KeepsBuckets, KeepsRanks
<1>9. ClientOK(c)'
  <2>1. OwnsBucket(c)' /\ HasCandidate(c)'
    BY <1>0, <1>1, Facts DEF ClientOK, OwnsBucket, HasCandidate, Missed, Owning, Working
  <2>2. KeyAbsent(c)'
    <3>1. cl[c].key \in Keys /\ Hash[cl[c].key] = b
      BY <1>0, Facts DEF Working, Missed, Owning, Bucket
    <3>2. meta[n].key # cl[c].key
      BY <1>0, <3>1, Constants
    <3>3. QED
      BY <1>0, <1>1, <1>4, <3>2 DEF ClientOK, KeyAbsent, Missed, Owning
  <2>3. OwnsNode(c)' /\ OwnsOld(c)' /\ Linking(c)'
    BY <1>0, <1>1, <1>4 DEF ClientOK, OwnsNode, OwnsOld, Linking, Owning
  <2>4. QED
    BY <2>1, <2>2, <2>3 DEF ClientOK
<1>10. \A rk : WalkOK(c, rk)'
  BY <1>1 DEF WalkOK
<1>11. \A m \in Nodes : Skipped(m)' = Skipped(m)
  BY <1>0, <1>1 DEF Skipped, OnlyMoves
<1>12. ~Skipped(n)
  <2> SUFFICES ASSUME NEW d \in Clients, cl[d].pc = "unlinkNext", cl[d].at = n PROVE FALSE
    BY DEF Skipped
  <2>1. ClientOK(d)
    BY DEF Inv, ClientInv
  <2>2. QED
    BY <1>0, <2>1 DEF ClientOK, OwnsNode, Owning
(* The new head is above every node of its bucket, and the others stand to  *)
(* each other as before.                                                    *)
<1>13. \A m \in Nodes : meta'[m].hash = b /\ m # n => x # Nil /\ rank2[m] <= rank2[x] /\ rank2[m] < rank2[n]
  BY <1>0, <1>3, <1>4, <1>7
<1>14. Ordered(rank2)'
  <2>1. Distinct(rank2)'
    <3> SUFFICES ASSUME NEW k \in Nodes, NEW m \in Nodes, Linked(k)', Mates(k, m)', rank2[k] = rank2[m], k # m
                 PROVE  FALSE
      BY DEF Distinct
    <3>1. CASE k = n \/ m = n
      BY <1>4, <1>7, <1>13, <3>1 DEF Mates
    <3>2. CASE k # n /\ m # n
      BY <1>2, <1>4, <1>7, <3>2 DEF Ordered, Distinct, Linked, Mates
    <3>3. QED
      BY <3>1, <3>2
  <2>2. Heads(rank2)'
    <3> SUFFICES ASSUME NEW a \in Buckets
                 PROVE  /\ first'[a] # Nil => meta'[first'[a]].hash = a
                        /\ \A m \in Nodes : meta'[m].hash = a => first'[a] # Nil /\ rank2[m] <= rank2[first'[a]]
      BY DEF Heads
    <3>1. CASE a = b
      BY <1>0, <1>1, <1>4, <1>7, <1>13, <3>1 DEF TypeOK
    <3>2. CASE a # b
      <4>1. /\ first'[a] = first[a] /\ first[a] \in Nodes \cup {Nil}
            /\ first[a] # Nil => meta[first[a]].hash = a /\ first[a] # n
            /\ \A m \in Nodes : meta[m].hash = a => first[a] # Nil /\ rank[m] <= rank[first[a]]
        BY <1>0, <1>1, <1>2, <3>2, Constants DEF Ordered, Heads, TypeOK
      <4>2. QED
        BY <1>4, <1>7, <3>2, <4>1
    <3>3. QED
      BY <3>1, <3>2
  <2>3. NextIsLower(rank2)'
    <3> SUFFICES ASSUME NEW k \in Nodes, Linked(k)'
                 PROVE  /\ meta'[k].next # Nil => /\ Mates(k, meta[k].next)' /\ ~Skipped(meta[k].next)'
                                                  /\ rank2[meta'[k].next] < rank2[k]
                        /\ \A m \in Nodes : Mates(k, m)' /\ ~Skipped(m)' /\ rank2[m] < rank2[k] =>
                             meta'[k].next # Nil /\ rank2[m] <= rank2[meta'[k].next]
      BY DEF NextIsLower
    <3>1. CASE k = n
      <4>1. meta'[k].next = x /\ (x # Nil => Mates(k, meta[k].next)' /\ ~Skipped(meta[k].next)')
        BY <1>0, <1>3, <1>4, <1>11, <3>1 DEF Mates
      <4>2. QED
        BY <1>0, <1>3, <1>4, <1>7, <1>13, <3>1, <4>1 DEF Mates
    <3>2. CASE k # n
      <4>1. PICK y \in Nodes \cup {Nil} : y = meta'[k].next /\ y = meta[k].next /\ Linked(k)
        BY <1>0, <1>4, <3>2 DEF MetaNode, Linked
      <4>2. y # Nil => Mates(k, y) /\ ~Skipped(y) /\ rank[y] < rank[k] /\ y # n
        BY <1>0, <1>2, <4>1 DEF Ordered, NextIsLower, Mates, Linked
      <4>3. y # Nil => Mates(k, meta[k].next)' /\ ~Skipped(meta[k].next)'
        BY <1>4, <1>11, <3>2, <4>1, <4>2 DEF Mates
      <4>4. ASSUME NEW m \in Nodes, Mates(k, m)', ~Skipped(m)', rank2[m] < rank2[k]
            PROVE  y # Nil /\ rank2[m] <= rank2[y]
        <5>1. m # n
          BY <1>4, <1>7, <1>13, <3>2, <4>4 DEF Mates
        <5>2. Mates(k, m) /\ ~Skipped(m) /\ rank[m] < rank[k]
          BY <1>4, <1>7, <1>11, <3>2, <4>4, <5>1 DEF Mates
        <5>3. y # Nil /\ rank[m] <= rank[y]
          BY <1>2, <4>1, <5>2 DEF Ordered, NextIsLower
        <5>4. QED
          BY <1>7, <4>2, <5>1, <5>3
      <4>5. QED
        BY <1>7, <3>2, <4>1, <4>2, <4>3, <4>4
    <3>3. QED
      BY <3>1, <3>2
  <2>4. PrevIsHigher(rank2)'
    <3> SUFFICES ASSUME NEW k \in Nodes, Linked(k)', NEW y \in Nodes \cup {Nil}, y = meta'[k].prev
                 PROVE  /\ y # Nil => meta'[y].hash = meta'[k].hash /\ rank2[k] < rank2[y]
                        /\ \A m \in Nodes : Mates(k, m)' /\ rank2[k] < rank2[m] =>
                             y # Nil /\ rank2[y] <= rank2[m]
      BY <1>4 DEF PrevIsHigher, Mates, MetaNode
    <3>1. CASE k = n
      <4>1. y = Nil
        BY <1>4, <3>1
      <4>2. QED
        BY <1>4, <1>7, <1>13, <3>1, <4>1 DEF Mates
    <3>2. CASE k # n /\ k = x
      <4>1. y = n /\ meta'[k].hash = b /\ rank2[k] < rank2[n]
        BY <1>0, <1>3, <1>4, <1>7, <3>2, Constants
      <4>2. \A m \in Nodes : Mates(k, m)' /\ rank2[k] < rank2[m] => m = n
        BY <1>7, <1>13, <3>2, <4>1 DEF Mates
      <4>3. QED
        BY <1>0, <1>4, <1>7, <4>1, <4>2
    <3>3. CASE k # n /\ k # x
      <4>1. y = meta[k].prev /\ Linked(k) /\ meta'[k].hash = meta[k].hash
        BY <1>4, <3>3 DEF Linked
      <4>2. y # Nil => Mates(k, y) /\ rank[k] < rank[y] /\ y # n
        BY <1>0, <1>2, <4>1 DEF Ordered, PrevIsHigher, Mates, Linked
      <4>3. ASSUME NEW m \in Nodes, Mates(k, m)', rank2[k] < rank2[m] PROVE y # Nil /\ rank2[y] <= rank2[m]
        <5>1. CASE m # n
          <6>1. Mates(k, m) /\ rank[k] < rank[m]
            BY <1>4, <1>7, <3>3, <4>3, <5>1 DEF Mates
          <6>2. y # Nil /\ rank[y] <= rank[m]
            BY <1>2, <4>1, <6>1 DEF Ordered, PrevIsHigher
          <6>3. QED
            BY <1>7, <4>2, <5>1, <6>2
        <5>2. CASE m = n
          <6>1. meta[k].hash = b /\ x # Nil /\ x \in Nodes /\ rank2[k] <= rank2[x] /\ x # n
            BY <1>0, <1>3, <1>4, <1>13, <3>3, <4>1, <4>3, <5>2 DEF Mates
          <6>2. Mates(k, x) /\ rank[k] < rank[x]
            BY <1>2, <1>3, <1>7, <3>3, <4>1, <6>1 DEF Ordered, Distinct, Mates
          <6>3. y # Nil /\ rank[y] <= rank[x]
            BY <1>2, <4>1, <6>1, <6>2 DEF Ordered, PrevIsHigher
          <6>4. QED
            BY <1>7, <4>2, <5>2, <6>1, <6>3
        <5>3. QED
          BY <5>1, <5>2
      <4>4. QED
        BY <1>4, <1>7, <3>3, <4>1, <4>2, <4>3 DEF Mates
    <3>4. QED
      BY <3>1, <3>2, <3>3
  <2>5. QED
    BY <2>1, <2>2, <2>3, <2>4 DEF Ordered
<1>15. QED
  BY <1>1, <1>2, <1>5, <1>6, <1>7, <1>8, <1>9, <1>10, <1>14, StepKeeps DEF Inv

LEMMA InitInv == Init => Inv
<1> SUFFICES ASSUME Init PROVE Inv
  OBVIOUS
<1>1. /\ \A n \in Nodes : /\ meta[n].key = NoKey /\ meta[n].hash = Nil /\ meta[n].prev = Nil
                          /\ meta[n].next = Nil
      /\ \A c \in Clients : cl[c].pc = "idle" /\ cl[c] = Idle
      /\ \A b \in Buckets : first[b] = Nil
  BY DEF Init, Idle
<1>2. TypeOK
  BY TableAssumption DEF Init, TypeOK, MetaNode, Local, Idle, States
<1>3. ClientInv
  BY <1>1, Constants DEF Init, ClientInv, ClientOK, OwnsBucket, HasCandidate, OwnsNode, OwnsOld, Linking,
              KeyAbsent, Missed, Owning, Working
<1>4. KeyInv
  BY <1>1 DEF KeyInv
<1>5. [n \in Nodes |-> 0] \in [Nodes -> Int]
  OBVIOUS
<1>6. \A rank : Ordered(rank) /\ Walks(rank)
  BY <1>1, Constants DEF Ordered, Walks, WalkOK, Distinct, Heads, NextIsLower, PrevIsHigher, Linked
<1>7. ChainInv
  BY <1>5, <1>6 DEF ChainInv
<1>8. QED
  BY <1>2, <1>3, <1>4, <1>7 DEF Inv

LEMMA StutterInv == Inv /\ UNCHANGED vars => Inv'
<1> SUFFICES ASSUME Inv, UNCHANGED vars PROVE Inv'
  OBVIOUS
<1>1. TypeOK' /\ KeyInv' /\ ClientInv'
  BY DEF vars, Inv, TypeOK, KeyInv, ClientInv, ClientOK, OwnsBucket, HasCandidate, OwnsNode, OwnsOld,
         OldBucket, Linking, KeyAbsent, Bucket
<1>2. PICK rank \in [Nodes -> Int] : Ordered(rank) /\ Walks(rank)
  BY DEF Inv, ChainInv
<1>3. \A n \in Nodes : Skipped(n)' = Skipped(n)
  BY DEF vars, Skipped
<1>4. Ordered(rank)'
  BY <1>2, <1>3, LinksKeep DEF Inv, vars, KeepsLinks
<1>5. Walks(rank)'
  BY <1>2 DEF Walks, WalkOK, Bucket, vars
<1>6. QED
  BY <1>1, <1>4, <1>5 DEF Inv, ChainInv

LEMMA NextInv == Inv /\ [Next]_vars => Inv'
<1> SUFFICES ASSUME Inv, [Next]_vars PROVE Inv'
  OBVIOUS
<1>1. CASE UNCHANGED vars
  BY <1>1, StutterInv
<1>2. ASSUME NEW c \in Clients, NEW op \in Ops, NEW k \in Keys, Call(c, op, k) PROVE Inv'
  BY <1>2, CallKeeps
<1>3. ASSUME NEW c \in Clients, Step(c) PROVE Inv'
  BY <1>3, WalkOnKeeps, FindHitKeeps, FindMissKeeps, ExistReturnsKeeps, FetchNodeKeeps, ClaimNodeKeeps,
     GiveUpKeeps, TryOldBucketKeeps, UnlinkPrevKeeps, UnlinkNextKeeps, LinkKeeps, BindKeeps DEF Step
<1>4. ASSUME NEW c \in Clients, NEW s \in {"READY", "FAILED"}, MarkState(c, s) PROVE Inv'
  BY <1>4, MarkStateKeeps
<1>5. ASSUME NEW c \in Clients, ReleaseHandle(c) PROVE Inv'
  BY <1>5, ReleaseHandleKeeps
<1>6. QED
  BY <1>1, <1>2, <1>3, <1>4, <1>5 DEF Next

LEMMA InvHolds == Spec => []Inv
  BY InitInv, NextInv, PTL DEF Spec

(* No dump ever binds one of the nodes that are reserved for loads,         *)
(* whatever the other threads do to the free head meanwhile.                *)
THEOREM ReserveHolds == Spec => []ReserveKept
<1>1. Inv => ReserveKept
  BY DEF Inv, ClientInv, ClientOK, HasCandidate, ReserveKept, At, Missed, Owning
<1>2. QED
  BY <1>1, InvHolds, PTL

(* A bucket nobody has locked is a consistent doubly linked list of the     *)
(* nodes whose keys it hashes, for every number of threads that insert and  *)
(* steal nodes under the bucket and node locks.                             *)
THEOREM ChainsHold == Spec => []ChainsConsistent
<1>1. ASSUME Inv PROVE ChainsConsistent
  <2> SUFFICES ASSUME NEW b \in Buckets, bucketLock[b] = Nil
               PROVE  /\ (first[b] = Nil) = (InBucket(b) = {})
                      /\ first[b] # Nil => first[b] \in InBucket(b) /\ meta[first[b]].prev = Nil
                      /\ \A n \in InBucket(b) :
                           /\ Hash[meta[n].key] = b
                           /\ meta[n].next # Nil => meta[n].next \in InBucket(b) /\ meta[meta[n].next].prev = n
                           /\ n # first[b] => meta[n].prev \in InBucket(b) /\ meta[meta[n].prev].next = n
    BY DEF ChainsConsistent
  <2>0. TypeOK /\ KeyInv /\ b # Nil
    BY <1>1, Constants DEF Inv
  <2>1. PICK rank \in [Nodes -> Int] : Ordered(rank)
    BY <1>1 DEF Inv, ChainInv
  <2>2. \A n \in Nodes : n \in InBucket(b) <=> meta[n].hash = b
    BY DEF InBucket
  <2>3. /\ first[b] \in Nodes \cup {Nil} /\ (first[b] # Nil => meta[first[b]].hash = b)
        /\ \A m \in Nodes : meta[m].hash = b => first[b] # Nil /\ rank[m] <= rank[first[b]]
    BY <2>0, <2>1 DEF Ordered, Heads, TypeOK
  (* Who removes or binds a node of the bucket holds its lock.              *)
  <2>4. ASSUME NEW n \in Nodes, meta[n].hash = b PROVE ~Skipped(n) /\ Hash[meta[n].key] = b
    <3>1. ~Skipped(n)
      <4> SUFFICES ASSUME NEW d \in Clients, cl[d].pc = "unlinkNext", cl[d].at = n PROVE FALSE
        BY DEF Skipped
      <4>1. ClientOK(d) /\ d # Nil
        BY <1>1, Constants DEF Inv, ClientInv
      <4>2. QED
        BY <2>4, <4>1 DEF ClientOK, OwnsOld, OldBucket
    <3>2. CASE nodeLock[n] = Nil
      BY <2>0, <2>4, <3>1, <3>2 DEF KeyInv
    <3>3. CASE nodeLock[n] # Nil
      <4>1. PICK d \in Clients : nodeLock[n] = d
        BY <2>0, <3>3 DEF TypeOK
      <4>2. ClientOK(d) /\ d # Nil
        BY <1>1, Constants DEF Inv, ClientInv
      <4>3. cl[d].pc \in Owning /\ cl[d].at = n
        BY <4>1, <4>2 DEF ClientOK, OwnsNode
      <4>4. cl[d].pc \in {"tryOld", "unlinkPrev", "unlinkNext"}
        BY <2>0, <2>4, <4>2, <4>3 DEF ClientOK, Linking, OwnsBucket, Owning, Missed, Working
      <4>5. QED
        BY <2>4, <3>1, <4>2, <4>3, <4>4 DEF ClientOK, OwnsOld, OldBucket
    <3>4. QED
      BY <3>2, <3>3
  <2>5. (first[b] = Nil) = (InBucket(b) = {})
    BY <2>2, <2>3 DEF InBucket
  <2>6. first[b] # Nil => first[b] \in InBucket(b) /\ meta[first[b]].prev = Nil
    <3> SUFFICES ASSUME first[b] # Nil, meta[first[b]].prev # Nil PROVE FALSE
      BY <2>2, <2>3
    <3>1. PICK q \in Nodes : q = meta[first[b]].prev
      BY <2>0, <2>3 DEF TypeOK, MetaNode
    <3>2. meta[q].hash = b /\ rank[first[b]] < rank[q]
      BY <2>0, <2>1, <2>3, <3>1 DEF Ordered, PrevIsHigher, Linked, Mates
    <3>3. QED
      BY <2>3, <3>2
  <2>7. ASSUME NEW n \in Nodes, meta[n].hash = b, meta[n].next # Nil
        PROVE  meta[n].next \in InBucket(b) /\ meta[meta[n].next].prev = n
    <3>1. PICK x \in Nodes : x = meta[n].next
      BY <2>0, <2>7 DEF TypeOK, MetaNode
    <3>2. meta[x].hash = b /\ rank[x] < rank[n]
      BY <2>0, <2>1, <2>7, <3>1 DEF Ordered, NextIsLower, Linked, Mates
    <3>3. PICK q \in Nodes : q = meta[x].prev /\ meta[q].hash = b /\ rank[x] < rank[q] /\ rank[q] <= rank[n]
      BY <2>0, <2>1, <2>7, <3>2 DEF Ordered, PrevIsHigher, Linked, Mates, TypeOK, MetaNode
    <3>4. rank[q] < rank[n] => rank[q] <= rank[x]
      BY <2>0, <2>1, <2>4, <2>7, <3>1, <3>3 DEF Ordered, NextIsLower, Linked, Mates
    <3>5. rank[q] = rank[n]
      BY <3>3, <3>4
    <3>6. QED
      BY <2>0, <2>1, <2>2, <2>7, <3>1, <3>2, <3>3, <3>5 DEF Ordered, Distinct, Linked, Mates
  <2>8. ASSUME NEW n \in Nodes, meta[n].hash = b, n # first[b]
        PROVE  meta[n].prev \in InBucket(b) /\ meta[meta[n].prev].next = n
    <3>1. first[b] \in Nodes /\ meta[first[b]].hash = b /\ rank[n] < rank[first[b]]
      BY <2>0, <2>1, <2>3, <2>8 DEF Ordered, Distinct, Linked, Mates
    <3>2. PICK q \in Nodes : q = meta[n].prev /\ meta[q].hash = b /\ rank[n] < rank[q]
      BY <2>0, <2>1, <2>8, <3>1 DEF Ordered, PrevIsHigher, Linked, Mates, TypeOK, MetaNode
    <3>3. PICK x \in Nodes : x = meta[q].next /\ meta[x].hash = b /\ rank[x] < rank[q] /\ rank[n] <= rank[x]
      BY <2>0, <2>1, <2>4, <2>8, <3>2 DEF Ordered, NextIsLower, Linked, Mates, TypeOK, MetaNode
    <3>4. rank[n] < rank[x] => rank[q] <= rank[x]
      BY <2>0, <2>1, <2>8, <3>2, <3>3 DEF Ordered, PrevIsHigher, Linked, Mates
    <3>5. rank[x] = rank[n]
      BY <3>2, <3>3, <3>4
    <3>6. QED
      BY <2>0, <2>1, <2>2, <2>8, <3>2, <3>3, <3>5 DEF Ordered, Distinct, Linked, Mates
  <2>9. QED
    BY <2>2, <2>4, <2>5, <2>6, <2>7, <2>8 DEF InBucket
<1>2. QED
  BY <1>1, InvHolds, PTL

----------------------------------------------------------------------------
(* The atomic table.  A node counts as bound to its key from Bind to        *)
(* UnlinkNext, or to the Bind that gives it another key of the same bucket. *)

(* Steps that leave keys, buckets, counts and states alone, and no client   *)
(* with or without a Handle, are invisible.                                 *)
LEMMA Invisible ==
  ASSUME \A n \in Nodes : /\ meta'[n].key = meta[n].key /\ meta'[n].hash = meta[n].hash
                          /\ meta'[n].ref = meta[n].ref /\ meta'[n].st = meta[n].st,
         NEW c \in Clients, OnlyMoves(c), cl[c].pc # "held", cl'[c].pc # "held"
  PROVE  UNCHANGED <<AbsTab, AbsHandle>>
<1>1. \A n \in Nodes : BoundKey(n)' = BoundKey(n)
  BY DEF BoundKey
<1>2. AbsTab' = AbsTab
  BY <1>1 DEF AbsTab
<1>3. AbsHandle' = AbsHandle
  BY DEF AbsHandle, OnlyMoves, At
<1>4. QED
  BY <1>2, <1>3

LEMMA InitRefines == Init => Table!Init
<1> SUFFICES ASSUME Init PROVE Table!Init
  OBVIOUS
<1>1. \A n \in Nodes : BoundKey(n) = NoKey
  BY DEF Init, BoundKey
<1>2. AbsTab = [n \in Nodes |-> Table!FreshNode]
  BY <1>1 DEF Init, AbsTab, Table!FreshNode
<1>3. AbsHandle = [c \in Clients |-> Table!NoHandle]
  BY DEF Init, AbsHandle, At, Idle, Table!NoHandle
<1>4. QED
  BY <1>2, <1>3 DEF Table!Init

LEMMA QuietRefines ==
  ASSUME Inv, NEW c \in Clients,
         \/ \E op \in Ops, k \in Keys : Call(c, op, k)
         \/ WalkOn(c) \/ FindMiss(c) \/ ExistReturns(c) \/ FetchNode(c) \/ FetchNodeLoad(c)
         \/ FetchNodeStore(c) \/ SkipReferenced(c) \/ ClaimNode(c) \/ GiveUp(c) \/ TryOldBucket(c)
  PROVE  UNCHANGED <<AbsTab, AbsHandle>>
<1>0. cl \in [Clients -> Local] /\ cl[c] \in Local
  BY Facts
<1>1. cl[c].pc # "held" /\ meta' = meta
  BY DEF Call, WalkOn, FindMiss, ExistReturns, FetchNode, FetchNodeLoad, FetchNodeStore, SkipReferenced,
         ClaimNode, GiveUp, TryOldBucket, At
<1>2. OnlyMoves(c) /\ cl'[c].pc # "held"
  BY <1>0 DEF Call, WalkOn, FindMiss, ExistReturns, FetchNode, FetchNodeLoad, FetchNodeStore, SkipReferenced,
         ClaimNode, GiveUp, TryOldBucket, At, OnlyMoves, Goto, Idle, Local
<1>3. QED
  BY <1>1, <1>2, Invisible

LEMMA UnlinkPrevRefines ==
  ASSUME Inv, NEW c \in Clients, UnlinkPrev(c)
  PROVE  UNCHANGED <<AbsTab, AbsHandle>>
<1>0. /\ cl \in [Clients -> Local] /\ cl[c] \in Local /\ meta \in [Nodes -> MetaNode] /\ cl[c].at \in Nodes
      /\ cl[c].pc = "unlinkPrev"
  BY Facts DEF UnlinkPrev, At, Missed, Owning
<1>1. \A n \in Nodes : /\ meta'[n].key = meta[n].key /\ meta'[n].hash = meta[n].hash
                       /\ meta'[n].ref = meta[n].ref /\ meta'[n].st = meta[n].st
  BY <1>0 DEF UnlinkPrev, MetaNode
<1>2. OnlyMoves(c) /\ cl'[c].pc # "held"
  BY <1>0 DEF UnlinkPrev, Goto, OnlyMoves, Local
<1>3. QED
  BY <1>0, <1>1, <1>2, Invisible

(* A node that is linked is not bound yet: its old key belongs elsewhere.   *)
LEMMA LinkRefines ==
  ASSUME Inv, NEW c \in Clients, Link(c)
  PROVE  UNCHANGED <<AbsTab, AbsHandle>>
<1> DEFINE n == cl[c].at
           x == first[Bucket(c)]
<1>0. /\ cl \in [Clients -> Local] /\ cl[c] \in Local /\ meta \in [Nodes -> MetaNode] /\ n \in Nodes
      /\ cl[c].pc = "link" /\ meta[n].hash = Nil /\ x \in Nodes \cup {Nil} /\ Bucket(c) \in Buckets
      /\ meta[n].key = NoKey \/ Hash[meta[n].key] # Bucket(c)
  BY Facts DEF Link, At, Missed, Owning, Working, ClientOK, Linking, TypeOK
<1>1. \A m \in Nodes : /\ meta'[m].key = meta[m].key /\ meta'[m].ref = meta[m].ref /\ meta'[m].st = meta[m].st
                       /\ m # n => meta'[m].hash = meta[m].hash
                       /\ m = n => meta'[m].hash = Bucket(c)
  <2>1. /\ Pushed(x, n) \in [Nodes -> MetaNode]
        /\ \A m \in Nodes : /\ Pushed(x, n)[m].key = meta[m].key /\ Pushed(x, n)[m].ref = meta[m].ref
                            /\ Pushed(x, n)[m].st = meta[m].st /\ Pushed(x, n)[m].hash = meta[m].hash
    BY <1>0, PrevSet DEF Pushed
  <2>2. meta' = Placed(Pushed(x, n), n, x, Bucket(c))
    BY DEF Link, Placed
  <2>3. QED
    <3>1. IsPlaced(meta', Pushed(x, n), n, x, Bucket(c))
      BY <1>0, <2>1, <2>2, LinkSets, Zenon
    <3>2. QED
      BY <2>1, <3>1 DEF IsPlaced
<1>2. \A m \in Nodes : BoundKey(m)' = BoundKey(m)
  BY <1>0, <1>1 DEF BoundKey
<1>3. AbsTab' = AbsTab
  BY <1>1, <1>2 DEF AbsTab
<1>4. OnlyMoves(c) /\ cl'[c].pc = "bind"
  BY <1>0 DEF Link, Goto, OnlyMoves, Local
<1>5. AbsHandle' = AbsHandle
  BY <1>0, <1>4 DEF AbsHandle, OnlyMoves, At
<1>6. QED
  BY <1>3, <1>5

(* The table changes as the record fields of one node say.                  *)
LEMMA AbsTabIs ==
  ASSUME NEW n \in Nodes, NEW k, NEW r, NEW s,
         BoundKey(n)' = k, meta'[n].ref = r, meta'[n].st = s,
         \A m \in Nodes : m # n => /\ BoundKey(m)' = BoundKey(m)
                                   /\ meta'[m].ref = meta[m].ref /\ meta'[m].st = meta[m].st
  PROVE  AbsTab' = [AbsTab EXCEPT ![n] = [key |-> k, ref |-> r, st |-> s]]
  BY DEF AbsTab

LEMMA AbsTabAt ==
  ASSUME NEW n \in Nodes
  PROVE  /\ AbsTab[n] = [key |-> BoundKey(n), ref |-> meta[n].ref, st |-> meta[n].st]
         /\ AbsTab[n].key = BoundKey(n) /\ AbsTab[n].ref = meta[n].ref /\ AbsTab[n].st = meta[n].st
         /\ AbsTab = [m \in Nodes |-> AbsTab[m]]
  BY DEF AbsTab

LEMMA UnlinkNextRefines ==
  ASSUME Inv, NEW c \in Clients, UnlinkNext(c)
  PROVE  \E n \in Nodes : Table!Evict(n)
<1>a. PICK n \in Nodes : n = cl[c].at
  BY Facts, UnlinkNextWhen DEF Missed, Owning
<1> DEFINE x == meta[n].next
<1>0. /\ cl \in [Clients -> Local] /\ cl[c] \in Local /\ meta \in [Nodes -> MetaNode] /\ n \in Nodes
      /\ cl[c].pc = "unlinkNext" /\ meta[n].ref = 0 /\ x \in Nodes \cup {Nil}
      /\ meta[n].hash \in Buckets /\ meta[n].key \in Keys /\ Hash[meta[n].key] = meta[n].hash
  <2>1. /\ cl[c].pc = "unlinkNext" /\ cl[c].at \in Nodes /\ ClientOK(c) /\ meta \in [Nodes -> MetaNode]
    BY Facts, UnlinkNextWhen DEF Missed, Owning
  <2>2. QED
    BY <1>a, <2>1, Facts DEF ClientOK, OwnsNode, OwnsOld, OldBucket, Owning, MetaNode
<1>1. \A m \in Nodes : /\ meta'[m].key = meta[m].key /\ meta'[m].ref = meta[m].ref /\ meta'[m].st = meta[m].st
                       /\ m # n => meta'[m].hash = meta[m].hash
                       /\ m = n => meta'[m].hash = Nil
  <2> DEFINE cut == IF x = Nil THEN meta ELSE [meta EXCEPT ![x].prev = meta[n].prev]
  <2>0. PICK q \in Nodes \cup {Nil} : q = meta[n].prev
    BY <1>0 DEF MetaNode
  <2>1. /\ cut \in [Nodes -> MetaNode]
        /\ \A m \in Nodes : /\ cut[m].key = meta[m].key /\ cut[m].ref = meta[m].ref
                            /\ cut[m].hash = meta[m].hash /\ cut[m].st = meta[m].st
    <3>1. meta \in [Nodes -> MetaNode] /\ x \in Nodes \cup {Nil}
      BY <1>0
    <3> HIDE DEF x
    <3>2. QED
      BY <2>0, <3>1, PrevSet
  <2>2. meta' = Cleared(cut, n)
    BY <1>a DEF UnlinkNext, Cleared
  <2> HIDE DEF cut
  <2>3. QED
    <3>1. IsCleared(meta', cut, n)
      BY <2>1, <2>2, ClearSets, Zenon
    <3>2. QED
      BY <2>1, <3>1 DEF IsCleared
<1>2. BoundKey(n) = meta[n].key /\ BoundKey(n) # NoKey /\ BoundKey(n)' = NoKey
      /\ \A m \in Nodes : m # n => BoundKey(m)' = BoundKey(m)
  BY <1>0, <1>1, Constants DEF BoundKey
<1>3. AbsTab' = [AbsTab EXCEPT ![n] = [key |-> NoKey, ref |-> meta[n].ref, st |-> meta[n].st]]
  BY <1>1, <1>2, AbsTabIs
<1>4. AbsTab' = [AbsTab EXCEPT ![n].key = NoKey]
  BY <1>0, <1>3 DEF AbsTab
<1>5. OnlyMoves(c) /\ cl'[c].pc = "link"
  BY <1>0 DEF UnlinkNext, Goto, OnlyMoves, Local
<1>6. AbsHandle' = AbsHandle
  BY <1>0, <1>5 DEF AbsHandle, OnlyMoves, At
<1>7. AbsTab[n].ref = 0 /\ AbsTab[n].key # NoKey
  BY <1>0, <1>2, AbsTabAt
<1>8. QED
  BY <1>0, <1>4, <1>6, <1>7 DEF Table!Evict

(* A walk that hits is Get finding a bound node.                            *)
LEMMA FindHitRefines ==
  ASSUME Inv, NEW c \in Clients, FindHit(c)
  PROVE  \E k \in Keys, n \in Nodes, reload \in BOOLEAN : Table!GetHit(c, k, n, reload)
<1>a. PICK n \in Nodes : n = cl[c].at
  BY Facts DEF FindHit, Matches, Local
<1>b. PICK k \in Keys : k = cl[c].key
  BY Facts DEF FindHit, At, Working
<1>c. PICK reload \in BOOLEAN : reload = (Bypass /\ cl[c].op = "load")
  OBVIOUS
<1>0. /\ cl \in [Clients -> Local] /\ cl[c] \in Local /\ meta \in [Nodes -> MetaNode] /\ cl[c].pc = "walk"
      /\ Hash[k] \in Buckets /\ meta[n].key = k
  BY <1>a, <1>b, Facts, Constants DEF FindHit, Matches, At
<1>1. meta[n].hash = Hash[k]
  BY <1>0, <1>a, <1>b, Constants DEF Inv, ChainInv, Walks, WalkOK, Bucket
<1>2. meta' = [meta EXCEPT ![n].ref = @ + 1, ![n].st = HitState(meta[n], reload)]
  BY <1>a, <1>c DEF FindHit, Hit
<1>3. /\ \A m \in Nodes : meta'[m].key = meta[m].key /\ meta'[m].hash = meta[m].hash
      /\ \A m \in Nodes : m # n => meta'[m].ref = meta[m].ref /\ meta'[m].st = meta[m].st
      /\ meta'[n].ref = meta[n].ref + 1 /\ meta'[n].st = HitState(meta[n], reload)
  BY <1>0, <1>2 DEF MetaNode
<1>4. /\ \A m \in Nodes : BoundKey(m)' = BoundKey(m)
      /\ BoundKey(n) = k
  BY <1>0, <1>1, <1>3, Constants DEF BoundKey
<1>5. AbsTab' = [AbsTab EXCEPT ![n] = [key |-> k, ref |-> meta[n].ref + 1, st |-> HitState(meta[n], reload)]]
  BY <1>3, <1>4, AbsTabIs
<1>6. /\ AbsTab[n] = [key |-> k, ref |-> meta[n].ref, st |-> meta[n].st]
      /\ Table!HitState(AbsTab[n], reload) = HitState(meta[n], reload)
      /\ Table!IsOwner(AbsTab[n]) = IsOwner(meta[n])
  BY <1>4, AbsTabAt DEF HitState, Table!HitState, IsOwner, Table!IsOwner
<1>7. AbsTab' = Table!Hit(AbsTab, n, reload)
  BY <1>5, <1>6 DEF AbsTab, Table!Hit
<1>8. /\ OnlyMoves(c) /\ cl'[c].pc = "held" /\ cl'[c].at = n /\ cl'[c].key = k
      /\ cl'[c].own = IsOwner(meta[n])
  BY <1>0, <1>a, <1>b DEF FindHit, OnlyMoves, Local
<1>9. AbsHandle' = [AbsHandle EXCEPT ![c] = [node |-> n, key |-> k, own |-> Table!IsOwner(AbsTab[n])]]
  BY <1>0, <1>6, <1>8 DEF AbsHandle, OnlyMoves, At
<1>10. ~Table!Holds(c)
  BY <1>0 DEF Table!Holds, Table!NoHandle, AbsHandle, At
<1>11. AbsTab[n].key = k
  BY <1>4, AbsTabAt
<1>12. Table!GetHit(c, k, n, reload)
  BY <1>7, <1>9, <1>10, <1>11 DEF Table!GetHit
<1>13. QED
  BY <1>12

(* Bind is Get for a key that has no node: the client's walk has passed the *)
(* whole bucket, and nothing has entered it since.                          *)
LEMMA BindRefines ==
  ASSUME Inv, NEW c \in Clients, Bind(c)
  PROVE  \E k \in Keys, n \in Nodes : Table!GetMiss(c, k, n)
<1>a. PICK n \in Nodes : n = cl[c].at
  BY Facts DEF Bind, At, Missed, Owning
<1>b. PICK k \in Keys : k = cl[c].key
  BY Facts DEF Bind, At, Working, Missed, Owning
<1>0. /\ cl \in [Clients -> Local] /\ cl[c] \in Local /\ meta \in [Nodes -> MetaNode] /\ cl[c].pc = "bind"
      /\ Hash[k] \in Buckets /\ meta[n].hash = Hash[k] /\ meta[n].ref = 0
      /\ \A m \in Nodes : meta[m].hash = Hash[k] => meta[m].key # k
  BY <1>a, <1>b, Facts, Constants
     DEF Bind, At, ClientOK, Linking, OwnsNode, KeyAbsent, Bucket, Missed, Owning
<1>1. meta' = [meta EXCEPT ![n].ref = @ + 1, ![n].key = k, ![n].st = "LOADING"]
  BY <1>a, <1>b DEF Bind, Claim
<1>2. /\ \A m \in Nodes : meta'[m].hash = meta[m].hash
      /\ \A m \in Nodes : m # n => /\ meta'[m].ref = meta[m].ref /\ meta'[m].st = meta[m].st
                                   /\ meta'[m].key = meta[m].key
      /\ meta'[n].ref = meta[n].ref + 1 /\ meta'[n].st = "LOADING" /\ meta'[n].key = k
  BY <1>0, <1>1 DEF MetaNode
<1>3. /\ \A m \in Nodes : m # n => BoundKey(m)' = BoundKey(m)
      /\ BoundKey(n)' = k /\ \A m \in Nodes : BoundKey(m) # k
  BY <1>0, <1>2, Constants DEF BoundKey
<1>4. AbsTab' = [AbsTab EXCEPT ![n] = [key |-> k, ref |-> meta[n].ref + 1, st |-> "LOADING"]]
  BY <1>2, <1>3, AbsTabIs
<1>5. AbsTab' = Table!Claim(AbsTab, n, k)
  BY <1>4, AbsTabAt DEF AbsTab, Table!Claim
<1>6. Table!Absent(k) /\ AbsTab[n].ref = 0
  BY <1>0, <1>3, AbsTabAt DEF Table!Absent
<1>7. /\ OnlyMoves(c) /\ cl'[c].pc = "held" /\ cl'[c].at = n /\ cl'[c].key = k /\ cl'[c].own = TRUE
  BY <1>0, <1>a, <1>b DEF Bind, OnlyMoves, Local
<1>8. AbsHandle' = [AbsHandle EXCEPT ![c] = [node |-> n, key |-> k, own |-> TRUE]]
  BY <1>0, <1>7 DEF AbsHandle, OnlyMoves, At
<1>9. ~Table!Holds(c)
  BY <1>0 DEF Table!Holds, Table!NoHandle, AbsHandle, At
<1>10. QED
  BY <1>5, <1>6, <1>8, <1>9 DEF Table!GetMiss

LEMMA HandleAt ==
  ASSUME Inv, NEW c \in Clients, cl[c].pc = "held"
  PROVE  /\ cl[c].at \in Nodes /\ cl[c].key \in Keys
         /\ AbsHandle[c].node = cl[c].at /\ AbsHandle[c].own = cl[c].own
         /\ Table!Holds(c)
<1>1. cl[c].at \in Nodes /\ cl[c].key \in Keys
  BY DEF Inv, ClientInv, ClientOK, HasCandidate
<1>2. AbsHandle[c] = [node |-> cl[c].at, key |-> cl[c].key, own |-> cl[c].own]
  BY DEF AbsHandle, At
<1>3. QED
  BY <1>1, <1>2, Constants DEF Table!Holds, Table!NoHandle

LEMMA MarkStateRefines ==
  ASSUME Inv, NEW c \in Clients, NEW s \in {"READY", "FAILED"}, MarkState(c, s)
  PROVE  Table!OwnerMarks(c, s)
<1>a. PICK n \in Nodes : n = cl[c].at
  BY HandleAt DEF MarkState, At
<1>0. /\ meta \in [Nodes -> MetaNode] /\ cl' = cl /\ meta[n].st = "LOADING" /\ cl[c].own
      /\ Table!Holds(c) /\ AbsHandle[c].node = n /\ AbsHandle[c].own
  BY <1>a, Facts, HandleAt DEF MarkState, At
<1>1. meta' = [meta EXCEPT ![n].st = IF @ = "LOADING" THEN s ELSE @]
  BY <1>a DEF MarkState, Mark
<1>2. /\ \A m \in Nodes : /\ meta'[m].key = meta[m].key /\ meta'[m].hash = meta[m].hash
                          /\ meta'[m].ref = meta[m].ref
      /\ \A m \in Nodes : m # n => meta'[m].st = meta[m].st
      /\ meta'[n].st = s
  BY <1>0, <1>1 DEF MetaNode
<1>3. \A m \in Nodes : BoundKey(m)' = BoundKey(m)
  BY <1>2 DEF BoundKey
<1>4. AbsTab' = [AbsTab EXCEPT ![n] = [key |-> BoundKey(n), ref |-> meta[n].ref, st |-> s]]
  BY <1>2, <1>3, AbsTabIs
<1>5. AbsTab' = Table!Mark(AbsTab, n, s)
  BY <1>0, <1>4, AbsTabAt DEF AbsTab, Table!Mark
<1>6. AbsHandle' = AbsHandle
  BY <1>0 DEF AbsHandle, At
<1>7. QED
  BY <1>0, <1>5, <1>6 DEF Table!OwnerMarks

LEMMA ReleaseHandleRefines ==
  ASSUME Inv, NEW c \in Clients, ReleaseHandle(c)
  PROVE  Table!DropHandle(c)
<1>a. PICK n \in Nodes : n = cl[c].at
  BY HandleAt DEF ReleaseHandle, At
<1>0. /\ meta \in [Nodes -> MetaNode] /\ Table!Holds(c) /\ AbsHandle[c].node = n /\ cl \in [Clients -> Local]
  BY <1>a, Facts, HandleAt DEF ReleaseHandle, At
<1>1. meta' = [meta EXCEPT ![n].ref = @ - 1]
  BY <1>a DEF ReleaseHandle, Release
<1>2. /\ \A m \in Nodes : /\ meta'[m].key = meta[m].key /\ meta'[m].hash = meta[m].hash
                          /\ meta'[m].st = meta[m].st
      /\ \A m \in Nodes : m # n => meta'[m].ref = meta[m].ref
      /\ meta'[n].ref = meta[n].ref - 1
  BY <1>0, <1>1 DEF MetaNode
<1>3. \A m \in Nodes : BoundKey(m)' = BoundKey(m)
  BY <1>2 DEF BoundKey
<1>4. AbsTab' = [AbsTab EXCEPT ![n] = [key |-> BoundKey(n), ref |-> meta[n].ref - 1, st |-> meta[n].st]]
  BY <1>2, <1>3, AbsTabIs
<1>5. AbsTab' = Table!Release(AbsTab, n)
  BY <1>4, AbsTabAt DEF AbsTab, Table!Release
<1>6. OnlyMoves(c) /\ cl'[c].pc # "held"
  BY <1>0 DEF ReleaseHandle, OnlyMoves, Idle
<1>7. AbsHandle' = [AbsHandle EXCEPT ![c] = Table!NoHandle]
  BY <1>6 DEF AbsHandle, OnlyMoves, At, Table!NoHandle
<1>8. QED
  BY <1>0, <1>5, <1>7 DEF Table!DropHandle

LEMMA NextRefines == Inv /\ [Next]_vars => [Table!Next]_(Table!vars)
<1> SUFFICES ASSUME Inv, [Next]_vars PROVE [Table!Next]_(Table!vars)
  OBVIOUS
<1>1. CASE UNCHANGED vars
  <2>1. \A n \in Nodes : BoundKey(n)' = BoundKey(n)
    BY <1>1 DEF vars, BoundKey
  <2>2. AbsTab' = AbsTab /\ AbsHandle' = AbsHandle
    BY <1>1, <2>1 DEF vars, AbsTab, AbsHandle, At
  <2>3. QED
    BY <2>2 DEF Table!vars
<1>2. ASSUME NEW c \in Clients, NEW op \in Ops, NEW k \in Keys, Call(c, op, k)
      PROVE  UNCHANGED Table!vars
  BY <1>2, QuietRefines DEF Table!vars
<1>3. ASSUME NEW c \in Clients, Step(c) PROVE Table!Next \/ UNCHANGED Table!vars
  <2>1. CASE FindHit(c)
    BY <2>1, FindHitRefines DEF Table!Next
  <2>2. CASE UnlinkNext(c)
    BY <2>2, UnlinkNextRefines DEF Table!Next
  <2>3. CASE Bind(c)
    BY <2>3, BindRefines DEF Table!Next
  <2>4. CASE UnlinkPrev(c) \/ Link(c)
    BY <2>4, UnlinkPrevRefines, LinkRefines DEF Table!vars
  <2>5. CASE ~(FindHit(c) \/ UnlinkNext(c) \/ Bind(c) \/ UnlinkPrev(c) \/ Link(c))
    BY <1>3, <2>5, QuietRefines DEF Step, Table!vars
  <2>6. QED
    BY <2>1, <2>2, <2>3, <2>4, <2>5
<1>4. ASSUME NEW c \in Clients, NEW s \in {"READY", "FAILED"}, MarkState(c, s) PROVE Table!Next
  BY <1>4, MarkStateRefines DEF Table!Next
<1>5. ASSUME NEW c \in Clients, ReleaseHandle(c) PROVE Table!Next
  BY <1>5, ReleaseHandleRefines DEF Table!Next
<1>6. QED
  BY <1>1, <1>2, <1>3, <1>4, <1>5 DEF Next

(* TransBuffer implements CacheTable for every number of nodes, keys,       *)
(* buckets and threads: under its bucket and node locks Get, Alloc, Remove, *)
(* MoveTo, MarkReady, MarkFailed and Release are atomic to their callers.   *)
THEOREM TableImplemented == Spec => RefinesTable
<1>1. QED
  BY InitRefines, NextRefines, InvHolds, PTL DEF RefinesTable, Spec, Table!Spec

----------------------------------------------------------------------------
(* Locks.  A client that holds a node and does not merely try for the old   *)
(* bucket holds the bucket the node is in.  So a client that waits for a    *)
(* node of a bucket it holds waits for one that is about to try and, at     *)
(* worst, to give up; and one that waits for a candidate waits for a client *)
(* that is either free to go on or waits in this way itself.                *)

(* The atomic table with what is proved about it.                           *)
TableFacts == INSTANCE CacheTableProofs WITH tab <- AbsTab, handle <- AbsHandle

LEMMA SameTable ==
  /\ Table!Init => TableFacts!Init
  /\ [Table!Next]_(Table!vars) => [TableFacts!Next]_(TableFacts!vars)
<1>1. Table!Init => TableFacts!Init
  BY DEF Table!Init, TableFacts!Init, Table!FreshNode, TableFacts!FreshNode, Table!NoHandle, TableFacts!NoHandle
<1>2. UNCHANGED Table!vars => UNCHANGED TableFacts!vars
  BY DEF Table!vars, TableFacts!vars
<1>3. \A c \in Clients : Table!DropHandle(c) => TableFacts!DropHandle(c)
  BY DEF Table!DropHandle, TableFacts!DropHandle, Table!Holds, TableFacts!Holds,
         Table!NoHandle, TableFacts!NoHandle, Table!Release, TableFacts!Release
<1>4. \A c \in Clients, s \in {"READY", "FAILED"} : Table!OwnerMarks(c, s) => TableFacts!OwnerMarks(c, s)
  BY DEF Table!OwnerMarks, TableFacts!OwnerMarks, Table!Holds, TableFacts!Holds,
         Table!NoHandle, TableFacts!NoHandle, Table!Mark, TableFacts!Mark
<1>5. \A n \in Nodes : Table!Evict(n) => TableFacts!Evict(n)
  BY DEF Table!Evict, TableFacts!Evict
<1>6. \A c \in Clients, k \in Keys, n \in Nodes : Table!GetMiss(c, k, n) => TableFacts!GetMiss(c, k, n)
  BY DEF Table!GetMiss, TableFacts!GetMiss, Table!Holds, TableFacts!Holds, Table!NoHandle, TableFacts!NoHandle,
         Table!Absent, TableFacts!Absent, Table!Claim, TableFacts!Claim
<1>7. \A c \in Clients, k \in Keys, n \in Nodes, reload \in BOOLEAN :
        Table!GetHit(c, k, n, reload) => TableFacts!GetHit(c, k, n, reload)
  BY DEF Table!GetHit, TableFacts!GetHit, Table!Holds, TableFacts!Holds, Table!NoHandle, TableFacts!NoHandle,
         Table!Hit, TableFacts!Hit, Table!HitState, TableFacts!HitState, Table!IsOwner, TableFacts!IsOwner
<1>8. Table!Next => TableFacts!Next
  BY <1>3, <1>4, <1>5, <1>6, <1>7 DEF Table!Next, TableFacts!Next
<1>9. QED
  BY <1>1, <1>2, <1>8

(* A reference count is a number of handles, hence never negative.          *)
CountsOK == \A n \in Nodes : meta[n].ref \in Nat

LEMMA CountsNatural == Spec => []CountsOK
<1>1. Spec => Table!Spec
  BY TableImplemented, PTL DEF RefinesTable
<1>2. TableFacts!Init => TableFacts!TableInv
  BY TableFacts!InitTable, ClientsAssumption, NoKeyAssumption DEF IsFiniteSet, TableFacts!IsFiniteSet
<1>3. TableFacts!TableInv /\ [TableFacts!Next]_(TableFacts!vars) => TableFacts!TableInv'
  BY TableFacts!NextTable, ClientsAssumption, NoKeyAssumption DEF IsFiniteSet, TableFacts!IsFiniteSet
<1>4. TableFacts!TableInv => CountsOK
  BY DEF CountsOK, TableFacts!TableInv, TableFacts!TypeOK, TableFacts!Node, AbsTab
<1>5. QED
  BY <1>1, <1>2, <1>3, <1>4, SameTable, PTL DEF Table!Spec

LEMMA HolderOwnsBucket ==
  ASSUME Inv, NEW d \in Clients, NEW x \in Nodes, nodeLock[x] = d
  PROVE  /\ cl[d].pc \in Owning /\ cl[d].at = x
         /\ cl[d].pc # "tryOld" /\ meta[x].hash # Nil => bucketLock[meta[x].hash] = d
<1>1. ClientOK(d)
  BY DEF Inv, ClientInv
<1>2. cl[d].pc \in Owning /\ cl[d].at = x
  BY <1>1 DEF ClientOK, OwnsNode
<1>3. CASE cl[d].pc \in {"tryOld", "unlinkPrev", "unlinkNext"}
  BY <1>1, <1>2, <1>3 DEF ClientOK, OwnsOld, OldBucket
<1>4. CASE cl[d].pc \in {"link", "bind"}
  BY <1>1, <1>2, <1>4 DEF ClientOK, OwnsBucket, Linking, Working, Missed, Owning
<1>5. QED
  BY <1>2, <1>3, <1>4 DEF Owning

(* Whoever waits inside a bucket it holds waits for a client that can move. *)
LEMMA HolderMoves ==
  ASSUME Inv, NEW c \in Clients, NEW x \in Nodes, meta[x].hash # Nil, bucketLock[meta[x].hash] = c,
         nodeLock[x] # Nil, nodeLock[x] # c
  PROVE  \E d \in Clients : InCall(d) /\ CanStep(d)
<1>1. PICK d \in Clients : nodeLock[x] = d
  BY DEF Inv, TypeOK
<1>2. cl[d].pc = "tryOld"
  BY <1>1, HolderOwnsBucket, Zenon
<1>3. InCall(d) /\ CanStep(d)
  BY <1>2 DEF InCall, CanStep, At, TryLockFails
<1>4. QED
  BY <1>3

LEMMA InsideBucket ==
  ASSUME Inv, NEW c \in Clients, cl[c].pc \in {"walk", "unlinkPrev", "unlinkNext", "link"}
  PROVE  \E d \in Clients : InCall(d) /\ CanStep(d)
<1> SUFFICES ASSUME ~CanStep(c) PROVE \E d \in Clients : InCall(d) /\ CanStep(d)
  BY DEF InCall
<1>0. /\ TypeOK /\ ClientOK(c) /\ c # Nil /\ cl[c].key \in Keys
      /\ Bucket(c) \in Buckets /\ bucketLock[Bucket(c)] = c /\ Bucket(c) # Nil
  BY Constants DEF Inv, ClientInv, ClientOK, OwnsBucket, Working, Missed, Owning, Bucket
<1>1. PICK rank \in [Nodes -> Int] : Ordered(rank) /\ Walks(rank)
  BY DEF Inv, ChainInv
<1>2. CASE cl[c].pc = "walk"
  <2>1. cl[c].at \in Nodes /\ nodeLock[cl[c].at] # Nil /\ meta[cl[c].at].hash = Bucket(c)
    BY <1>0, <1>1, <1>2 DEF CanStep, At, Unlocked, Walks, WalkOK, TypeOK, Local
  <2>2. nodeLock[cl[c].at] # c
    BY <1>0, <1>2, <2>1 DEF ClientOK, OwnsNode, Owning
  <2>3. QED
    BY <1>0, <2>1, <2>2, HolderMoves
<1>3. CASE cl[c].pc \in {"unlinkPrev", "unlinkNext"}
  <2>0. /\ cl[c].at \in Nodes /\ OldBucket(c) \in Buckets /\ OldBucket(c) # Nil /\ bucketLock[OldBucket(c)] = c
        /\ meta[cl[c].at].hash = OldBucket(c) /\ Linked(cl[c].at)
    BY <1>0, <1>3, Constants DEF ClientOK, HasCandidate, OwnsOld, OldBucket, Linked, Missed, Owning
  <2>1. PICK x \in Nodes : nodeLock[x] # Nil /\ (x = meta[cl[c].at].prev \/ x = meta[cl[c].at].next)
    BY <1>0, <1>3, <2>0 DEF CanStep, At, Unlocked, TypeOK, MetaNode
  <2>2. meta[x].hash = OldBucket(c) /\ x # cl[c].at
    BY <1>1, <2>0, <2>1, Constants DEF Ordered, PrevIsHigher, NextIsLower, Mates
  <2>3. nodeLock[x] # c
    BY <1>0, <2>1, <2>2 DEF ClientOK, OwnsNode
  <2>4. QED
    BY <2>0, <2>1, <2>2, <2>3, HolderMoves
<1>4. CASE cl[c].pc = "link"
  <2>1. PICK x \in Nodes : x = first[Bucket(c)] /\ nodeLock[x] # Nil
    BY <1>0, <1>4 DEF CanStep, At, Unlocked, TypeOK
  <2>2. meta[x].hash = Bucket(c)
    BY <1>0, <1>1, <2>1, Constants DEF Ordered, Heads
  <2>3. nodeLock[x] # c
    BY <1>0, <1>4, <2>1, <2>2 DEF ClientOK, OwnsNode, Linking
  <2>4. QED
    BY <1>0, <2>1, <2>2, <2>3, HolderMoves
<1>5. QED
  BY <1>2, <1>3, <1>4

(* Whatever the threads are in the middle of, one of them can go on: the    *)
(* bucket mutexes and the node locks are never waited for in a circle.      *)
THEOREM LocksNeverDeadlock == Spec => []NoLockDeadlock
<1>1. ASSUME Inv, CountsOK PROVE NoLockDeadlock
  <2> SUFFICES ASSUME NEW c \in Clients, InCall(c), ~CanStep(c)
               PROVE  \E d \in Clients : InCall(d) /\ CanStep(d)
    BY DEF NoLockDeadlock
  <2>0. TypeOK /\ ClientOK(c) /\ cl[c] \in Local
    BY <1>1 DEF Inv, ClientInv, TypeOK
  <2>1. cl[c].pc \in {"walk", "claim", "unlinkPrev", "unlinkNext", "link"}
    BY <2>0 DEF InCall, CanStep, At, TryLockFails, Local, Working, Missed, Owning
  <2>2. CASE cl[c].pc = "claim"
    <3>1. cl[c].at \in Nodes
      BY <2>0, <2>2 DEF ClientOK, HasCandidate, Missed
    <3>2. nodeLock[cl[c].at] # Nil
      BY <1>1, <2>2, <3>1 DEF CountsOK, CanStep, At, Unlocked, Unreferenced
    <3>3. PICK d \in Clients : nodeLock[cl[c].at] = d
      BY <2>0, <3>1, <3>2 DEF TypeOK
    <3>4. cl[d].pc \in Owning
      BY <1>1, <3>1, <3>3, HolderOwnsBucket
    <3>5. CASE cl[d].pc \in {"tryOld", "bind"}
      BY <3>5 DEF InCall, CanStep, At, TryLockFails
    <3>6. CASE cl[d].pc \in {"unlinkPrev", "unlinkNext", "link"}
      BY <1>1, <3>6, InsideBucket
    <3>7. QED
      BY <3>4, <3>5, <3>6 DEF Owning
  <2>3. QED
    BY <1>1, <2>1, <2>2, InsideBucket
<1>2. QED
  BY <1>1, InvHolds, CountsNatural, PTL
=============================================================================
