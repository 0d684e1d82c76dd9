---------------------------- MODULE TransBuffer ----------------------------
(***************************************************************************)
(* The hash table of cached nodes, lock by lock                            *)
(* (ucm/store/cache/cc/trans_buffer.cc).  Buckets are chains of nodes      *)
(* linked through prev and next; a bucket mutex covers Get and Exist, a    *)
(* node spin lock covers each access to a node's metadata.  Get locks its  *)
(* bucket and then nodes; Alloc holds its bucket and a node and may only   *)
(* try the node's old bucket.  A client is one shard transfer: it Gets a   *)
(* node, settles its state if it is the owner and drops the Handle.        *)
(*                                                                         *)
(* SharedBufferStrategy takes the next candidate node under a lock,        *)
(* LocalBufferStrategy with a plain read and a plain write of freeHead     *)
(* (the release build loads it once and stores it once).                   *)
(***************************************************************************)
EXTENDS TableClients

CONSTANTS Buckets,
          Hash,       \* Hash[k]: the bucket of key k
          NNode,      \* number of nodes; Nodes = 0 .. NNode - 1
          Reserved,   \* loadExclusiveBufferNumber: nodes only a load may claim
          Shared,     \* SharedBufferStrategy (TRUE) or LocalBufferStrategy
          Bypass,     \* bypassHitOnLoad_
          Ops,        \* what the clients do: a subset of {"load", "dump", "exist"}
          Nil         \* invalidIndex, and "no one" for a lock

ASSUME TableAssumption ==
  /\ NNode \in Nat /\ Nodes = 0 .. NNode - 1
  /\ Reserved \in Nat /\ 2 * Reserved <= NNode /\ NNode > 0
  /\ Hash \in [Keys -> Buckets]
  /\ Nil \notin Nodes /\ Nil \notin Buckets /\ Nil \notin Clients
  /\ Ops \subseteq {"load", "dump", "exist"}

VARIABLES meta,        \* BufferMetaNode of every node
          first,       \* header buckets: the first node of each chain
          freeHead,    \* header freeHead
          bucketLock,  \* who holds each bucket mutex
          nodeLock,    \* who holds each node lock across steps
          cl           \* the clients: where they are and their locals

vars == <<meta, first, freeHead, bucketLock, nodeLock, cl>>

Idle == [pc |-> "idle", op |-> "load", key |-> NoKey, at |-> Nil, own |-> FALSE]

Init ==
  /\ meta = [n \in Nodes |-> [key |-> NoKey, ref |-> 0, st |-> "LOADING",
                              hash |-> Nil, prev |-> Nil, next |-> Nil]]
  /\ first = [b \in Buckets |-> Nil]
  /\ freeHead = 0
  /\ bucketLock = [b \in Buckets |-> Nil]
  /\ nodeLock = [n \in Nodes |-> Nil]
  /\ cl = [c \in Clients |-> Idle]

At(c, pc) == cl[c].pc = pc
Bucket(c) == Hash[cl[c].key]
Unlocked(n) == n # Nil => nodeLock[n] = Nil
Goto(c, pc) == cl' = [cl EXCEPT ![c].pc = pc]
Unlock(lock, x) == [lock EXCEPT ![x] = Nil]

----------------------------------------------------------------------------
(* Get and Exist: lock the bucket and walk its chain.                       *)

Call(c, op, k) ==
  /\ At(c, "idle")
  /\ bucketLock[Hash[k]] = Nil
  /\ bucketLock' = [bucketLock EXCEPT ![Hash[k]] = c]
  /\ cl' = [cl EXCEPT ![c] = [pc |-> "walk", op |-> op, key |-> k,
                              at |-> first[Hash[k]], own |-> FALSE]]
  /\ UNCHANGED <<meta, first, freeHead, nodeLock>>

Matches(c) == cl[c].at # Nil /\ meta[cl[c].at].key = cl[c].key

WalkOn(c) ==
  /\ At(c, "walk") /\ cl[c].at # Nil /\ ~Matches(c)
  /\ Unlocked(cl[c].at)
  /\ cl' = [cl EXCEPT ![c].at = meta[@].next]
  /\ UNCHANGED <<meta, first, freeHead, bucketLock, nodeLock>>

(* FindAt found the key: take a reference, then unlock the bucket.          *)
FindHit(c) ==
  /\ At(c, "walk") /\ cl[c].op # "exist" /\ Matches(c)
  /\ Unlocked(cl[c].at)
  /\ meta' = Hit(meta, cl[c].at, Bypass /\ cl[c].op = "load")
  /\ cl' = [cl EXCEPT ![c].pc = "held", ![c].own = IsOwner(meta[cl[c].at])]
  /\ bucketLock' = Unlock(bucketLock, Bucket(c))
  /\ UNCHANGED <<first, freeHead, nodeLock>>

FindMiss(c) ==
  /\ At(c, "walk") /\ cl[c].op # "exist" /\ cl[c].at = Nil
  /\ Goto(c, "fetch")
  /\ UNCHANGED <<meta, first, freeHead, bucketLock, nodeLock>>

(* ExistAt ends at the key or at the end of the chain, whatever the state   *)
(* of the node it found.                                                    *)
ExistReturns(c) ==
  /\ At(c, "walk") /\ cl[c].op = "exist" /\ (cl[c].at = Nil \/ Matches(c))
  /\ Unlocked(cl[c].at)
  /\ cl' = [cl EXCEPT ![c] = Idle]
  /\ bucketLock' = Unlock(bucketLock, Bucket(c))
  /\ UNCHANGED <<meta, first, freeHead, nodeLock>>

----------------------------------------------------------------------------
(* Alloc: look for a node nobody references and bind it.                    *)

Limit(c) == NNode - (IF cl[c].op = "load" THEN 0 ELSE Reserved)
(* Mutant of Candidate: the reserved nodes are offered to dumps too.        *)
CandidateNoReserve(c) == IF freeHead >= NNode THEN 0 ELSE freeHead
Candidate(c) == IF freeHead >= Limit(c) THEN 0 ELSE freeHead

FetchNode(c) ==
  /\ Shared
  /\ At(c, "fetch")
  /\ cl' = [cl EXCEPT ![c].pc = "claim", ![c].at = Candidate(c)]
  /\ freeHead' = Candidate(c) + 1
  /\ UNCHANGED <<meta, first, bucketLock, nodeLock>>

FetchNodeLoad(c) ==
  /\ ~Shared
  /\ At(c, "fetch")
  /\ cl' = [cl EXCEPT ![c].pc = "fetchStore", ![c].at = Candidate(c)]
  /\ UNCHANGED <<meta, first, freeHead, bucketLock, nodeLock>>

FetchNodeStore(c) ==
  /\ At(c, "fetchStore")
  /\ freeHead' = cl[c].at + 1
  /\ Goto(c, "claim")
  /\ UNCHANGED <<meta, first, bucketLock, nodeLock>>

(* The candidate is in use: try the next one.                               *)
SkipReferenced(c) ==
  /\ At(c, "claim") /\ Unlocked(cl[c].at)
  /\ meta[cl[c].at].ref > 0
  /\ Goto(c, "fetch")
  /\ UNCHANGED <<meta, first, freeHead, bucketLock, nodeLock>>

(* Mutant of Unreferenced: a referenced node is taken.                      *)
ReferencedToo(n) == TRUE
Unreferenced(n) == meta[n].ref = 0

ClaimNode(c) ==
  /\ At(c, "claim") /\ Unlocked(cl[c].at)
  /\ Unreferenced(cl[c].at)
  /\ nodeLock' = [nodeLock EXCEPT ![cl[c].at] = c]
  /\ Goto(c, CASE meta[cl[c].at].hash = Bucket(c) -> "bind"
               [] meta[cl[c].at].hash = Nil       -> "link"
               [] OTHER                           -> "tryOld")
  /\ UNCHANGED <<meta, first, freeHead, bucketLock>>

OldBucket(c) == meta[cl[c].at].hash

(* Mutant of TryLockFails: Lock instead of TryLock, which waits.            *)
LockWaits(c) == FALSE
TryLockFails(c) == bucketLock[OldBucket(c)] # Nil

(* The old bucket is busy: waiting for it could deadlock, so give up.       *)
GiveUp(c) ==
  /\ At(c, "tryOld") /\ TryLockFails(c)
  /\ nodeLock' = Unlock(nodeLock, cl[c].at)
  /\ Goto(c, "fetch")
  /\ UNCHANGED <<meta, first, freeHead, bucketLock>>

TryOldBucket(c) ==
  /\ At(c, "tryOld") /\ bucketLock[OldBucket(c)] = Nil
  /\ bucketLock' = [bucketLock EXCEPT ![OldBucket(c)] = c]
  /\ Goto(c, "unlinkPrev")
  /\ UNCHANGED <<meta, first, freeHead, nodeLock>>

(* Remove, first half: the predecessor skips the node.                      *)
UnlinkPrev(c) ==
  LET n == cl[c].at
      p == meta[n].prev
  IN  /\ At(c, "unlinkPrev") /\ Unlocked(p)
      /\ meta' = IF p = Nil THEN meta ELSE [meta EXCEPT ![p].next = meta[n].next]
      /\ Goto(c, "unlinkNext")
      /\ UNCHANGED <<first, freeHead, bucketLock, nodeLock>>

(* Mutant of UnlinkNext: the bucket head keeps pointing at the node.        *)
UnlinkNextKeepsHead(c) ==
  LET n == cl[c].at
      x == meta[n].next
      cut == IF x = Nil THEN meta ELSE [meta EXCEPT ![x].prev = meta[n].prev]
  IN  /\ At(c, "unlinkNext") /\ Unlocked(x)
      /\ meta' = [cut EXCEPT ![n].prev = Nil, ![n].next = Nil, ![n].hash = Nil]
      /\ bucketLock' = Unlock(bucketLock, OldBucket(c))
      /\ Goto(c, "link")
      /\ UNCHANGED <<first, freeHead, nodeLock>>

(* Remove, second half: the successor and the bucket head skip the node,    *)
(* then the old bucket is unlocked.                                         *)
UnlinkNext(c) ==
  LET n == cl[c].at
      x == meta[n].next
      cut == IF x = Nil THEN meta ELSE [meta EXCEPT ![x].prev = meta[n].prev]
  IN  /\ At(c, "unlinkNext") /\ Unlocked(x)
      /\ meta' = [cut EXCEPT ![n].prev = Nil, ![n].next = Nil, ![n].hash = Nil]
      /\ first' = [first EXCEPT ![OldBucket(c)] = IF @ = n THEN x ELSE @]
      /\ bucketLock' = Unlock(bucketLock, OldBucket(c))
      /\ Goto(c, "link")
      /\ UNCHANGED <<freeHead, nodeLock>>

Pushed(x, n) == IF x = Nil THEN meta ELSE [meta EXCEPT ![x].prev = n]

(* MoveTo: the node becomes the first of the new bucket.                    *)
Link(c) ==
  LET n == cl[c].at
      x == first[Bucket(c)]
  IN  /\ At(c, "link") /\ Unlocked(x)
      /\ meta' = [Pushed(x, n) EXCEPT ![n].next = x, ![n].hash = Bucket(c)]
      /\ first' = [first EXCEPT ![Bucket(c)] = n]
      /\ Goto(c, "bind")
      /\ UNCHANGED <<freeHead, bucketLock, nodeLock>>

(* The end of Alloc and of Get: bind, unlock the node, unlock the bucket.   *)
Bind(c) ==
  /\ At(c, "bind")
  /\ meta' = Claim(meta, cl[c].at, cl[c].key)
  /\ nodeLock' = Unlock(nodeLock, cl[c].at)
  /\ bucketLock' = Unlock(bucketLock, Bucket(c))
  /\ cl' = [cl EXCEPT ![c].pc = "held", ![c].own = TRUE]
  /\ UNCHANGED <<first, freeHead>>

----------------------------------------------------------------------------
(* What a holder does with its Handle.                                      *)

MarkState(c, s) ==
  /\ At(c, "held") /\ cl[c].own /\ Unlocked(cl[c].at)
  /\ meta[cl[c].at].st = "LOADING"
  /\ meta' = Mark(meta, cl[c].at, s)
  /\ UNCHANGED <<first, freeHead, bucketLock, nodeLock, cl>>

ReleaseHandle(c) ==
  /\ At(c, "held") /\ Unlocked(cl[c].at)
  /\ meta' = Release(meta, cl[c].at)
  /\ cl' = [cl EXCEPT ![c] = Idle]
  /\ UNCHANGED <<first, freeHead, bucketLock, nodeLock>>

----------------------------------------------------------------------------
Step(c) == \/ WalkOn(c) \/ FindHit(c) \/ FindMiss(c) \/ ExistReturns(c)
           \/ FetchNode(c) \/ FetchNodeLoad(c) \/ FetchNodeStore(c)
           \/ SkipReferenced(c) \/ ClaimNode(c) \/ GiveUp(c) \/ TryOldBucket(c)
           \/ UnlinkPrev(c) \/ UnlinkNext(c) \/ Link(c) \/ Bind(c)

Next == \E c \in Clients :
          \/ \E op \in Ops, k \in Keys : Call(c, op, k)
          \/ Step(c)
          \/ \E s \in {"READY", "FAILED"} : MarkState(c, s)
          \/ ReleaseHandle(c)

Spec == Init /\ [][Next]_vars

----------------------------------------------------------------------------
(* Properties                                                               *)

(* Every chain is a consistent doubly linked list whenever its bucket is    *)
(* free: the head has no predecessor, neighbours agree, and a node is       *)
(* reachable in the bucket its hash names and in no other.                  *)
InBucket(b) == {n \in Nodes : meta[n].hash = b}
ChainsConsistent ==
  \A b \in Buckets : bucketLock[b] = Nil =>
    /\ (first[b] = Nil) = (InBucket(b) = {})
    /\ first[b] # Nil => first[b] \in InBucket(b) /\ meta[first[b]].prev = Nil
    /\ \A n \in InBucket(b) :
         /\ Hash[meta[n].key] = b
         /\ meta[n].next # Nil => meta[n].next \in InBucket(b) /\ meta[meta[n].next].prev = n
         /\ n # first[b] => meta[n].prev \in InBucket(b) /\ meta[meta[n].prev].next = n

(* A load may claim any node, a dump only the ones that are not reserved    *)
(* for loads.                                                               *)
ReserveKept ==
  \A c \in Clients : (cl[c].op = "dump" /\ At(c, "bind")) => cl[c].at < NNode - Reserved

(* The lock-level table implements the atomic one.  A node is bound to its  *)
(* key as long as it is linked in that key's bucket.                        *)
BoundKey(n) == IF meta[n].hash # Nil /\ meta[n].key # NoKey /\ Hash[meta[n].key] = meta[n].hash
               THEN meta[n].key ELSE NoKey
AbsTab == [n \in Nodes |-> [key |-> BoundKey(n), ref |-> meta[n].ref, st |-> meta[n].st]]
AbsHandle == [c \in Clients |-> IF At(c, "held")
                                THEN [node |-> cl[c].at, key |-> cl[c].key, own |-> cl[c].own]
                                ELSE [node |-> NoKey, key |-> NoKey, own |-> FALSE]]
Table == INSTANCE CacheTable WITH tab <- AbsTab, handle <- AbsHandle
RefinesTable == Table!Spec

(* The order in which bucket and node locks are taken cannot deadlock:      *)
(* whenever calls are in progress, one of them can take its next step.      *)
(* CanStep is the guard of Step: the lock that the client asks for is free, *)
(* or it asks for none, or TryLock tells it to give up.                     *)
InCall(c) == cl[c].pc \notin {"idle", "held"}
CanStep(c) ==
  \/ cl[c].pc \in {"fetch", "fetchStore", "bind"}
  \/ cl[c].pc = "walk" /\ Unlocked(cl[c].at)
  \/ At(c, "claim") /\ Unlocked(cl[c].at) /\ (meta[cl[c].at].ref > 0 \/ Unreferenced(cl[c].at))
  \/ At(c, "tryOld") /\ (bucketLock[OldBucket(c)] = Nil \/ TryLockFails(c))
  \/ At(c, "unlinkPrev") /\ Unlocked(meta[cl[c].at].prev)
  \/ At(c, "unlinkNext") /\ Unlocked(meta[cl[c].at].next)
  \/ At(c, "link") /\ Unlocked(first[Bucket(c)])
NoLockDeadlock ==
  (\E c \in Clients : InCall(c)) => \E c \in Clients : InCall(c) /\ CanStep(c)
=============================================================================
