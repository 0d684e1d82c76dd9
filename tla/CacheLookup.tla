---------------------------- MODULE CacheLookup ----------------------------
(***************************************************************************)
(* Lookup and LookupOnPrefix of the cache store: the blocks are looked for *)
(* in the node table one by one, by their shard 0 only; then the ones      *)
(* missed are asked of the backend in one call                             *)
(* (ucm/store/cache/cc/buffer_manager.h), while other threads and          *)
(* processes load, dump and evict shards.                                  *)
(*                                                                         *)
(* A shard of a block has a node of its own.  It goes through what         *)
(* CacheStore does with it: "loading" and "dumping" nodes are LOADING,     *)
(* "dirty" and "clean" ones READY, of which a dirty one is pinned until    *)
(* the backend has written the shard; "failed" ones have no content and no *)
(* owner (FAILED, or LOADING after an error).  The backend collects the    *)
(* shards of a block in a .tmp file, which becomes the block's file when   *)
(* the last one is written; a "hollow" node is READY with what a load read *)
(* from a hole of such a file, a "hollowing" one is dumped again.          *)
(***************************************************************************)
EXTENDS Naturals, Sequences, FiniteSets

CONSTANT Layouts  \* how many blocks a lookup names, their shards, and whether there may
                  \* be faults: [num, shards, faults]

ASSUME LayoutAssumption ==
  \A y \in Layouts : y.num \in Nat /\ y.shards \in Nat \ {0} /\ y.faults \in SUBSET BOOLEAN

VARIABLES layout,    \* one of Layouts
          faulty,    \* whether the backend drops blocks and calls and copies fail
          node,      \* the node of each shard
          turn,      \* the shard of each block that is dumped next
          tmp, file, \* the shards with their content in the .tmp files and in the blocks' files
          lk,        \* the lookup in progress: its next block, hits and misses
          found,     \* what the last lookup reported
          reported,  \* what any lookup reported: the blocks that are loaded
          early,     \* history: blocks of several shards hit before the backend had them
          torn,      \* history: blocks whose file got holes
          always     \* history: blocks present since the lookup in progress began, and not dropped

vars == <<layout, faulty, node, turn, tmp, file, lk, found, reported, early, torn, always>>

Blocks == 1 .. layout.num      \* looked up in this order
Shards == 0 .. layout.shards - 1
LastShard == layout.shards - 1
Parts  == Blocks \X Shards
PartsOf(b) == {b} \X Shards

NoLookup == [i |-> 0, hits |-> {}, miss |-> <<>>]

(* The backend has a block once the last shard is written.                  *)
HasIn(fl, b) == <<b, LastShard>> \in fl
Has(b) == HasIn(file, b)

(* A block can be loaded if each shard is in the block's file or has, or    *)
(* will have, its content in a node.                                        *)
PresentIn(nd, fl) ==
  {b \in Blocks : \A s \in Shards : \/ HasIn(fl, b) /\ <<b, s>> \in fl
                                   \/ nd[<<b, s>>] \in {"dumping", "dirty", "clean"}}
Present == PresentIn(node, file)

Init ==
  /\ layout \in Layouts
  /\ faulty \in layout.faults
  /\ node = [p \in Parts |-> "none"]
  /\ turn = [b \in Blocks |-> 0]
  /\ tmp = {}
  /\ \E had \in SUBSET Blocks : file = had \X Shards
  /\ lk = NoLookup
  /\ found = {} /\ reported = {} /\ early = {} /\ torn = {} /\ always = {}

----------------------------------------------------------------------------
(* Lookup                                                                   *)

store == <<layout, faulty, node, turn, tmp, file, torn>>

(* Both calls scan the table first.                                         *)
Begin ==
  /\ lk = NoLookup
  /\ lk' = [NoLookup EXCEPT !.i = 1]
  /\ found' = {}
  /\ always' = Present
  /\ UNCHANGED <<store, reported, early>>

(* TransBuffer::Exist finds a node in whatever state.                       *)
Exist(b, s) == node[<<b, s>>] # "none"

Probe ==
  LET b == lk.i
      hit == Exist(b, 0)
  IN  /\ b \in Blocks
      /\ lk' = IF hit THEN [lk EXCEPT !.i = @ + 1, !.hits = @ \cup {b}]
               ELSE [lk EXCEPT !.i = @ + 1, !.miss = Append(@, b)]
      /\ early' = IF hit /\ layout.shards > 1 /\ ~Has(b) THEN early \cup {b} ELSE early
      /\ UNCHANGED <<store, found, reported, always>>

(* The backend's answers for a sequence of blocks: which ones it has, and   *)
(* how many (n) it has before the first one it has not.                     *)
BackendLookup(q) == {j \in 1 .. Len(q) : Has(q[j])}
BackendPrefix(q) == {n \in 0 .. Len(q) : /\ \A j \in 1 .. n : Has(q[j])
                                         /\ n < Len(q) => ~Has(q[n + 1])}

(* LookupFast *)
AllFound(hits, miss) == hits \cup {miss[j] : j \in BackendLookup(miss)}

(* Mutant of PrefixFound: the hits behind the last miss are left out.       *)
PrefixFoundShort(miss, n) == IF n = 0 THEN {} ELSE 1 .. miss[n]

(* LookupOnPrefixFast: all blocks before the first one neither has.         *)
PrefixFound(miss, n) == IF n = Len(miss) THEN Blocks ELSE 1 .. miss[n + 1] - 1

Return ==
  /\ lk.i > layout.num
  /\ lk' = NoLookup
  /\ reported' = reported \cup found'
  /\ always' = {}
  /\ UNCHANGED <<store, early>>
ReturnAll == found' = AllFound(lk.hits, lk.miss) /\ Return
ReturnPrefix ==
  /\ \E n \in BackendPrefix(lk.miss) : found' = PrefixFound(lk.miss, n)
  /\ Return

(* The backend is only asked about misses; its error is the lookup's.       *)
BackendErrs ==
  /\ faulty
  /\ lk.i > layout.num /\ lk.miss # <<>>
  /\ lk' = NoLookup
  /\ always' = {}
  /\ UNCHANGED <<store, found, reported, early>>

----------------------------------------------------------------------------
(* What the others do meanwhile                                             *)

(* One shard changes: its node to nd, and the files to tm and fl.           *)
Moves(b, s, nd, tm, fl) ==
  /\ node' = [node EXCEPT ![<<b, s>>] = nd]
  /\ tmp' = tm /\ file' = fl
  /\ torn' = torn \cup {x \in Blocks : HasIn(fl, x) /\ ~(PartsOf(x) \subseteq fl)}
  /\ always' = (always \cap PresentIn(node', fl)) \ {x \in Blocks : Has(x) /\ ~HasIn(fl, x)}
  /\ UNCHANGED <<layout, faulty, lk, found, reported, early>>
Stays(b, s, nd) == Moves(b, s, nd, tmp, file)

(* Blocks are dumped shard by shard, and again from the first one.          *)
NextTurn(b) == turn' = [turn EXCEPT ![b] = IF @ = LastShard THEN 0 ELSE @ + 1]

(* A dump owns a node nobody references; one that is READY already is only  *)
(* given to the backend again.                                              *)
StartDump(b, s) ==
  /\ s = turn[b] /\ NextTurn(b)
  /\ \/ node[<<b, s>>] \in {"none", "failed"} /\ Stays(b, s, "dumping")
     \/ node[<<b, s>>] = "clean" /\ Stays(b, s, "dirty")
     \/ node[<<b, s>>] = "hollow" /\ Stays(b, s, "hollowing")
(* A shard whose node others use (any loader may) is skipped.               *)
SkipDump(b, s) ==
  /\ s = turn[b] /\ NextTurn(b)
  /\ \/ node[<<b, s>>] \in {"loading", "dumping", "dirty", "hollowing"}
     \/ node[<<b, s>>] \in {"clean", "failed", "hollow"} /\ b \in reported
  /\ Stays(b, s, node[<<b, s>>])
FinishDump(b, s) == node[<<b, s>>] = "dumping" /\ Stays(b, s, "dirty") /\ UNCHANGED turn

(* The backend has written a shard.  Its workers take shards in any order:  *)
(* the last one makes the .tmp file the block's file, whatever it holds,    *)
(* and a worker that opened it before writes into the new one.              *)
Persist(b, s) ==
  LET right   == IF node[<<b, s>>] = "dirty" THEN {<<b, s>>} ELSE {}
      written == (tmp \ {<<b, s>>}) \cup right
      whole   == written \cap PartsOf(b)
  IN  /\ node[<<b, s>>] \in {"dirty", "hollowing"}
      /\ LET nd == IF node[<<b, s>>] = "dirty" THEN "clean" ELSE "hollow"
         IN  IF s = LastShard THEN Moves(b, s, nd, tmp \ PartsOf(b), (file \ PartsOf(b)) \cup whole)
             ELSE \/ Moves(b, s, nd, written, file)
                  \/ Has(b) /\ Moves(b, s, nd, tmp, (file \ {<<b, s>>}) \cup right)
      /\ UNCHANGED turn

(* A copy from the device fails and leaves a LOADING node nobody owns; a    *)
(* failed backend dump is only logged, that of the last shard removes the   *)
(* .tmp file.                                                               *)
FailDump(b, s) ==
  /\ faulty
  /\ \/ node[<<b, s>>] = "dumping" /\ Stays(b, s, "failed")
     \/ /\ node[<<b, s>>] \in {"dirty", "hollowing"}
        /\ LET nd == IF node[<<b, s>>] = "dirty" THEN "clean" ELSE "hollow"
           IN  \/ Stays(b, s, nd)
               \/ s = LastShard /\ Moves(b, s, nd, tmp \ PartsOf(b), file)
  /\ UNCHANGED turn

(* A block is loaded because some lookup reported it.                       *)
StartLoad(b, s) ==
  b \in reported /\ node[<<b, s>>] \in {"none", "failed"} /\ Stays(b, s, "loading") /\ UNCHANGED turn
FinishLoad(b, s) ==
  /\ node[<<b, s>>] = "loading" /\ Has(b)
  /\ Stays(b, s, IF <<b, s>> \in file THEN "clean" ELSE "hollow") /\ UNCHANGED turn
FailLoad(b, s) ==
  /\ node[<<b, s>>] = "loading"
  /\ ~Has(b) \/ faulty
  /\ Stays(b, s, "failed") /\ UNCHANGED turn

(* Mutant of Evictable: a node is reused before the backend has the shard.  *)
EvictableDirty(b, s) == node[<<b, s>>] \in {"clean", "failed", "hollow", "dirty"}

(* Alloc takes a node nobody references for another key.                    *)
Evictable(b, s) == node[<<b, s>>] \in {"clean", "failed", "hollow"}
Evict(b, s) == Evictable(b, s) /\ Stays(b, s, "none") /\ UNCHANGED turn

(* The backend's garbage collection drops a block.                          *)
Drop(b) == faulty /\ Has(b) /\ Moves(b, 0, node[<<b, 0>>], tmp, file \ PartsOf(b)) /\ UNCHANGED turn

Next ==
  \/ Begin
  \/ Probe
  \/ ReturnAll
  \/ ReturnPrefix
  \/ BackendErrs
  \/ \E b \in Blocks, s \in Shards :
       \/ StartDump(b, s) \/ SkipDump(b, s) \/ FinishDump(b, s) \/ Persist(b, s) \/ FailDump(b, s)
       \/ StartLoad(b, s) \/ FinishLoad(b, s) \/ FailLoad(b, s) \/ Evict(b, s)
  \/ \E b \in Blocks : Drop(b)

Spec == Init /\ [][Next]_vars

----------------------------------------------------------------------------
(* Properties                                                               *)

NodeStates == {"none", "loading", "dumping", "dirty", "clean", "failed", "hollow", "hollowing"}

TypeOK ==
  /\ layout \in Layouts /\ faulty \in BOOLEAN
  /\ node \in [Parts -> NodeStates]
  /\ turn \in [Blocks -> Shards] /\ tmp \subseteq Parts /\ file \subseteq Parts
  /\ found \subseteq reported /\ reported \subseteq Blocks
  /\ lk \in [i : 0 .. layout.num + 1, hits : SUBSET Blocks, miss : Seq(Blocks)]
  /\ early \subseteq Blocks /\ torn \subseteq Blocks /\ always \subseteq Blocks

(* What a lookup says of a block of several shards does not hold when it    *)
(* was hit before the backend had it, for only its shard 0 was looked for,  *)
(* or when its file was made with shards missing.                           *)
Unsure == early \cup torn

(* A block that is reported can be loaded, although the table and the       *)
(* backend were asked at different times and nodes were evicted between,    *)
(* and although a node counts whatever its state: every block of one shard, *)
(* and of those of several shards the ones that the backend had, whole,     *)
(* when they were hit.  (Not so once the backend drops blocks or loads      *)
(* fail: the node of a failed load counts too.)                             *)
FoundIsPresent == ~faulty => found \ Unsure \subseteq Present

(* A lookup reports every block that was there all the time with all its    *)
(* shards, also one whose nodes are evicted between the two questions, a    *)
(* prefix lookup every such prefix.  (A block the backend drops while it is *)
(* dumped again may be missed: the table is asked first.)                   *)
FindsWhatStays ==
  [][/\ ReturnAll => always \subseteq found'
     /\ ReturnPrefix => \A n \in Blocks : 1 .. n \subseteq always => n \in found']_vars
=============================================================================
