---------------------------- MODULE LookupProofs ----------------------------
(***************************************************************************)
(* The prefix lookups, for every value of the constants.  Through cache    *)
(* and backend of the cache store: a block that stays is found at every    *)
(* point of the scan.  Over the groups of a hybrid model: the groups asked *)
(* so far hold the current hit, which bounds every common one.             *)
(***************************************************************************)
EXTENDS CacheLookup, HybridHit, WellFoundedInduction, TLAPS

----------------------------------------------------------------------------
(* Lookup through cache and backend                                         *)

(* The probed blocks are hits or misses, the misses in order; a block that  *)
(* stays and is missed is in the backend, for it was in no node.            *)
LookupInv ==
  /\ always \subseteq Present
  /\ \A b \in 1 .. lk.i - 1 : b \in lk.hits \/ \E j \in 1 .. Len(lk.miss) : lk.miss[j] = b
  /\ \A j \in 1 .. Len(lk.miss) : lk.miss[j] < lk.i
  /\ \A j, k \in 1 .. Len(lk.miss) : j < k => lk.miss[j] < lk.miss[k]
  /\ \A j \in 1 .. Len(lk.miss) : lk.miss[j] \in always => Has(lk.miss[j])

(* A file has the last shard, so no node has the hole of a last shard, and  *)
(* all other shards too unless it was torn.                                 *)
FileInv ==
  /\ \A b \in Blocks : Has(b) /\ b \notin torn => PartsOf(b) \subseteq file
  /\ \A b \in Blocks : node[<<b, LastShard>>] \notin {"hollow", "hollowing"}

(* What makes a block sure to stay: the backend has it, or its only shard   *)
(* is on the way there.                                                     *)
OneShard == layout.shards = 1
Sure(b) == \/ Has(b)
           \/ OneShard /\ node[<<b, 0>>] \in {"dumping", "dirty"}

(* Without faults what is counted or reported is sure, but for what was hit *)
(* early, and an only shard in no node of its own is in the backend.        *)
CountsAreSure ==
  /\ OneShard => early = {}
  /\ ~faulty => /\ \A b \in reported \cup lk.hits : b \in early \/ Sure(b)
                /\ \A b \in Blocks : OneShard /\ node[<<b, 0>>] \notin {"none", "dumping", "dirty"} => Has(b)

Inv == TypeOK /\ LookupInv /\ FileInv /\ CountsAreSure

(* The first and the last shard of a block, which may be the same.          *)
LEMMA ShardFacts ==
  ASSUME TypeOK
  PROVE  /\ layout.num \in Nat /\ layout.shards \in Nat \ {0} /\ LastShard \in Shards /\ 0 \in Shards
         /\ OneShard => LastShard = 0 /\ \A s \in Shards : s = 0
         /\ ~OneShard => layout.shards > 1
BY LayoutAssumption DEF TypeOK, LastShard, Shards, OneShard

(* Before any lookup nothing was probed or reported.                        *)
LEMMA InitInv == Init => Inv
<1> SUFFICES ASSUME Init PROVE Inv
  OBVIOUS
<1>1. PICK had \in SUBSET Blocks : file = had \X Shards
  BY DEF Init
<1>2. TypeOK
  <2>1. /\ layout \in Layouts /\ layout.num \in Nat /\ layout.shards \in Nat \ {0} /\ faulty \in BOOLEAN
        /\ found = {} /\ reported = {} /\ early = {} /\ torn = {} /\ always = {} /\ tmp = {}
    BY LayoutAssumption DEF Init
  <2>2. node \in [Parts -> NodeStates]
    BY DEF Init, NodeStates
  <2>3. turn \in [Blocks -> Shards]
    BY <2>1 DEF Init, Shards
  <2>4. file \subseteq Parts
    BY <1>1 DEF Parts
  <2>5. lk \in [i : 0 .. layout.num + 1, hits : SUBSET Blocks, miss : Seq(Blocks)]
    BY <2>1 DEF Init, NoLookup
  <2>6. QED
    BY <2>1, <2>2, <2>3, <2>4, <2>5 DEF TypeOK
<1>3. LookupInv
  BY <1>2, ShardFacts DEF Init, LookupInv, NoLookup
<1>4. FileInv
  BY <1>1, <1>2, ShardFacts DEF Init, FileInv, Has, HasIn, PartsOf, Parts
<1>5. CountsAreSure
  BY <1>2, ShardFacts DEF Init, CountsAreSure, NoLookup, Parts
<1>6. QED
  BY <1>2, <1>3, <1>4, <1>5 DEF Inv

(* Whatever the others do with a shard, a lookup in progress keeps its hits *)
(* and misses, a missed block that stays is not dropped, and a file that    *)
(* gets holes is noted.                                                     *)
LEMMA MovesKeep ==
  ASSUME Inv, NEW b \in Blocks, NEW s \in Shards, NEW nd \in NodeStates, NEW tm \in SUBSET Parts,
         NEW fl \in SUBSET Parts, Moves(b, s, nd, tm, fl), turn' \in [Blocks -> Shards],
         nd \in {"hollow", "hollowing"} => s # LastShard
  PROVE  TypeOK' /\ LookupInv' /\ FileInv'
<1>0. TypeOK /\ LookupInv /\ FileInv
  BY DEF Inv
<1>1. layout' = layout
  BY DEF Moves
<1>2. /\ Blocks' = Blocks /\ Shards' = Shards /\ Parts' = Parts /\ LastShard' = LastShard
  BY <1>1 DEF Blocks, Shards, Parts, LastShard
<1>3. TypeOK'
  BY <1>0, <1>1, <1>2 DEF TypeOK, Moves, Parts
<1>4. \A x \in always' : x \in always /\ (Has(x) => HasIn(fl, x))
  BY <1>0 DEF Moves, TypeOK
<1>5. \A x : Has(x)' <=> HasIn(fl, x)
  BY <1>2 DEF Has, HasIn, Moves
<1>6. always' \subseteq Present'
  BY <1>2 DEF Moves, Present, PresentIn, HasIn
<1>7. UNCHANGED lk
  BY DEF Moves
<1>8. LookupInv'
  <2>1. ASSUME NEW j \in 1 .. Len(lk.miss), lk.miss[j] \in always' PROVE HasIn(fl, lk.miss[j])
    BY <1>0, <1>4, <2>1 DEF LookupInv
  <2>2. file' = fl
    BY DEF Moves
  <2>3. \A j \in 1 .. Len(lk.miss) : lk.miss[j] \in always' => <<lk.miss[j], LastShard>> \in fl
    BY <2>1 DEF HasIn
  <2>4. QED
    BY <1>0, <1>2, <1>6, <1>7, <2>2, <2>3 DEF LookupInv, Has, HasIn
<1>9. FileInv'
  <2>1. \A x \in Blocks : HasIn(fl, x) /\ x \notin torn' => PartsOf(x) \subseteq fl
    BY DEF Moves
  <2>2. \A x \in Blocks : node'[<<x, LastShard>>] \notin {"hollow", "hollowing"}
    <3>1. /\ node \in [Blocks \X Shards -> NodeStates] /\ LastShard \in Shards
          /\ node' = [node EXCEPT ![<<b, s>>] = nd]
      BY <1>0, ShardFacts DEF TypeOK, Parts, Moves
    <3> SUFFICES ASSUME NEW x \in Blocks PROVE node'[<<x, LastShard>>] \notin {"hollow", "hollowing"}
      OBVIOUS
    <3>2. CASE x = b /\ s = LastShard
      BY <3>1, <3>2
    <3>3. CASE ~(x = b /\ s = LastShard)
      BY <1>0, <3>1, <3>3 DEF FileInv
    <3> QED
      BY <3>2, <3>3
  <2>3. file' = fl
    BY DEF Moves
  <2>4. \A x \in Blocks : PartsOf(x)' = PartsOf(x)
    BY <1>2 DEF PartsOf
  <2>5. QED
    BY <1>2, <1>5, <2>1, <2>2, <2>3, <2>4 DEF FileInv
<1>10. QED
  BY <1>3, <1>8, <1>9

(* Without faults no block stops being sure if the backend keeps what it    *)
(* has and an only shard that is not on its way there is there.             *)
LEMMA MovesCount ==
  ASSUME Inv, NEW b \in Blocks, NEW s \in Shards, NEW nd \in NodeStates, NEW tm \in SUBSET Parts,
         NEW fl \in SUBSET Parts, Moves(b, s, nd, tm, fl),
         ~faulty => \A x \in Blocks : Has(x) => HasIn(fl, x),
         ~faulty /\ OneShard /\ nd \notin {"dumping", "dirty"} => HasIn(fl, b)
  PROVE  CountsAreSure'
<1>0. TypeOK /\ CountsAreSure
  BY DEF Inv
<1>1. /\ layout' = layout /\ UNCHANGED <<faulty, lk, reported, early>>
      /\ node' = [node EXCEPT ![<<b, s>>] = nd] /\ file' = fl
  BY DEF Moves
<1>2. /\ Blocks' = Blocks /\ LastShard' = LastShard /\ (OneShard' <=> OneShard)
  BY <1>1 DEF Blocks, LastShard, OneShard
<1>3. \A x : Has(x)' <=> HasIn(fl, x)
  BY <1>1, <1>2 DEF Has, HasIn
<1> SUFFICES ASSUME ~faulty
             PROVE  /\ \A x \in reported \cup lk.hits : x \in early \/ Sure(x)'
                    /\ \A x \in Blocks : OneShard /\ node'[<<x, 0>>] \notin {"none", "dumping", "dirty"} => HasIn(fl, x)
  BY <1>0, <1>1, <1>2, <1>3 DEF CountsAreSure
<1>4. /\ node \in [Blocks \X Shards -> NodeStates] /\ 0 \in Shards /\ (OneShard => s = 0)
      /\ reported \cup lk.hits \subseteq Blocks
  BY <1>0, ShardFacts DEF TypeOK, Parts
<1>5. \A x \in Blocks : OneShard => node'[<<x, 0>>] = IF x = b THEN nd ELSE node[<<x, 0>>]
  BY <1>1, <1>4
<1>6. ASSUME NEW x \in reported \cup lk.hits, x \notin early PROVE Sure(x)'
  <2>1. Sure(x) /\ x \in Blocks
    BY <1>0, <1>4, <1>6 DEF CountsAreSure
  <2>2. CASE Has(x)
    BY <1>3, <2>1, <2>2 DEF Sure
  <2>3. CASE OneShard /\ node[<<x, 0>>] \in {"dumping", "dirty"}
    BY <1>2, <1>3, <1>4, <1>5, <2>1, <2>3 DEF Sure
  <2>4. QED
    BY <2>1, <2>2, <2>3 DEF Sure
<1>7. ASSUME NEW x \in Blocks, OneShard, node'[<<x, 0>>] \notin {"none", "dumping", "dirty"} PROVE HasIn(fl, x)
  <2>1. CASE x = b
    BY <1>5, <1>7, <2>1
  <2>2. CASE x # b
    BY <1>0, <1>5, <1>7, <2>2 DEF CountsAreSure
  <2>3. QED
    BY <2>1, <2>2
<1>8. QED
  BY <1>6, <1>7

(* What a lookup reports: every probed block is a hit or in the backend's   *)
(* part of the misses.                                                      *)
LEMMA ReportedIsSure ==
  ASSUME TypeOK, LookupInv, ReturnAll \/ ReturnPrefix
  PROVE  found' \subseteq Blocks /\ \A b \in found' : b \in lk.hits \/ Has(b)
<1>1. /\ layout.num \in Nat /\ lk.i = layout.num + 1 /\ lk.hits \subseteq Blocks
      /\ lk.miss \in Seq(Blocks) /\ Len(lk.miss) \in Nat
      /\ \A j \in 1 .. Len(lk.miss) : lk.miss[j] \in Blocks
  BY ShardFacts DEF TypeOK, ReturnAll, ReturnPrefix, Return
<1>3. CASE ReturnAll
  <2>1. found' = lk.hits \cup {lk.miss[j] : j \in BackendLookup(lk.miss)}
    BY <1>3 DEF ReturnAll, AllFound
  <2>2. QED
    BY <1>1, <2>1 DEF BackendLookup
<1>4. CASE ReturnPrefix
  <2>1. PICK n \in BackendPrefix(lk.miss) : found' = PrefixFound(lk.miss, n)
    BY <1>4 DEF ReturnPrefix
  <2>2. n \in 0 .. Len(lk.miss) /\ \A j \in 1 .. n : Has(lk.miss[j])
    BY <2>1 DEF BackendPrefix
  <2>3. ASSUME NEW b \in found' PROVE b \in Blocks /\ (b \in lk.hits \/ Has(b))
    <3>1. CASE n = Len(lk.miss)
      <4>1. b \in 1 .. lk.i - 1
        BY <1>1, <2>1, <2>3, <3>1 DEF PrefixFound, Blocks
      <4>2. QED
        BY <1>1, <2>2, <3>1, <4>1 DEF LookupInv, Blocks
    <3>2. CASE n # Len(lk.miss)
      <4>1. n + 1 \in 1 .. Len(lk.miss) /\ b \in 1 .. lk.miss[n + 1] - 1
        BY <1>1, <2>1, <2>2, <2>3, <3>2 DEF PrefixFound
      <4>2. lk.miss[n + 1] \in Blocks /\ b \in 1 .. lk.i - 1
        BY <1>1, <4>1 DEF Blocks
      <4>3. SUFFICES ASSUME b \notin lk.hits PROVE Has(b)
        BY <1>1, <4>2 DEF Blocks
      <4>4. PICK j \in 1 .. Len(lk.miss) : lk.miss[j] = b
        BY <4>2, <4>3 DEF LookupInv
      <4>5. j < n + 1
        <5>1. CASE j = n + 1
          BY <4>1, <4>2, <4>4, <5>1 DEF Blocks
        <5>2. CASE n + 1 < j
          <6>1. lk.miss[n + 1] < lk.miss[j]
            BY <4>1, <4>4, <5>2 DEF LookupInv
          <6>2. QED
            BY <4>1, <4>2, <4>4, <6>1 DEF Blocks
        <5>3. QED
          BY <2>2, <4>4, <5>1, <5>2
      <4>6. QED
        BY <2>2, <4>4, <4>5
    <3>3. QED
      BY <3>1, <3>2
  <2>4. QED
    BY <2>3
<1>5. QED
  BY <1>3, <1>4

(* Steps of a lookup leave nodes and files alone.                           *)
LEMMA StoreKept ==
  ASSUME UNCHANGED store
  PROVE  /\ Blocks' = Blocks /\ Shards' = Shards /\ Parts' = Parts /\ LastShard' = LastShard
         /\ Present' = Present /\ (OneShard' <=> OneShard) /\ (FileInv => FileInv')
         /\ \A b : (Has(b)' <=> Has(b)) /\ (Sure(b)' <=> Sure(b))
<1>1. UNCHANGED <<layout, faulty, node, turn, tmp, file, torn>>
  BY DEF store
<1>2. UNCHANGED <<Blocks, Shards, Parts, LastShard>> /\ (OneShard' <=> OneShard)
  BY <1>1 DEF Blocks, Shards, Parts, LastShard, OneShard
<1>3. \A b : (Has(b)' <=> Has(b)) /\ PartsOf(b)' = PartsOf(b)
  BY <1>1, <1>2 DEF Has, HasIn, PartsOf
<1>4. \A b : Sure(b)' <=> Sure(b)
  BY <1>1, <1>2, <1>3 DEF Sure
<1>5. Present' = Present
  BY <1>1, <1>2 DEF Present, PresentIn, HasIn
<1>6. FileInv => FileInv'
  BY <1>1, <1>2, <1>3 DEF FileInv
<1>7. QED
  BY <1>2, <1>3, <1>4, <1>5, <1>6

(* What the invariant needs of a step that leaves the store alone.          *)
LEMMA LookupKeeps ==
  ASSUME Inv, UNCHANGED store, TypeOK', LookupInv',
         early \subseteq early' /\ (OneShard => early' = {}),
         ~faulty => \A b \in reported' \cup lk'.hits : b \in reported \cup lk.hits \/ b \in early' \/ Sure(b)
  PROVE  Inv'
<1>1. UNCHANGED <<layout, faulty, node, turn, tmp, file, torn>>
  BY DEF store
<1>2. FileInv'
  BY StoreKept DEF Inv
<1>3. CountsAreSure'
  <2>1. OneShard' => early' = {}
    BY StoreKept
  <2>2. ASSUME ~faulty, NEW b \in reported' \cup lk'.hits, b \notin early' PROVE Sure(b)'
    BY <2>2, StoreKept DEF Inv, CountsAreSure
  <2>3. ASSUME ~faulty, NEW b \in Blocks, OneShard, node[<<b, 0>>] \notin {"none", "dumping", "dirty"} PROVE Has(b)'
    BY <2>3, StoreKept DEF Inv, CountsAreSure
  <2>4. QED
    BY <1>1, <2>1, <2>2, <2>3, StoreKept DEF CountsAreSure
<1>4. QED
  BY <1>2, <1>3 DEF Inv

(* What a step of the others makes of a shard, and what it leaves in the    *)
(* backend when nothing fails.                                              *)
LEMMA MovesAre ==
  ASSUME Inv, NEW b \in Blocks, NEW s \in Shards,
         \/ StartDump(b, s) \/ SkipDump(b, s) \/ FinishDump(b, s) \/ Persist(b, s) \/ FailDump(b, s)
         \/ StartLoad(b, s) \/ FinishLoad(b, s) \/ FailLoad(b, s) \/ Evict(b, s)
         \/ Drop(b) /\ s = 0
  PROVE  \E nd \in NodeStates, tm \in SUBSET Parts, fl \in SUBSET Parts :
           /\ Moves(b, s, nd, tm, fl)
           /\ nd \in {"hollow", "hollowing"} => s # LastShard
           /\ ~faulty => \A x \in Blocks : Has(x) => HasIn(fl, x)
           /\ ~faulty /\ OneShard /\ nd \notin {"dumping", "dirty"} => HasIn(fl, b)
<1> DEFINE Fits(nd, fl) ==
      /\ nd \in {"hollow", "hollowing"} => s # LastShard
      /\ ~faulty => \A x \in Blocks : Has(x) => HasIn(fl, x)
      /\ ~faulty /\ OneShard /\ nd \notin {"dumping", "dirty"} => HasIn(fl, b)
    Goal == \E nd \in NodeStates, tm \in SUBSET Parts, fl \in SUBSET Parts : Moves(b, s, nd, tm, fl) /\ Fits(nd, fl)
<1> SUFFICES Goal
  OBVIOUS
<1>0. /\ TypeOK /\ FileInv /\ CountsAreSure /\ tmp \in SUBSET Parts /\ file \in SUBSET Parts
      /\ node[<<b, s>>] \in NodeStates /\ LastShard \in Shards
      /\ OneShard => s = 0 /\ LastShard = 0
  BY ShardFacts DEF Inv, TypeOK, Parts
<1>1. node[<<b, s>>] \in {"hollow", "hollowing"} => s # LastShard
  BY <1>0 DEF FileInv
<1>2. ~faulty /\ OneShard /\ node[<<b, s>>] \notin {"none", "dumping", "dirty"} => HasIn(file, b)
  BY <1>0 DEF CountsAreSure, Has
<1>3. ASSUME NEW nd \in NodeStates, Stays(b, s, nd),
             nd \in {"hollow", "hollowing"} => s # LastShard,
             ~faulty /\ OneShard /\ nd \notin {"dumping", "dirty"} => HasIn(file, b)
      PROVE  Goal
  <2>1. Moves(b, s, nd, tmp, file) /\ Fits(nd, file)
    BY <1>3 DEF Stays, Has
  <2> HIDE DEF Fits
  <2> QED
    BY <1>0, <2>1
<1>4. CASE StartDump(b, s)
  <2>1. \/ Stays(b, s, "dumping") \/ Stays(b, s, "dirty")
        \/ node[<<b, s>>] = "hollow" /\ Stays(b, s, "hollowing")
    BY <1>4 DEF StartDump
  <2> QED
    BY <1>1, <1>2, <1>3, <2>1 DEF NodeStates
<1>5. CASE SkipDump(b, s)
  <2>1. Stays(b, s, node[<<b, s>>]) /\ node[<<b, s>>] # "none"
    BY <1>5 DEF SkipDump
  <2> QED
    BY <1>0, <1>1, <1>2, <1>3, <2>1
<1>6. CASE FinishDump(b, s)
  <2>1. Stays(b, s, "dirty")
    BY <1>6 DEF FinishDump
  <2> QED
    BY <1>3, <2>1 DEF NodeStates
<1>7. CASE FailDump(b, s)
  <2>1. faulty
    BY <1>7 DEF FailDump
  <2>2. PICK nd \in {"failed", "clean", "hollow"} :
          /\ Stays(b, s, nd) \/ Moves(b, s, nd, tmp \ PartsOf(b), file)
          /\ nd = "hollow" => s # LastShard
    BY <1>1, <1>7 DEF FailDump
  <2>3. tmp \ PartsOf(b) \in SUBSET Parts /\ nd \in NodeStates
    BY <1>0, <2>2 DEF NodeStates
  <2>4. Fits(nd, file)
    BY <2>1, <2>2
  <2>5. CASE Stays(b, s, nd)
    BY <1>3, <2>1, <2>2, <2>3, <2>5
  <2>6. CASE Moves(b, s, nd, tmp \ PartsOf(b), file)
    <3> HIDE DEF Fits
    <3> QED
      BY <1>0, <2>3, <2>4, <2>6
  <2> QED
    BY <2>2, <2>5, <2>6
<1>8. CASE StartLoad(b, s)
  <2>1. Stays(b, s, "loading") /\ b \in reported /\ node[<<b, s>>] \in {"none", "failed"}
    BY <1>8 DEF StartLoad
  <2>2. ~faulty /\ OneShard => HasIn(file, b)
    BY <1>0, <2>1 DEF CountsAreSure, Sure, Has
  <2> QED
    BY <1>3, <2>1, <2>2 DEF NodeStates
<1>9. CASE FinishLoad(b, s)
  <2>1. HasIn(file, b) /\ Stays(b, s, IF <<b, s>> \in file THEN "clean" ELSE "hollow")
    BY <1>9 DEF FinishLoad, Has
  <2>2. s = LastShard => <<b, s>> \in file
    BY <2>1 DEF HasIn
  <2>3. PICK nd \in {"clean", "hollow"} : Stays(b, s, nd) /\ (nd = "hollow" => s # LastShard)
    BY <2>1, <2>2
  <2> QED
    BY <1>3, <2>1, <2>3 DEF NodeStates
<1>10. CASE FailLoad(b, s)
  <2>1. Stays(b, s, "failed") /\ node[<<b, s>>] = "loading"
    BY <1>10 DEF FailLoad
  <2> QED
    BY <1>2, <1>3, <2>1 DEF NodeStates
<1>11. CASE Evict(b, s)
  <2>1. Stays(b, s, "none") /\ node[<<b, s>>] \in {"clean", "failed", "hollow"}
    BY <1>11 DEF Evict, Evictable
  <2> QED
    BY <1>2, <1>3, <2>1 DEF NodeStates
<1>12. CASE Drop(b) /\ s = 0
  <2>1. faulty /\ Moves(b, s, node[<<b, s>>], tmp, file \ PartsOf(b)) /\ file \ PartsOf(b) \in SUBSET Parts
    BY <1>0, <1>12 DEF Drop
  <2>2. Fits(node[<<b, s>>], file \ PartsOf(b))
    BY <1>1, <2>1
  <2> HIDE DEF Fits
  <2> QED
    BY <1>0, <2>1, <2>2
<1>13. CASE Persist(b, s)
  <2> DEFINE right   == IF node[<<b, s>>] = "dirty" THEN {<<b, s>>} ELSE {}
             written == (tmp \ {<<b, s>>}) \cup right
             whole   == written \cap PartsOf(b)
             nd      == IF node[<<b, s>>] = "dirty" THEN "clean" ELSE "hollow"
  <2>1. /\ nd \in NodeStates /\ (nd = "hollow" => s # LastShard) /\ nd # "hollowing"
        /\ right \subseteq {<<b, s>>} /\ (s = LastShard => right = {<<b, s>>})
        /\ node[<<b, s>>] \in {"dirty", "hollowing"}
    BY <1>0, <1>1, <1>13 DEF Persist, NodeStates
  <2>2. written \in SUBSET Parts /\ <<b, s>> \in PartsOf(b)
    BY <1>0, <2>1 DEF Parts, PartsOf
  <2>3. CASE s = LastShard /\ Moves(b, s, nd, tmp \ PartsOf(b), (file \ PartsOf(b)) \cup whole)
    <3> DEFINE fl == (file \ PartsOf(b)) \cup whole
    <3>1. fl \in SUBSET Parts /\ tmp \ PartsOf(b) \in SUBSET Parts
      BY <1>0, <2>2
    <3>2. <<b, LastShard>> \in fl
      BY <2>1, <2>2, <2>3
    <3>3. \A x \in Blocks : <<x, LastShard>> \in file => <<x, LastShard>> \in fl
      BY <3>2 DEF PartsOf
    <3>4. Fits(nd, fl)
      BY <2>1, <3>2, <3>3 DEF Has, HasIn
    <3> HIDE DEF Fits, nd, fl
    <3>5. Moves(b, s, nd, tmp \ PartsOf(b), fl)
      BY <2>3 DEF fl
    <3> QED
      BY <2>1, <3>1, <3>4, <3>5
  <2>4. CASE s # LastShard /\ Moves(b, s, nd, written, file)
    <3>1. Fits(nd, file)
      BY <1>0, <2>1, <2>4 DEF Has
    <3> HIDE DEF Fits, nd, written
    <3> QED
      BY <1>0, <2>1, <2>2, <2>4, <3>1
  <2>5. CASE s # LastShard /\ Moves(b, s, nd, tmp, (file \ {<<b, s>>}) \cup right)
    <3> DEFINE fl == (file \ {<<b, s>>}) \cup right
    <3>1. fl \in SUBSET Parts
      BY <1>0, <2>1 DEF Parts
    <3>2. Fits(nd, fl)
      BY <1>0, <2>1, <2>5 DEF Has, HasIn
    <3>3. Moves(b, s, nd, tmp, fl)
      BY <2>5
    <3> HIDE DEF Fits, nd, fl
    <3> QED
      BY <1>0, <2>1, <3>1, <3>2, <3>3
  <2>6. QED
    BY <1>13, <2>3, <2>4, <2>5 DEF Persist
<1> QED
  BY <1>4, <1>5, <1>6, <1>7, <1>8, <1>9, <1>10, <1>11, <1>12, <1>13

(* The shard a block is dumped next is one of its shards.                   *)
LEMMA TurnTyped ==
  ASSUME Inv, NEW b \in Blocks, NEW s \in Shards,
         \/ StartDump(b, s) \/ SkipDump(b, s) \/ FinishDump(b, s) \/ Persist(b, s) \/ FailDump(b, s)
         \/ StartLoad(b, s) \/ FinishLoad(b, s) \/ FailLoad(b, s) \/ Evict(b, s)
         \/ Drop(b) /\ s = 0
  PROVE  turn' \in [Blocks -> Shards]
<1>1. turn \in [Blocks -> Shards] /\ TypeOK
  BY DEF Inv, TypeOK
<1>2. CASE NextTurn(b)
  <2>1. layout.shards \in Nat \ {0} /\ turn[b] \in Shards
    BY <1>1, ShardFacts
  <2>2. (IF turn[b] = LastShard THEN 0 ELSE turn[b] + 1) \in Shards
    BY <2>1 DEF Shards, LastShard
  <2>3. QED
    BY <1>1, <1>2, <2>2 DEF NextTurn
<1>3. CASE UNCHANGED turn
  BY <1>1, <1>3
<1>4. QED
  BY <1>2, <1>3 DEF StartDump, SkipDump, FinishDump, Persist, FailDump, StartLoad, FinishLoad, FailLoad, Evict, Drop

(* Every step of a lookup and of its surroundings keeps the invariant.      *)
LEMMA NextInv == Inv /\ [Next]_vars => Inv'
<1> SUFFICES ASSUME Inv, [Next]_vars PROVE Inv'
  OBVIOUS
<1>0. TypeOK /\ LookupInv /\ FileInv /\ CountsAreSure /\ layout.num \in Nat
  BY ShardFacts DEF Inv
<1>1. CASE UNCHANGED vars
  <2>1. UNCHANGED store /\ UNCHANGED <<lk, found, reported, early, always>>
    BY <1>1 DEF vars, store
  <2>2. TypeOK' /\ LookupInv'
    BY <1>0, <2>1, StoreKept DEF TypeOK, LookupInv, store
  <2>3. QED
    BY <1>0, <2>1, <2>2, LookupKeeps DEF CountsAreSure
<1>2. CASE Begin
  <2>0. UNCHANGED store /\ UNCHANGED <<reported, early>> /\ found' = {} /\ always' = Present
    BY <1>2 DEF Begin
  <2>1. lk' = [i |-> 1, hits |-> {}, miss |-> <<>>] /\ lk'.i = 1 /\ lk'.hits = {} /\ lk'.miss = <<>>
    BY <1>2 DEF Begin, NoLookup
  <2>2. TypeOK'
    BY <1>0, <2>0, <2>1, StoreKept DEF TypeOK, Present, PresentIn, store
  <2>3. LookupInv'
    BY <2>0, <2>1, StoreKept DEF LookupInv
  <2>4. QED
    BY <1>0, <2>0, <2>1, <2>2, <2>3, LookupKeeps DEF CountsAreSure
<1>3. CASE Probe
  <2> DEFINE i == lk.i
  <2>1. /\ i \in Blocks /\ lk.miss \in Seq(Blocks) /\ lk.hits \subseteq Blocks
        /\ UNCHANGED store /\ UNCHANGED <<found, reported, always>>
    BY <1>0, <1>3 DEF TypeOK, Probe
  <2>a. \A x \in Blocks : x \in Nat /\ x <= layout.num
    BY <1>0 DEF Blocks
  <2>2. CASE Exist(i, 0)
    <3>1. lk' = [lk EXCEPT !.i = @ + 1, !.hits = @ \cup {i}]
      BY <1>3, <2>2 DEF Probe
    <3>3. /\ lk' = [i |-> i + 1, hits |-> lk.hits \cup {i}, miss |-> lk.miss]
          /\ lk'.i = i + 1 /\ lk'.hits = lk.hits \cup {i} /\ lk'.miss = lk.miss
      BY <1>0, <3>1 DEF TypeOK
    <3>4. early' = IF ~OneShard /\ ~Has(i) THEN early \cup {i} ELSE early
      BY <1>0, <1>3, <2>2, ShardFacts DEF Probe, OneShard
    <3>2. TypeOK'
      <4>1. lk' \in [i : 0 .. layout.num + 1, hits : SUBSET Blocks, miss : Seq(Blocks)]
        BY <1>0, <2>1, <2>a, <3>3
      <4>2. early' \subseteq Blocks
        BY <1>0, <2>1, <3>4 DEF TypeOK
      <4>3. QED
        BY <1>0, <2>1, <4>1, <4>2, StoreKept DEF TypeOK, store
    <3>a. \A b \in 1 .. lk'.i - 1 : b \in lk'.hits \/ \E j \in 1 .. Len(lk'.miss) : lk'.miss[j] = b
      <4>1. lk'.i - 1 = i /\ \A b \in 1 .. i : b = i \/ b \in 1 .. i - 1
        BY <2>1, <2>a, <3>3
      <4>2. QED
        BY <1>0, <3>3, <4>1 DEF LookupInv
    <3>b. \A j \in 1 .. Len(lk.miss) : lk.miss[j] \in Blocks /\ lk.miss[j] < lk.i
      BY <1>0, <2>1 DEF LookupInv
    <3>c. \A j \in 1 .. Len(lk'.miss) : lk'.miss[j] < lk'.i
      BY <2>1, <2>a, <3>3, <3>b
    <3>5. LookupInv'
      BY <1>0, <2>1, <3>3, <3>a, <3>c, StoreKept DEF LookupInv
    <3>6. ~faulty /\ i \notin early' => Sure(i)
      <4>1. node[<<i, 0>>] # "none"
        BY <2>2 DEF Exist
      <4>2. QED
        BY <1>0, <2>1, <3>4, <4>1 DEF CountsAreSure, Sure
    <3>7. QED
      BY <1>0, <2>1, <3>2, <3>3, <3>4, <3>5, <3>6, LookupKeeps DEF CountsAreSure
  <2>3. CASE ~Exist(i, 0)
    <3>1. lk' = [lk EXCEPT !.i = @ + 1, !.miss = Append(@, i)] /\ early' = early
      BY <1>3, <2>3 DEF Probe
    <3>3. /\ lk' = [i |-> i + 1, hits |-> lk.hits, miss |-> Append(lk.miss, i)]
          /\ lk'.i = i + 1 /\ lk'.hits = lk.hits /\ lk'.miss = Append(lk.miss, i)
      BY <1>0, <3>1 DEF TypeOK
    <3>a. lk'.miss \in Seq(Blocks)
      BY <2>1, <3>3
    <3>2. TypeOK'
      <4>1. lk' \in [i : 0 .. layout.num + 1, hits : SUBSET Blocks, miss : Seq(Blocks)]
        BY <1>0, <2>1, <2>a, <3>3, <3>a
      <4>2. QED
        BY <1>0, <2>1, <3>1, <4>1, StoreKept DEF TypeOK, store
    <3>b. /\ Len(lk.miss) \in Nat /\ Len(lk'.miss) = Len(lk.miss) + 1
          /\ lk'.miss[Len(lk.miss) + 1] = i
          /\ \A j \in 1 .. Len(lk.miss) : lk'.miss[j] = lk.miss[j] /\ lk.miss[j] \in Blocks
      BY <2>1, <3>3
    <3>c. i \in always => Has(i)
      BY <1>0, <2>3, ShardFacts DEF LookupInv, Present, PresentIn, Exist, Has
    <3>d. \A b \in 1 .. lk'.i - 1 : b \in lk'.hits \/ \E j \in 1 .. Len(lk'.miss) : lk'.miss[j] = b
      <4> SUFFICES ASSUME NEW b \in 1 .. i, b \notin lk.hits
                   PROVE  \E j \in 1 .. Len(lk.miss) + 1 : lk'.miss[j] = b
        <5>1. lk'.i - 1 = i
          BY <2>1, <2>a, <3>3
        <5>2. QED
          BY <3>3, <3>b, <5>1
      <4>1. CASE b = i
        BY <3>b, <4>1
      <4>2. CASE b # i
        <5>1. b \in 1 .. lk.i - 1
          BY <2>1, <2>a, <4>2
        <5>2. PICK j \in 1 .. Len(lk.miss) : lk.miss[j] = b
          BY <1>0, <5>1 DEF LookupInv
        <5>3. QED
          BY <3>b, <5>2
      <4>3. QED
        BY <4>1, <4>2
    <3>e. \A j \in 1 .. Len(lk'.miss) : lk'.miss[j] < lk'.i
      BY <1>0, <2>1, <2>a, <3>3, <3>b DEF LookupInv
    <3>f. \A j, k \in 1 .. Len(lk'.miss) : j < k => lk'.miss[j] < lk'.miss[k]
      BY <1>0, <2>1, <2>a, <3>3, <3>b DEF LookupInv
    <3>g. (\A j \in 1 .. Len(lk.miss) : lk.miss[j] \in always => Has(lk.miss[j]))'
      <4>1. ASSUME NEW j \in 1 .. Len(lk.miss) + 1, lk'.miss[j] \in always PROVE Has(lk'.miss[j])
        <5>1. CASE j = Len(lk.miss) + 1
          BY <3>b, <3>c, <4>1, <5>1
        <5>2. CASE j # Len(lk.miss) + 1
          BY <1>0, <3>b, <4>1, <5>2 DEF LookupInv
        <5>3. QED
          BY <5>1, <5>2
      <4>2. file' = file /\ LastShard' = LastShard /\ always' = always
        BY <2>1, StoreKept DEF store
      <4>3. \A j \in 1 .. Len(lk'.miss) : lk'.miss[j] \in always => <<lk'.miss[j], LastShard>> \in file
        BY <3>b, <4>1 DEF Has, HasIn
      <4>4. QED
        BY <4>2, <4>3 DEF Has, HasIn
    <3>4. LookupInv'
      BY <1>0, <2>1, <3>d, <3>e, <3>f, <3>g, StoreKept DEF LookupInv
    <3>6. QED
      BY <1>0, <2>1, <3>1, <3>2, <3>3, <3>4, LookupKeeps DEF CountsAreSure
  <2>4. QED
    BY <2>2, <2>3
<1>4. CASE ReturnAll \/ ReturnPrefix
  <2>1. found' \subseteq Blocks /\ \A b \in found' : b \in lk.hits \/ Has(b)
    BY <1>0, <1>4, ReportedIsSure
  <2>2. lk' = NoLookup /\ reported' = reported \cup found' /\ UNCHANGED store
        /\ always' = {} /\ early' = early
    BY <1>4 DEF ReturnAll, ReturnPrefix, Return
  <2>a. lk'.i = 0 /\ lk'.hits = {} /\ lk'.miss = <<>>
    BY <2>2 DEF NoLookup
  <2>3. TypeOK'
    BY <1>0, <2>1, <2>2, StoreKept DEF TypeOK, NoLookup, store
  <2>4. LookupInv'
    BY <1>0, <2>2, <2>a, StoreKept DEF LookupInv
  <2>5. \A b \in reported' \cup lk'.hits : b \in reported \cup lk.hits \/ Sure(b)
    BY <2>1, <2>2, <2>a DEF Sure
  <2>6. QED
    BY <1>0, <2>2, <2>3, <2>4, <2>5, LookupKeeps DEF CountsAreSure
<1>5. CASE BackendErrs
  <2>2. /\ lk' = NoLookup /\ lk'.i = 0 /\ lk'.hits = {} /\ lk'.miss = <<>>
        /\ always' = {} /\ UNCHANGED store /\ UNCHANGED <<found, reported, early>>
    BY <1>5 DEF BackendErrs, NoLookup
  <2>1. TypeOK'
    BY <1>0, <2>2, StoreKept DEF TypeOK, NoLookup, store
  <2>3. LookupInv'
    BY <1>0, <2>2, StoreKept DEF LookupInv
  <2>5. QED
    BY <1>0, <2>1, <2>2, <2>3, LookupKeeps DEF CountsAreSure
<1>6. ASSUME NEW b \in Blocks, NEW s \in Shards,
             \/ StartDump(b, s) \/ SkipDump(b, s) \/ FinishDump(b, s) \/ Persist(b, s) \/ FailDump(b, s)
             \/ StartLoad(b, s) \/ FinishLoad(b, s) \/ FailLoad(b, s) \/ Evict(b, s)
             \/ Drop(b) /\ s = 0
      PROVE  Inv'
  <2>1. PICK nd \in NodeStates, tm \in SUBSET Parts, fl \in SUBSET Parts :
          /\ Moves(b, s, nd, tm, fl)
          /\ nd \in {"hollow", "hollowing"} => s # LastShard
          /\ ~faulty => \A x \in Blocks : Has(x) => HasIn(fl, x)
          /\ ~faulty /\ OneShard /\ nd \notin {"dumping", "dirty"} => HasIn(fl, b)
    BY <1>0, <1>6, MovesAre
  <2>a. turn' \in [Blocks -> Shards]
    BY <1>0, <1>6, TurnTyped
  <2>2. QED
    BY <2>1, <2>a, MovesKeep, MovesCount DEF Inv
<1>7. QED
  <2>1. ASSUME NEW b \in Blocks, Drop(b) PROVE Inv'
    BY <1>0, <1>6, <2>1, ShardFacts
  <2>2. QED
    BY <1>1, <1>2, <1>3, <1>4, <1>5, <1>6, <2>1 DEF Next

(* The inductive invariant of the cache store's lookup.                     *)
LEMMA InvHolds == Spec => []Inv
  BY InitInv, NextInv, PTL DEF Spec

(* A block a lookup of the cache store reports can be loaded, for any       *)
(* number of blocks and shards and however loads, dumps and evictions       *)
(* interleave with the probes and the backend's answer, as long as nothing  *)
(* fails: every block of one shard, and of several shards each that the     *)
(* backend had, whole, when shard 0 of it was hit.                          *)
THEOREM FoundIsPresentHolds == Spec => []FoundIsPresent
<1>1. ASSUME Inv PROVE FoundIsPresent
  <2>0. TypeOK /\ FileInv /\ CountsAreSure
    BY <1>1 DEF Inv
  <2>1. SUFFICES ASSUME ~faulty, NEW b \in found, b \notin early, b \notin torn PROVE b \in Present
    BY DEF FoundIsPresent, Unsure
  <2>2. b \in Blocks /\ Sure(b)
    BY <2>0, <2>1 DEF TypeOK, CountsAreSure
  <2>3. CASE Has(b)
    <3>1. \A s \in Shards : <<b, s>> \in file
      BY <2>0, <2>1, <2>2, <2>3 DEF FileInv, PartsOf
    <3>2. QED
      BY <2>2, <2>3, <3>1 DEF Present, PresentIn, Has
  <2>4. CASE OneShard /\ node[<<b, 0>>] \in {"dumping", "dirty"}
    BY <2>0, <2>2, <2>4, ShardFacts DEF Present, PresentIn
  <2>5. QED
    BY <2>2, <2>3, <2>4 DEF Sure
<1>2. QED
  BY <1>1, InvHolds, PTL

(* A lookup of the cache store reports every block that stays with all its  *)
(* shards, with and without faults: a block evicted after it was hit, or    *)
(* missed in the table and asked of the backend later, is not lost between  *)
(* the two.                                                                 *)
THEOREM FindsWhatStaysHolds == Spec => FindsWhatStays
<1> DEFINE Kept == /\ ReturnAll => always \subseteq found'
                   /\ ReturnPrefix => \A n \in Blocks : 1 .. n \subseteq always => n \in found'
<1>1. ASSUME Inv PROVE Kept
  <2>1. /\ layout.num \in Nat /\ always \subseteq Blocks
        /\ lk.miss \in Seq(Blocks) /\ Len(lk.miss) \in Nat
        /\ \A j \in 1 .. Len(lk.miss) : lk.miss[j] \in Blocks
    BY <1>1, ShardFacts DEF Inv, TypeOK
  <2>2. LookupInv
    BY <1>1 DEF Inv
  <2>3. ASSUME ReturnAll PROVE always \subseteq found'
    <3>1. SUFFICES ASSUME NEW b \in always, b \notin lk.hits PROVE b \in found'
      BY <2>3 DEF ReturnAll, AllFound
    <3>a. b \in 1 .. lk.i - 1
      BY <1>1, <2>1, <2>3, <3>1 DEF Inv, TypeOK, ReturnAll, Return, Blocks
    <3>2. PICK j \in 1 .. Len(lk.miss) : lk.miss[j] = b
      BY <2>2, <3>1, <3>a DEF LookupInv
    <3>3. QED
      BY <2>2, <2>3, <3>1, <3>2 DEF LookupInv, ReturnAll, AllFound, BackendLookup
  <2>4. ASSUME ReturnPrefix, NEW n \in Blocks, 1 .. n \subseteq always PROVE n \in found'
    <3>1. PICK m \in BackendPrefix(lk.miss) : found' = PrefixFound(lk.miss, m)
      BY <2>4 DEF ReturnPrefix
    <3>3. CASE m = Len(lk.miss)
      BY <2>4, <3>1, <3>3 DEF PrefixFound
    <3>4. CASE m # Len(lk.miss)
      <4>1. m + 1 \in 1 .. Len(lk.miss) /\ ~Has(lk.miss[m + 1])
        BY <2>1, <3>1, <3>4 DEF BackendPrefix
      <4>2. lk.miss[m + 1] \notin 1 .. n
        BY <2>2, <2>4, <4>1 DEF LookupInv
      <4>3. QED
        BY <2>1, <2>4, <3>1, <3>4, <4>1, <4>2 DEF PrefixFound, Blocks
    <3>5. QED
      BY <3>3, <3>4
  <2>5. QED
    BY <2>3, <2>4
<1>2. Inv => [Kept]_vars
  BY <1>1
<1>3. QED
  BY <1>2, InvHolds, PTL DEF FindsWhatStays

----------------------------------------------------------------------------
(* The prefix of several groups: the invariant                              *)

HSize(i) == EffectiveBlockSize(HitGroups[i])
HGroup(i) == i \in DOMAIN HitGroups /\ i \in Asked

(* What a group answered is stored and aligned.                             *)
HAligned(x) == x % ncfg.lcm = 0
HFound(i) == /\ nblocks[i] \in Nat /\ HAligned(nblocks[i] * HSize(i))
             /\ Usable(HitGroups[i], ncfg.held[i], nblocks[i], FALSE)
HFoundAll == \A i : HGroup(i) => nblocks[i] = None \/ HFound(i)

HTyped ==
  /\ ncfg \in HitSetups /\ nhit \in Nat /\ ncurr \in Nat /\ nidx \in 1..Len(HitGroups) + 1
  /\ npc \in {"loop", "truncate", "allocate", "done"} /\ DOMAIN nblocks = DOMAIN HitGroups
  /\ npc = "allocate" => \A i : HGroup(i) => nblocks[i] \in Nat
  /\ npc = "done" => nreq.external \in Nat

(* While groups are asked: the hit only shrinks, and groups already asked   *)
(* hold it; a group that is not asked again has answered exactly the hit.   *)
HLoop ==
  /\ ncurr <= nhit /\ HFoundAll
  /\ (\E i : HGroup(i) /\ nblocks[i] # None) => HAligned(ncurr)
  /\ \A i : HGroup(i) /\ i < nidx => nblocks[i] # None
  /\ \A i : HGroup(i) /\ nblocks[i] # None /\ (i < nidx \/ IsFull(HitGroups[i])) => ncurr <= nblocks[i] * HSize(i)
  /\ \A i : HGroup(i) /\ i < nidx /\ ~IsFull(HitGroups[i]) => nblocks[i] * HSize(i) <= nhit
  /\ \A i : HGroup(i) /\ i + 1 = nidx /\ ~IsFull(HitGroups[i]) => nblocks[i] * HSize(i) = ncurr
(* All agree, but full groups may have more.                                *)
HAgreed == \A i : HGroup(i) =>
  /\ HFound(i) /\ HAligned(nhit)
  /\ nhit <= nblocks[i] * HSize(i) /\ (~IsFull(HitGroups[i]) => nblocks[i] * HSize(i) = nhit)
HLongest == ncfg.eagle = {} => \A n \in CommonHits : n <= IF npc = "loop" THEN ncurr ELSE nhit

HInv ==
  /\ HTyped /\ (npc = "loop" => HLoop) /\ (npc = "truncate" => HAgreed)
  /\ GroupsAgree /\ HLongest /\ AllocationExact

----------------------------------------------------------------------------
(* Numbers                                                                  *)

(* A set of numbers has a least one.                                        *)
LEMMA LeastNat ==
  ASSUME NEW S, S \subseteq Nat, S # {}
  PROVE  \E x \in S : \A y \in S : x <= y
<1> DEFINE R == {p \in Nat \X Nat : p[1] < p[2]}
<1>1. IsWellFoundedOn(OpToRel(<, Nat), Nat)
  BY NatLessThanWellFounded
<1>2. OpToRel(<, Nat) = R
  BY DEF OpToRel
<1>3. IsWellFoundedOn(R, Nat)
  BY <1>1, <1>2
<1> HIDE DEF R
<1>4. PICK x \in S : \A y \in S : ~(<<y, x>> \in R)
  BY <1>3, WFMin
<1>5. ASSUME NEW y \in S  PROVE x <= y
  <2>1. x \in Nat /\ y \in Nat /\ <<y, x>> \notin R
    BY <1>4
  <2>2. y < x => <<y, x>> \in R
    BY <2>1 DEF R
  <2> QED BY <2>1, <2>2
<1> QED BY <1>5

(* A bounded set of numbers has a greatest one.                             *)
LEMMA GreatestNat ==
  ASSUME NEW S, S \subseteq Nat, S # {}, NEW b \in Nat, \A x \in S : x <= b
  PROVE  \E x \in S : \A y \in S : x >= y
<1> DEFINE T == {n \in Nat : \E x \in S : n = b - x}
<1>1. T \subseteq Nat /\ T # {}
  <2>1. PICK x \in S : x \in Nat /\ x <= b
    OBVIOUS
  <2>2. b - x \in T
    BY <2>1
  <2> QED BY <2>2
<1>2. \A x \in S : b - x \in T
  OBVIOUS
<1>3. \A n \in T : \E x \in S : n = b - x
  OBVIOUS
<1> HIDE DEF T
<1>4. PICK n \in T : \A m \in T : n <= m
  BY <1>1, LeastNat
<1>5. PICK x \in S : n = b - x
  BY <1>3
<1>6. ASSUME NEW y \in S  PROVE x >= y
  <2>1. b - y \in T /\ n <= b - y /\ y \in Nat /\ x \in Nat
    BY <1>2, <1>4
  <2> QED BY <1>5, <2>1
<1> QED BY <1>6

(* Factors keep the order.                                                  *)
LEMMA MulIs ==
  ASSUME NEW x \in Int, NEW y \in Int, NEW b \in Nat, b >= 1
  PROVE  x <= y <=> x * b <= y * b
OBVIOUS

(* A quotient is rounded down.                                              *)
LEMMA DivIs ==
  ASSUME NEW a \in Nat, NEW b \in Nat, b >= 1
  PROVE  a \div b \in Nat /\ (a \div b) * b <= a /\ a < (a \div b) * b + b
OBVIOUS

(* What fits into a number fits into its quotient.                          *)
LEMMA DivLe ==
  ASSUME NEW a \in Nat, NEW b \in Nat, b >= 1, NEW q \in Nat
  PROVE  q * b <= a <=> q <= a \div b
<1>1. PICK d \in Nat : d = a \div b /\ d * b <= a /\ a < d * b + b
  BY DivIs
<1>2. q <= d => q * b <= d * b
  BY MulIs
<1>3. ~(q <= d) => (d + 1) * b <= q * b
  BY MulIs
<1>4. (d + 1) * b = d * b + b
  OBVIOUS
<1>5. d * b \in Nat /\ q * b \in Nat
  OBVIOUS
<1> QED BY <1>1, <1>2, <1>3, <1>4, <1>5

(* Multiples.                                                               *)
LEMMA MultipleIs ==
  ASSUME NEW a \in Nat, NEW b \in Nat, b >= 1
  PROVE  /\ a % b = 0 => (a \div b) * b = a
         /\ (a * b) % b = 0 /\ (a * b) \div b = a
OBVIOUS

(* A multiple of a multiple.                                                *)
LEMMA MultipleOf ==
  ASSUME NEW x \in Nat, NEW l \in Nat, l >= 1, NEW s \in Nat, s >= 1, x % l = 0, l % s = 0
  PROVE  x % s = 0
<1>1. PICK k \in Nat : k * l = x
  <2>1. x \div l \in Nat
    BY DivIs
  <2> QED BY <2>1, MultipleIs
<1>2. PICK m \in Nat : m * s = l
  <2>1. l \div s \in Nat
    BY DivIs
  <2> QED BY <2>1, MultipleIs
<1>3. PICK y \in Nat : y = k * m
  OBVIOUS
<1>4. x = y * s
  BY <1>1, <1>2, <1>3
<1> QED BY <1>3, <1>4, MultipleIs

----------------------------------------------------------------------------
(* The groups                                                               *)

(* A group is asked unless it is a mamba group of the per-group lookup.     *)
LEMMA HGroupIs ==
  ASSUME NEW i
  PROVE  HGroup(i) <=> i \in DOMAIN HitGroups /\ ~(ncfg.perGroup /\ HitGroups[i].kind = "mamba")
BY DEF HGroup, Asked

(* Sizes of the groups: at least one token, dividing lcm_block_size.        *)
LEMMA HSetup ==
  ASSUME ncfg \in HitSetups
  PROVE  /\ ncfg.max \in Nat /\ ncfg.lcm \in Nat /\ ncfg.lcm >= 1 /\ ncfg.external \subseteq Nat
         /\ Len(HitGroups) \in Nat /\ DOMAIN HitGroups = 1..Len(HitGroups)
         /\ \A i \in DOMAIN HitGroups :
              /\ HSize(i) \in Nat /\ HSize(i) >= 1 /\ ncfg.lcm % HSize(i) = 0
              /\ HitGroups[i].bs \in Nat /\ HitGroups[i].bs >= 1 /\ HitGroups[i].ratio \in Nat /\ HitGroups[i].ratio >= 1
              /\ HSize(i) = HitGroups[i].bs * HitGroups[i].ratio /\ HitGroups[i].bs <= HSize(i)
              /\ HitGroups[i].kind = "window" => HitGroups[i].window \in Nat /\ HitGroups[i].window >= 2
<1>1. HitShape(ncfg)
  BY HitAssumption
<1>2. ASSUME NEW i \in DOMAIN HitGroups
      PROVE  /\ HSize(i) \in Nat /\ HSize(i) >= 1 /\ ncfg.lcm % HSize(i) = 0
             /\ HitGroups[i].bs \in Nat /\ HitGroups[i].bs >= 1 /\ HitGroups[i].ratio \in Nat /\ HitGroups[i].ratio >= 1
             /\ HSize(i) = HitGroups[i].bs * HitGroups[i].ratio /\ HitGroups[i].bs <= HSize(i)
             /\ HitGroups[i].kind = "window" => HitGroups[i].window \in Nat /\ HitGroups[i].window >= 2
  <2>1. PICK b \in Nat, r \in Nat : b = HitGroups[i].bs /\ r = HitGroups[i].ratio /\ b >= 1 /\ r >= 1
    BY <1>1, <1>2 DEF HitShape, HitGroups
  <2>2. HSize(i) = b * r /\ b * r \in Nat
    BY <2>1 DEF HSize, EffectiveBlockSize
  <2>3. 1 * b <= r * b
    BY <2>1, MulIs
  <2>4. b * r >= b
    BY <2>1, <2>3
  <2>5. ncfg.lcm % (b * r) = 0
    BY <1>1, <1>2, <2>1 DEF HitShape, HitGroups
  <2>6. HitGroups[i].kind = "window" => HitGroups[i].window \in Nat /\ HitGroups[i].window >= 2
    BY <1>1, <1>2 DEF HitShape, HitGroups
  <2> QED BY <2>1, <2>2, <2>4, <2>5, <2>6
<1> QED BY <1>1, <1>2 DEF HitShape, HitGroups

(* A length that is aligned is a number of blocks of each group.            *)
LEMMA HAlignedIs ==
  ASSUME ncfg \in HitSetups, NEW x \in Nat, HAligned(x), NEW i \in DOMAIN HitGroups
  PROVE  /\ x % HSize(i) = 0 /\ x \div HSize(i) \in Nat /\ (x \div HSize(i)) * HSize(i) = x
         /\ Down(x, HSize(i)) = x
<1>1. PICK s \in Nat, l \in Nat : s = HSize(i) /\ s >= 1 /\ l = ncfg.lcm /\ l >= 1 /\ l % s = 0
  BY HSetup
<1>2. x % s = 0
  BY <1>1, MultipleOf DEF HAligned
<1>3. x \div s \in Nat /\ (x \div s) * s = x
  BY <1>1, <1>2, MultipleIs, DivIs
<1> QED BY <1>1, <1>2, <1>3 DEF Down

(* Fewer blocks of a full group are there too.                              *)
LEMMA HUsableLess ==
  ASSUME NEW g, NEW held, NEW n \in Nat, Usable(g, held, n, FALSE), IsFull(g), NEW m \in Nat, m <= n
  PROVE  Usable(g, held, m, FALSE)
<1>1. \A k \in 1..n : k \in held
  BY DEF Usable
<1> QED BY <1>1 DEF Usable

(* A block that is left out is not needed.                                  *)
LEMMA HUsableDrop ==
  ASSUME NEW g, NEW held, NEW n \in Nat, NEW drop \in BOOLEAN, Usable(g, held, n, drop)
  PROVE  Usable(g, held, n, FALSE)
<1> DEFINE end == n + (IF drop THEN 1 ELSE 0)
<1>1. end \in Nat /\ n <= end
  OBVIOUS
<1>2. {k \in 1..end : IsFull(g) \/ k > n - Needs(g)} \subseteq held
  BY DEF Usable
<1> HIDE DEF end
<1>3. {k \in 1..n : IsFull(g) \/ k > n - Needs(g)} \subseteq held
  BY <1>1, <1>2
<1>4. n + 0 = n
  OBVIOUS
<1> QED BY <1>3, <1>4 DEF Usable

(* No block is always there.                                                *)
LEMMA HUsableNone ==
  ASSUME NEW g, NEW held
  PROVE  Usable(g, held, 0, FALSE)
BY DEF Usable

HAnswer(i, held, most, drop, f) ==
  /\ f \in Nat /\ HAligned(f * HSize(i)) /\ Usable(HitGroups[i], held, f, FALSE)
  /\ f * HSize(i) <= most /\ (drop => f = 0 \/ f * HSize(i) + HSize(i) <= most)
  /\ ~drop => \A n \in Nat : n * HSize(i) <= most /\ HAligned(n * HSize(i)) /\ Usable(HitGroups[i], held, n, FALSE) => n <= f

(* What a manager answers fits, is there, and is the most there is unless a *)
(* block is left out.                                                       *)
LEMMA HManagerHitIs ==
  ASSUME ncfg \in HitSetups, NEW i \in DOMAIN HitGroups, NEW held, NEW most \in Nat, NEW drop \in BOOLEAN,
         NEW f, f = ManagerHit(HitGroups[i], held, most, drop)
  PROVE  HAnswer(i, held, most, drop, f)
<1> DEFINE g == HitGroups[i]
           size == HSize(i)
           longest == (most \div size) - (IF drop THEN 1 ELSE 0)
           fits == {0} \union {n \in 1..longest : (n * size) % ncfg.lcm = 0 /\ Usable(g, held, n, drop)}
<1>1. f = CHOOSE n \in fits : \A k \in fits : k <= n
  BY DEF ManagerHit, HSize
<1>2. size \in Nat /\ size >= 1 /\ ncfg.lcm \in Nat /\ ncfg.lcm >= 1
  BY HSetup
<1>3. most \div size \in Nat /\ longest \in Int /\ longest <= most \div size /\ (drop => longest + 1 = most \div size)
      /\ (~drop => longest = most \div size)
  <2> HIDE DEF size
  <2>1. most \div size \in Nat
    BY <1>2, DivIs
  <2> QED BY <2>1
<1>4. \A n : n \in fits <=> n = 0 \/ (n \in 1..longest /\ HAligned(n * size) /\ Usable(g, held, n, drop))
  BY DEF HAligned
<1> HIDE DEF fits, longest, g, size
<1>5. fits \subseteq Nat /\ 0 \in fits
  BY <1>3, <1>4
<1>6. \A n \in fits : n <= most \div size
  BY <1>3, <1>4
<1>7. PICK x \in fits : \A y \in fits : x >= y
  BY <1>3, <1>5, <1>6, GreatestNat
<1>8. f \in fits /\ \A k \in fits : k <= f
  BY <1>1, <1>5, <1>7
<1>9. f \in Nat
  BY <1>5, <1>8
<1>10. HAligned(f * size) /\ Usable(g, held, f, FALSE)
  <2>1. CASE f = 0
    <3>1. 0 * size = 0 /\ 0 % ncfg.lcm = 0
      BY <1>2
    <3> QED BY <2>1, <3>1, HUsableNone DEF HAligned
  <2>2. CASE f # 0
    BY <1>4, <1>8, <1>9, <2>2, HUsableDrop
  <2> QED BY <2>1, <2>2
<1>11. f * size <= most
  BY <1>2, <1>6, <1>8, <1>9, DivLe
<1>12. drop => f = 0 \/ f * size + size <= most
  <2>1. ASSUME drop, f # 0  PROVE f * size + size <= most
    <3>4. f \in 1..longest
      BY <1>4, <1>8, <2>1
    <3>5. PICK q \in Nat : q = most \div size /\ longest + 1 = q
      BY <1>3, <2>1
    <3>1. f + 1 \in Nat /\ f + 1 <= most \div size
      BY <1>3, <1>9, <3>4, <3>5
    <3>2. (f + 1) * size <= most
      BY <1>2, <3>1, DivLe
    <3>3. (f + 1) * size = f * size + size
      BY <1>2, <1>9
    <3> QED BY <3>2, <3>3
  <2> QED BY <2>1
<1>13. ASSUME ~drop, NEW n \in Nat, n * size <= most, HAligned(n * size), Usable(g, held, n, FALSE)  PROVE n <= f
  <2>1. n <= most \div size
    BY <1>2, <1>13, DivLe
  <2>2. drop = FALSE
    BY <1>13
  <2>3. Usable(g, held, n, drop)
    BY <1>13, <2>2, Zenon
  <2>4. PICK q \in Nat : q = most \div size /\ longest = q
    BY <1>3, <1>13
  <2>5. n = 0 \/ n \in 1..longest
    BY <2>1, <2>4
  <2>6. n \in fits
    BY <1>4, <1>13, <2>3, <2>5
  <2> QED BY <1>8, <2>6
<1> QED BY <1>9, <1>10, <1>11, <1>12, <1>13 DEF HAnswer, g, size

----------------------------------------------------------------------------
(* The steps of the loop                                                    *)

(* The setup never changes.                                                 *)
LEMMA HSame ==
  ASSUME ncfg' = ncfg
  PROVE  /\ HitGroups' = HitGroups /\ Asked' = Asked /\ CommonHits' = CommonHits
         /\ \A i : (HGroup(i)' <=> HGroup(i)) /\ HSize(i)' = HSize(i)
         /\ \A x : HAligned(x)' <=> HAligned(x)
         /\ \A i, x : UsableAt(i, x)' <=> UsableAt(i, x)
BY DEF HitGroups, Asked, CommonHits, HGroup, HSize, HAligned, UsableAt, Usable, EffectiveBlockSize, IsFull, Needs

(* The loop's invariant says nothing of the later phases.                   *)
LEMMA HLoopStep ==
  ASSUME HInv, npc = "loop", npc' = "loop", HTyped', HLoop', HLongest'
  PROVE  HInv'
BY DEF HInv, GroupsAgree, AllocationExact

(* No group was asked: the hit is the longest allowed.                      *)
LEMMA HInitIs ==
  ASSUME HitInit
  PROVE  HInv
<1>1. HTyped
  <2>1. ncfg \in HitSetups
    BY DEF HitInit
  <2> QED BY <2>1, HSetup DEF HTyped, HitInit, HitGroups
<1>2. HLoop
  <2>1. \A i : HGroup(i) => i \in Nat /\ i >= 1 /\ nblocks[i] = None
    BY <1>1, HSetup DEF HGroup, HitInit, HTyped, HitGroups
  <2>2. nidx = 1 /\ ncurr = nhit /\ nhit \in Nat
    BY <1>1 DEF HitInit, HTyped
  <2>3. HFoundAll
    BY <2>1 DEF HFoundAll
  <2>4. ~ \E i : HGroup(i) /\ nblocks[i] # None
    BY <2>1
  <2>5. \A i : HGroup(i) => ~(i < nidx) /\ ~(i + 1 = nidx)
    BY <2>1, <2>2
  <2> QED BY <2>2, <2>3, <2>4, <2>5 DEF HLoop
<1>3. HLongest
  <2>1. npc = "loop" /\ ncurr = ncfg.max /\ ncfg.max \in Nat
    BY <1>1, HSetup DEF HitInit, HTyped
  <2>2. \A n \in CommonHits : n <= ncfg.max
    BY <2>1 DEF CommonHits
  <2> QED BY <2>1, <2>2 DEF HLongest
<1> QED BY <1>1, <1>2, <1>3 DEF HInv, HitInit, GroupsAgree, AllocationExact

(* A full group that was asked before holds the aligned hit already.        *)
LEMMA HAskFullKeeps ==
  ASSUME HInv, AskFull
  PROVE  HInv'
<1>1. HTyped /\ HLoop /\ HLongest /\ npc = "loop" /\ ncfg' = ncfg
  BY DEF HInv, AskFull
<1>2. nidx \in DOMAIN HitGroups /\ nidx \in Nat /\ Len(HitGroups) \in Nat /\ ncurr \in Nat /\ nidx <= Len(HitGroups)
  BY <1>1, HSetup DEF HTyped, AskFull
<1>3. HGroup(nidx) /\ IsFull(HitGroups[nidx]) /\ nblocks[nidx] # None
  BY <1>2, HGroupIs DEF AskFull, IsFull
<1>4. HAligned(ncurr)
  BY <1>1, <1>3 DEF HLoop
<1>5. ncurr' = ncurr
  <2>1. ncfg \in HitSetups
    BY <1>1 DEF HTyped
  <2>2. Down(ncurr, HSize(nidx)) = ncurr
    BY <1>2, <1>4, <2>1, HAlignedIs
  <2> QED BY <2>2 DEF AskFull, AlignedHit, HSize
<1>6. nhit' = nhit /\ nblocks' = nblocks /\ npc' = "loop" /\ nidx' = nidx + 1 /\ nreq' = nreq
  BY <1>1 DEF AskFull
<1>7. HTyped'
  BY <1>1, <1>2, <1>5, <1>6, HSame DEF HTyped
<1>8. \A i : HGroup(i) => i \in Nat
  BY <1>1, HSetup DEF HGroup, HTyped
<1>9. HFoundAll'
  BY <1>1, <1>6, HSame DEF HLoop, HFoundAll, HFound
<1>10. HLoop'
  <2>1. \A i : HGroup(i) => (i < nidx' <=> i < nidx \/ i = nidx) /\ (i + 1 = nidx' <=> i = nidx)
    BY <1>2, <1>6, <1>8
  <2>2. HAligned(ncurr)'
    BY <1>1, <1>4, <1>5, HSame DEF HAligned
  <2>3. \A i : HGroup(i)' /\ i < nidx' => nblocks'[i] # None
    BY <1>1, <1>3, <1>6, <2>1, HSame DEF HLoop
  <2>4. \A i : HGroup(i)' /\ nblocks'[i] # None /\ (i < nidx' \/ IsFull(HitGroups'[i])) => ncurr' <= nblocks'[i] * HSize(i)'
    BY <1>1, <1>3, <1>5, <1>6, <2>1, HSame DEF HLoop
  <2>5. \A i : HGroup(i)' /\ i < nidx' /\ ~IsFull(HitGroups'[i]) => nblocks'[i] * HSize(i)' <= nhit'
    BY <1>1, <1>3, <1>5, <1>6, <2>1, HSame DEF HLoop
  <2>6. \A i : HGroup(i)' /\ i + 1 = nidx' /\ ~IsFull(HitGroups'[i]) => nblocks'[i] * HSize(i)' = ncurr'
    BY <1>1, <1>3, <1>5, <1>6, <2>1, HSame DEF HLoop
  <2>7. ncurr' <= nhit'
    BY <1>1, <1>5, <1>6 DEF HLoop
  <2> QED BY <1>9, <2>2, <2>3, <2>4, <2>5, <2>6, <2>7 DEF HLoop, IsFull
<1>11. HLongest'
  BY <1>1, <1>5, <1>6, HSame DEF HLongest
<1> QED BY <1>1, <1>6, <1>7, <1>10, <1>11, HLoopStep

(* The mamba groups are not part of the agreement.                          *)
LEMMA HSkipMambaKeeps ==
  ASSUME HInv, SkipMamba
  PROVE  HInv'
<1>1. HTyped /\ HLoop /\ HLongest /\ npc = "loop" /\ ncfg' = ncfg
  BY DEF HInv, SkipMamba
<1>2. nidx \in DOMAIN HitGroups /\ nidx \in Nat /\ Len(HitGroups) \in Nat /\ nidx <= Len(HitGroups)
  BY <1>1, HSetup DEF HTyped, SkipMamba
<1>3. ~HGroup(nidx)
  BY HGroupIs DEF SkipMamba
<1>4. nhit' = nhit /\ ncurr' = ncurr /\ npc' = "loop" /\ nidx' = nidx + 1 /\ nreq' = nreq
  BY <1>1 DEF SkipMamba
<1>5. DOMAIN nblocks' = DOMAIN nblocks /\ \A i : HGroup(i) => nblocks'[i] = nblocks[i]
  BY <1>1, <1>3 DEF SkipMamba, HTyped, HGroup
<1>7. HTyped'
  BY <1>1, <1>2, <1>4, <1>5, HSame DEF HTyped
<1>8. \A i : HGroup(i) => i \in Nat
  BY <1>1, HSetup DEF HGroup, HTyped
<1>9. HFoundAll'
  <2>1. \A i : HGroup(i) => (HFound(i)' <=> HFound(i))
    BY <1>1, <1>5, HSame DEF HFound, HGroup
  <2> QED BY <1>1, <1>5, <2>1, HSame DEF HLoop, HFoundAll
<1>10. HLoop'
  <2>1. \A i : HGroup(i) => (i < nidx' <=> i < nidx) /\ ~(i + 1 = nidx')
    BY <1>2, <1>3, <1>4, <1>8
  <2>2. (\E i : HGroup(i)' /\ nblocks'[i] # None) => HAligned(ncurr)'
    BY <1>1, <1>4, <1>5, HSame DEF HLoop, HAligned
  <2>3. \A i : HGroup(i)' /\ i < nidx' => nblocks'[i] # None
    BY <1>1, <1>5, <2>1, HSame DEF HLoop
  <2>4. \A i : HGroup(i)' /\ nblocks'[i] # None /\ (i < nidx' \/ IsFull(HitGroups'[i])) => ncurr' <= nblocks'[i] * HSize(i)'
    BY <1>1, <1>4, <1>5, <2>1, HSame DEF HLoop
  <2>5. \A i : HGroup(i)' /\ i < nidx' /\ ~IsFull(HitGroups'[i]) => nblocks'[i] * HSize(i)' <= nhit'
    BY <1>1, <1>4, <1>5, <2>1, HSame DEF HLoop
  <2>6. \A i : HGroup(i)' => ~(i + 1 = nidx')
    BY <1>1, <2>1, HSame
  <2>7. ncurr' <= nhit'
    BY <1>1, <1>4 DEF HLoop
  <2> QED BY <1>9, <2>2, <2>3, <2>4, <2>5, <2>6, <2>7 DEF HLoop, IsFull
<1>11. HLongest'
  BY <1>1, <1>4, HSame DEF HLongest
<1> QED BY <1>1, <1>4, <1>7, <1>10, <1>11, HLoopStep

(* A group's manager is asked: what it answers becomes the hit, and the     *)
(* groups asked before still hold that.                                     *)
LEMMA HAskManagerKeeps ==
  ASSUME HInv, AskManager
  PROVE  HInv'
<1> DEFINE g == HitGroups[nidx]
           eagle == EagleGroup(nidx) /\ nidx \notin nseen
           most == IF eagle THEN Lesser(ncurr + g.bs, ncfg.max) ELSE ncurr
           f == ManagerHit(g, ncfg.held[nidx], most, eagle)
<1>1. HTyped /\ HLoop /\ HLongest /\ npc = "loop" /\ ncfg' = ncfg
  BY DEF HInv, AskManager
<1>2. /\ nidx \in DOMAIN HitGroups /\ nidx \in Nat /\ Len(HitGroups) \in Nat /\ nidx <= Len(HitGroups)
      /\ ncurr \in Nat /\ nhit \in Nat /\ ncfg \in HitSetups /\ ncfg.max \in Nat
  BY <1>1, HSetup DEF HTyped, AskManager
<1>3. HGroup(nidx)
  BY <1>2, HGroupIs DEF AskManager
<1>4. nhit' = nhit /\ npc' = "loop" /\ nidx' = nidx + 1 /\ nreq' = nreq
      /\ ncurr' = f * HSize(nidx) /\ nblocks' = [nblocks EXCEPT ![nidx] = f]
  BY <1>1 DEF AskManager, HSize
<1>5. DOMAIN nblocks' = DOMAIN nblocks /\ nblocks'[nidx] = f /\ \A i : i # nidx /\ HGroup(i) => nblocks'[i] = nblocks[i]
  BY <1>1, <1>2, <1>4 DEF HTyped, HGroup
<1>6. eagle \in BOOLEAN /\ most \in Nat /\ (eagle => most <= ncurr + g.bs) /\ (~eagle => most = ncurr)
  <2>1. g.bs \in Nat
    BY <1>2, HSetup
  <2>2. Lesser(ncurr + g.bs, ncfg.max) \in Nat /\ Lesser(ncurr + g.bs, ncfg.max) <= ncurr + g.bs
    BY <1>2, <2>1 DEF Lesser
  <2>3. eagle \in BOOLEAN
    BY DEF EagleGroup
  <2> QED BY <1>2, <2>2, <2>3
<1>7. /\ f \in Nat /\ HAligned(f * HSize(nidx)) /\ Usable(g, ncfg.held[nidx], f, FALSE)
      /\ f * HSize(nidx) <= most /\ (eagle => f = 0 \/ f * HSize(nidx) + HSize(nidx) <= most)
      /\ ~eagle => \A n \in Nat : n * HSize(nidx) <= most /\ HAligned(n * HSize(nidx)) /\ Usable(g, ncfg.held[nidx], n, FALSE)
                                  => n <= f
  <2> DEFINE e == eagle
             h == ncfg.held[nidx]
             m == most
             r == f
  <2>1. e \in BOOLEAN /\ m \in Nat /\ r = ManagerHit(HitGroups[nidx], h, m, e)
    BY <1>6
  <2> HIDE DEF e, h, m, r, eagle, most, f
  <2>2. HAnswer(nidx, h, m, e, r)
    BY <1>2, <2>1, HManagerHitIs, Zenon
  <2> QED BY <2>2 DEF HAnswer, e, h, m, r
<1> HIDE DEF eagle, most, f
<1>8. HSize(nidx) \in Nat /\ HSize(nidx) >= 1 /\ g.bs <= HSize(nidx) /\ g.bs \in Nat
  BY <1>2, HSetup
<1>9. ncurr' \in Nat /\ ncurr' <= ncurr
  <2>1. PICK s \in Nat, b \in Nat, q \in Nat : s = HSize(nidx) /\ b = g.bs /\ b <= s /\ q = f * HSize(nidx)
    BY <1>7, <1>8
  <2>2. CASE eagle
    <3>1. f = 0 => q = 0
      BY <1>8, <2>1
    <3>2. PICK m \in Nat : m = most /\ m <= ncurr + b
      BY <1>6, <2>1, <2>2
    <3>3. q = 0 \/ q + s <= m
      BY <1>7, <2>1, <2>2, <3>1, <3>2
    <3>4. q <= ncurr
      BY <1>2, <2>1, <3>2, <3>3
    <3> QED BY <1>4, <2>1, <3>4
  <2>3. CASE ~eagle
    BY <1>2, <1>4, <1>6, <1>7, <2>1, <2>3
  <2> QED BY <2>2, <2>3
<1>10. HTyped'
  BY <1>1, <1>2, <1>4, <1>5, <1>9, HSame DEF HTyped
<1>11. \A i : HGroup(i) => i \in Nat
  BY <1>1, HSetup DEF HGroup, HTyped
<1>12. HFoundAll'
  <2>1. ASSUME NEW i, HGroup(i), i # nidx  PROVE (nblocks[i] = None \/ HFound(i))'
    <3>1. nblocks[i] = None \/ HFound(i)
      BY <1>1, <2>1 DEF HLoop, HFoundAll
    <3>2. nblocks'[i] = nblocks[i]
      BY <1>5, <2>1
    <3> QED BY <1>1, <3>1, <3>2, HSame DEF HFound, Usable, Needs, IsFull
  <2>2. ASSUME NEW j, j = nidx  PROVE HFound(j)'
    <3>1. nblocks'[j] = f /\ HitGroups'[j] = g /\ HSize(j)' = HSize(j) /\ ncfg' = ncfg
      BY <1>1, <1>5, <2>2, HSame
    <3>2. f \in Nat /\ (f * HSize(j)) % ncfg.lcm = 0
      BY <1>7, <2>2 DEF HAligned
    <3>3. Usable(g, ncfg.held[j], f, FALSE)
      BY <1>7, <2>2
    <3> QED BY <3>1, <3>2, <3>3 DEF HFound, Usable, Needs, IsFull, HAligned
  <2>3. ASSUME NEW i, HGroup(i)'  PROVE (nblocks[i] = None \/ HFound(i))'
    <3>1. HGroup(i)
      BY <1>1, <2>3, HSame
    <3> QED BY <2>1, <2>2, <3>1
  <2> QED BY <2>3 DEF HFoundAll
<1>13. HLoop'
  <2>1. \A i : HGroup(i) => (i < nidx' <=> i < nidx \/ i = nidx) /\ (i + 1 = nidx' <=> i = nidx)
    BY <1>2, <1>4, <1>11
  <2>2. HAligned(ncurr)'
    BY <1>1, <1>4, <1>7, HSame DEF HAligned
  <2>3. f # None
    BY <1>7 DEF None
  <2>4. \A i : HGroup(i)' /\ i < nidx' => nblocks'[i] # None
    BY <1>1, <1>5, <2>1, <2>3, HSame DEF HLoop
  <2>5. ASSUME NEW i, HGroup(i), nblocks'[i] # None, i < nidx' \/ IsFull(HitGroups[i])
        PROVE  ncurr' <= nblocks'[i] * HSize(i)
    <3>1. CASE i = nidx
      BY <1>4, <1>5, <1>9, <3>1
    <3>2. CASE i # nidx
      <4>1. nblocks'[i] = nblocks[i] /\ (i < nidx \/ IsFull(HitGroups[i]))
        BY <1>5, <2>1, <2>5, <3>2
      <4>2. ncurr <= nblocks[i] * HSize(i) /\ HFound(i)
        BY <1>1, <2>5, <4>1 DEF HLoop, HFoundAll
      <4>3. nblocks[i] * HSize(i) \in Nat
        <5>1. HSize(i) \in Nat /\ nblocks[i] \in Nat
          BY <1>2, <2>5, <4>2, HSetup DEF HGroup, HFound
        <5> QED BY <5>1
      <4> QED BY <1>2, <1>9, <4>1, <4>2, <4>3
    <3> QED BY <3>1, <3>2
  <2>6. \A i : HGroup(i)' /\ nblocks'[i] # None /\ (i < nidx' \/ IsFull(HitGroups'[i])) => ncurr' <= nblocks'[i] * HSize(i)'
    BY <1>1, <2>5, HSame
  <2>7. ncurr' <= nhit'
    BY <1>1, <1>2, <1>4, <1>9 DEF HLoop
  <2>8. nblocks'[nidx] * HSize(nidx) = ncurr'
    BY <1>4, <1>5
  <2>9. \A i : HGroup(i)' /\ i < nidx' /\ ~IsFull(HitGroups'[i]) => nblocks'[i] * HSize(i)' <= nhit'
    BY <1>1, <1>4, <1>5, <2>1, <2>7, <2>8, HSame DEF HLoop
  <2>10. \A i : HGroup(i)' /\ i + 1 = nidx' /\ ~IsFull(HitGroups'[i]) => nblocks'[i] * HSize(i)' = ncurr'
    BY <1>1, <2>1, <2>8, HSame
  <2> QED BY <1>12, <2>2, <2>4, <2>6, <2>7, <2>9, <2>10 DEF HLoop, IsFull
<1>14. HLongest'
  <2>1. ASSUME ncfg.eagle = {}, NEW n \in CommonHits  PROVE n <= ncurr'
    <3>1. ~eagle
      BY <2>1 DEF EagleGroup, eagle
    <3>2. n <= ncurr
      BY <1>1, <2>1 DEF HLongest
    <3>3. n \in Nat /\ HAligned(n) /\ UsableAt(nidx, n)
      BY <1>2, <1>3, <2>1 DEF CommonHits, HGroup, HAligned
    <3>4. PICK m \in Nat : m = n \div HSize(nidx) /\ m * HSize(nidx) = n
      BY <1>2, <3>3, HAlignedIs
    <3>5. Usable(g, ncfg.held[nidx], m, FALSE)
      BY <3>3, <3>4 DEF UsableAt, HSize
    <3>6. m <= f
      BY <1>6, <1>7, <3>1, <3>2, <3>3, <3>4, <3>5
    <3>7. m * HSize(nidx) <= f * HSize(nidx)
      BY <1>7, <1>8, <3>6, MulIs
    <3> QED BY <1>4, <3>4, <3>7
  <2> QED BY <1>1, <1>4, <2>1, HSame DEF HLongest
<1> QED BY <1>1, <1>4, <1>10, <1>13, <1>14, HLoopStep

(* All groups were asked.                                                   *)
LEMMA HNextRoundKeeps ==
  ASSUME HInv, NextRound
  PROVE  HInv'
<1>1. HTyped /\ HLoop /\ HLongest /\ npc = "loop" /\ ncfg' = ncfg
  BY DEF HInv, NextRound
<1>2. /\ nidx \in Nat /\ Len(HitGroups) \in Nat /\ nidx = Len(HitGroups) + 1
      /\ ncurr \in Nat /\ nhit \in Nat /\ ncfg \in HitSetups /\ ncurr <= nhit
      /\ DOMAIN HitGroups = 1..Len(HitGroups)
  BY <1>1, HSetup DEF HTyped, HLoop, NextRound
<1>3. nhit' = ncurr /\ nblocks' = nblocks /\ nreq' = nreq
  BY <1>2 DEF NextRound, Lesser
<1>4. \A i : HGroup(i) => i \in Nat /\ i >= 1 /\ i < nidx
  BY <1>2 DEF HGroup
<1>5. CASE Agreed
  <2>1. npc' = "truncate" /\ ncurr' = ncurr /\ nidx' = nidx
    BY <1>5 DEF NextRound
  <2>2. HTyped'
    BY <1>1, <1>2, <1>3, <2>1, HSame DEF HTyped
  <2>3. ASSUME NEW i, HGroup(i)
        PROVE  /\ HFound(i) /\ HAligned(ncurr) /\ ncurr <= nblocks[i] * HSize(i)
               /\ ~IsFull(HitGroups[i]) => nblocks[i] * HSize(i) = ncurr
    <3>1. nblocks[i] # None /\ HFound(i) /\ HAligned(ncurr) /\ ncurr <= nblocks[i] * HSize(i)
      BY <1>1, <1>4, <2>3 DEF HLoop, HFoundAll
    <3>2. ASSUME ~IsFull(HitGroups[i])  PROVE nblocks[i] * HSize(i) = ncurr
      <4>1. PICK q \in Nat : q = nblocks[i] * HSize(i)
        <5>1. HSize(i) \in Nat /\ nblocks[i] \in Nat
          BY <1>2, <2>3, <3>1, HSetup DEF HGroup, HFound
        <5> QED BY <5>1
      <4>2. CASE ncurr >= nhit
        <5>1. q <= nhit
          BY <1>1, <1>4, <2>3, <3>2, <4>1 DEF HLoop
        <5> QED BY <1>2, <3>1, <4>1, <4>2, <5>1
      <4>3. CASE IsSimpleHybrid
        <5>1. i = 2 /\ nidx = 3
          BY <1>2, <1>4, <2>3, <3>2, <4>3 DEF IsSimpleHybrid
        <5> QED BY <1>1, <2>3, <3>2, <5>1 DEF HLoop
      <4> QED BY <1>5, <4>2, <4>3 DEF Agreed
    <3> QED BY <3>1, <3>2
  <2>4. \A i : HGroup(i) => (HFound(i)' <=> HFound(i))
    BY <1>1, <1>3, HSame DEF HFound, Usable, Needs, IsFull
  <2>5. HAligned(nhit)' <=> HAligned(ncurr)
    BY <1>1, <1>3 DEF HAligned
  <2>6. HAgreed'
    BY <1>1, <1>3, <2>3, <2>4, <2>5, HSame DEF HAgreed, IsFull
  <2>7. HLongest'
    BY <1>1, <1>3, <2>1, HSame DEF HLongest
  <2> QED BY <2>1, <2>2, <2>6, <2>7 DEF HInv, GroupsAgree, AllocationExact
<1>6. CASE ~Agreed
  <2>1. npc' = "loop" /\ ncurr' = ncurr /\ nidx' = 1
    BY <1>1, <1>3, <1>6 DEF NextRound
  <2>2. HTyped'
    BY <1>1, <1>2, <1>3, <2>1, HSame DEF HTyped
  <2>3. HFoundAll'
    BY <1>1, <1>3, HSame DEF HLoop, HFoundAll, HFound, Usable, Needs, IsFull
  <2>4. \A i : HGroup(i)' => ~(i < nidx') /\ ~(i + 1 = nidx')
    BY <1>1, <1>4, <2>1, HSame
  <2>5. (\E i : HGroup(i)' /\ nblocks'[i] # None) => HAligned(ncurr)'
    BY <1>1, <1>3, <2>1, HSame DEF HLoop, HAligned
  <2>6. \A i : HGroup(i)' /\ nblocks'[i] # None /\ (i < nidx' \/ IsFull(HitGroups'[i])) => ncurr' <= nblocks'[i] * HSize(i)'
    BY <1>1, <1>3, <2>1, <2>4, HSame DEF HLoop
  <2>7. ncurr' <= nhit'
    BY <1>2, <1>3, <2>1
  <2>8. HLoop'
    BY <2>3, <2>4, <2>5, <2>6, <2>7 DEF HLoop, IsFull
  <2>9. HLongest'
    BY <1>1, <1>3, <2>1, HSame DEF HLongest
  <2> QED BY <1>1, <2>1, <2>2, <2>8, <2>9, HLoopStep
<1> QED BY <1>5, <1>6

(* The full groups are cut to the common length, which they hold.           *)
LEMMA HTruncateKeeps ==
  ASSUME HInv, Truncate
  PROVE  HInv'
<1>1. HTyped /\ HAgreed /\ HLongest /\ npc = "truncate" /\ npc' = "allocate" /\ ncfg' = ncfg
  BY DEF HInv, Truncate
<1>2. ncurr' = ncurr /\ nhit' = nhit /\ nidx' = nidx /\ nreq' = nreq /\ nhit \in Nat /\ ncfg \in HitSetups
  BY <1>1 DEF Truncate, HTyped
<1>4. ASSUME NEW i, HGroup(i)
      PROVE  nblocks'[i] \in Nat /\ nblocks'[i] * HSize(i) = nhit /\ UsableAt(i, nhit)
  <2>1. HFound(i) /\ HAligned(nhit) /\ nhit <= nblocks[i] * HSize(i)
        /\ (~IsFull(HitGroups[i]) => nblocks[i] * HSize(i) = nhit)
    BY <1>1, <1>4 DEF HAgreed
  <2>2. PICK s \in Nat, b \in Nat : s = HSize(i) /\ s >= 1 /\ b = nblocks[i]
    BY <1>2, <1>4, <2>1, HSetup DEF HGroup, HFound
  <2>3. PICK q \in Nat : q = nhit \div s /\ q * s = nhit /\ nhit % s = 0
    BY <1>2, <1>4, <2>1, <2>2, HAlignedIs DEF HGroup
  <2>4. q <= b
    BY <2>1, <2>2, <2>3, MulIs
  <2>5. Usable(HitGroups[i], ncfg.held[i], b, FALSE)
    BY <2>1, <2>2 DEF HFound
  <2>6. nblocks'[i] = IF IsFull(HitGroups[i]) THEN Lesser(b, q) ELSE b
    BY <1>4, <2>2, <2>3 DEF HGroup, Truncate, Truncated, HSize
  <2>7. ~IsFull(HitGroups[i]) => b = q
    <3>1. ASSUME b * s = q * s  PROVE b = q
      BY <2>2, <3>1, MulIs
    <3> QED BY <2>1, <2>2, <2>3, <3>1
  <2>8. nblocks'[i] = q
    BY <2>4, <2>6, <2>7 DEF Lesser
  <2>9. Usable(HitGroups[i], ncfg.held[i], q, FALSE)
    BY <2>4, <2>5, <2>7, HUsableLess
  <2> QED BY <2>2, <2>3, <2>8, <2>9 DEF UsableAt, HSize
<1>3. HTyped'
  <2>1. DOMAIN nblocks' = DOMAIN HitGroups
    BY DEF Truncate
  <2>2. \A i : HGroup(i)' => nblocks'[i] \in Nat
    BY <1>1, <1>4, HSame
  <2> QED BY <1>1, <1>2, <2>1, <2>2, HSame DEF HTyped
<1>5. GroupsAgree'
  <2>1. \A i \in Asked : HGroup(i)
    BY DEF HGroup, Asked
  <2>2. \A i \in Asked : nblocks'[i] * EffectiveBlockSize(HitGroups[i]) = nhit /\ UsableAt(i, nhit)
    BY <1>4, <2>1 DEF HSize
  <2> QED BY <1>1, <1>2, <2>2 DEF GroupsAgree, Asked, HitGroups, UsableAt, Usable, Needs, EffectiveBlockSize, IsFull
<1>6. HLongest'
  BY <1>1, <1>2, HSame DEF HLongest
<1> QED BY <1>1, <1>3, <1>5, <1>6 DEF HInv, AllocationExact

(* Blocks needed for a number of entries.                                   *)
LEMMA CdivIs ==
  ASSUME NEW a \in Nat, NEW b \in Nat, b >= 1, NEW q \in Nat
  PROVE  /\ Cdiv(a, b) \in Nat /\ (q * b <= a => q <= Cdiv(a, b)) /\ (q * b = a => q = Cdiv(a, b))
<1>1. PICK x \in Nat : x = a + b - 1
  OBVIOUS
<1>2. PICK c \in Nat : c = x \div b /\ c * b <= x /\ x < c * b + b
  BY DivIs
<1>3. Cdiv(a, b) = c
  BY <1>1, <1>2 DEF Cdiv
<1>4. ASSUME q * b <= a  PROVE q <= c
  <2>1. q * b <= x
    BY <1>1, <1>4
  <2> QED BY <1>2, <2>1, DivLe
<1>5. ASSUME q * b = a  PROVE c <= q
  <2>1. ASSUME c >= q + 1  PROVE FALSE
    <3>1. (q + 1) * b <= c * b
      BY <2>1, MulIs
    <3>2. PICK m \in Nat : m = q * b /\ (q + 1) * b = m + b
      OBVIOUS
    <3>3. PICK d \in Nat : d = c * b
      OBVIOUS
    <3> QED BY <1>1, <1>2, <1>5, <3>1, <3>2, <3>3
  <2> QED BY <2>1
<1>6. q * b = a => q * b <= a
  OBVIOUS
<1> QED BY <1>3, <1>4, <1>5, <1>6

(* What a group takes over and what is new cover exactly its entries.       *)
LEMMA HAllocatedIs ==
  ASSUME ncfg \in HitSetups, NEW i \in DOMAIN HitGroups, NEW n \in Nat, n * HSize(i) = nhit, NEW e \in Nat,
         NEW a, a = AllocatedBlocks(HitGroups[i], n, e)
  PROVE  ~a.short /\ a.cached + a.new = Cdiv((nhit + e) \div HitGroups[i].ratio, HitGroups[i].bs)
<1> DEFINE g == HitGroups[i]
<1>1. PICK b \in Nat, r \in Nat : b = g.bs /\ b >= 1 /\ r = g.ratio /\ r >= 1 /\ HSize(i) = b * r
  BY HSetup
<1>2. g.kind = "window" => g.window \in Nat /\ g.window >= 2
  BY HSetup
<1>3. PICK m \in Nat : m = n * b /\ m * r = nhit
  BY <1>1
<1>4. PICK x \in Nat : x = e \div r /\ x * r <= e
  BY <1>1, DivIs
<1>5. PICK t \in Nat : t = (nhit + e) \div r /\ m <= t /\ (e = 0 => t = m)
  <2>1. nhit \in Nat /\ nhit + e \in Nat
    BY <1>3
  <2>2. PICK t \in Nat : t = (nhit + e) \div r
    BY <1>1, <2>1, DivIs
  <2>3. m <= t
    <3>1. m * r <= nhit + e
      BY <1>3, <2>1
    <3> QED BY <1>1, <2>1, <2>2, <3>1, DivLe
  <2>4. e = 0 => t = m
    <3>1. (m * r) \div r = m
      BY <1>1, MultipleIs
    <3> QED BY <1>3, <2>1, <2>2, <3>1
  <2> QED BY <2>2, <2>3, <2>4
<1>6. PICK w \in Nat : w = Skipped(g, t) /\ w <= t /\ (w = 0 \/ w < t)
  <2>1. CASE g.kind = "window"
    <3>1. PICK v \in Nat : v = g.window /\ v >= 2
      BY <1>2, <2>1
    <3>2. Skipped(g, t) = IF t - v + 1 > 0 THEN t - v + 1 ELSE 0
      BY <2>1, <3>1 DEF Skipped
    <3> QED BY <3>1, <3>2
  <2>2. CASE g.kind # "window"
    BY <2>2 DEF Skipped
  <2> QED BY <2>1, <2>2
<1>7. PICK k \in Nat : k = w \div b /\ k * b <= w
  BY <1>1, DivIs
<1>8. PICK c \in Nat : c = Cdiv(t, b) /\ n <= c /\ k <= c /\ (e = 0 => c = n)
  <2>1. k * b <= t
    <3>1. k * b \in Nat
      BY <1>1
    <3> QED BY <1>6, <1>7, <3>1
  <2>2. Cdiv(t, b) \in Nat /\ k <= Cdiv(t, b)
    BY <1>1, <2>1, CdivIs
  <2>3. n <= Cdiv(t, b) /\ (e = 0 => n = Cdiv(t, b))
    <3>1. n * b <= t /\ (e = 0 => n * b = t)
      BY <1>3, <1>5
    <3> QED BY <1>1, <3>1, CdivIs
  <2> QED BY <2>2, <2>3
<1>9. k > 0 => w > 0
  <2>1. ASSUME k > 0, w = 0  PROVE FALSE
    <3>1. 1 * b <= k * b
      BY <1>1, <2>1, MulIs
    <3>2. PICK d \in Nat : d = k * b /\ d <= 0
      BY <1>1, <1>7, <2>1
    <3> QED BY <1>1, <3>1, <3>2
  <2> QED BY <2>1
<1> DEFINE taken == IF k > 0 THEN (IF n > k THEN n - k ELSE 0) ELSE n
           left == IF k > 0 THEN Lesser(t - w, e) ELSE e
           have == k + taken
           new == c - have
<1>10. a = [nulls |-> k, taken |-> taken, cached |-> have,
            new |-> IF left > 0 /\ new > 0 THEN new ELSE 0, short |-> left > 0 /\ new < 0]
  BY <1>1, <1>5, <1>6, <1>7, <1>8 DEF AllocatedBlocks
<1>11. have \in Nat /\ have <= c /\ n <= have
  BY <1>8
<1>12. left > 0 \/ e = 0
  BY <1>6, <1>9 DEF Lesser
<1>13. new \in Int /\ new >= 0 /\ (e = 0 => new = 0)
  BY <1>8, <1>11
<1>14. /\ a.short = FALSE /\ a.cached = have
       /\ a.new = IF left > 0 /\ new > 0 THEN new ELSE 0
  <2> DEFINE more == IF left > 0 /\ new > 0 THEN new ELSE 0
             lack == left > 0 /\ new < 0
  <2>1. a = [nulls |-> k, taken |-> taken, cached |-> have, new |-> more, short |-> lack]
    BY <1>10
  <2> HIDE DEF taken, left, have, new
  <2>2. lack = FALSE
    BY <1>13
  <2> HIDE DEF more, lack
  <2>3. a = [nulls |-> k, taken |-> taken, cached |-> have, new |-> more, short |-> FALSE]
    BY <2>1, <2>2, Zenon
  <2>4. a.short = FALSE /\ a.cached = have /\ a.new = more
    BY <2>3
  <2> QED BY <2>4 DEF more
<1> HIDE DEF taken, left, have
<1>15. ~a.short
  BY <1>14
<1>16. a.cached + a.new = c
  <2>1. CASE left > 0 /\ new > 0
    BY <1>8, <1>11, <1>14, <2>1
  <2>2. CASE ~(left > 0 /\ new > 0)
    <3>1. new = 0
      BY <1>12, <1>13, <2>2
    <3> QED BY <1>8, <1>11, <1>14, <2>2, <3>1
  <2> QED BY <2>1, <2>2
<1> QED BY <1>1, <1>5, <1>8, <1>15, <1>16

(* Each group of the request gets what the hit and the connector found.     *)
LEMMA HAllocateKeeps ==
  ASSUME HInv, Allocate
  PROVE  HInv'
<1>1. HTyped /\ GroupsAgree /\ HLongest /\ npc = "allocate" /\ npc' = "done" /\ ncfg' = ncfg
  BY DEF HInv, Allocate
<1>2. ncurr' = ncurr /\ nhit' = nhit /\ nidx' = nidx /\ nblocks' = nblocks /\ nhit \in Nat /\ ncfg \in HitSetups
  BY <1>1 DEF Allocate, HTyped
<1>3. PICK e \in ncfg.external :
        nreq' = [external |-> e,
                 groups |-> [i \in DOMAIN HitGroups |-> AllocatedBlocks(HitGroups[i], nblocks[i], e)]]
  BY DEF Allocate
<1>4. e \in Nat
  BY <1>2, HSetup
<1>5. HTyped'
  BY <1>1, <1>2, <1>3, <1>4, HSame DEF HTyped
<1>6. GroupsAgree'
  BY <1>1, <1>2 DEF GroupsAgree, Asked, HitGroups, UsableAt, Usable, Needs, EffectiveBlockSize, IsFull
<1>7. HLongest'
  BY <1>1, <1>2, HSame DEF HLongest
<1>8. ASSUME NEW i \in Asked
      PROVE  LET a == nreq'.groups[i]
                 total == (nhit + nreq'.external) \div HitGroups[i].ratio
             IN  ~a.short /\ a.cached + a.new = Cdiv(total, HitGroups[i].bs)
  <2>1. i \in DOMAIN HitGroups /\ nblocks[i] * HSize(i) = nhit
    BY <1>1, <1>8 DEF GroupsAgree, Asked, HSize
  <2>2. nblocks[i] \in Nat
    BY <1>1, <1>8, <2>1 DEF HTyped, HGroup
  <2>3. nreq'.groups[i] = AllocatedBlocks(HitGroups[i], nblocks[i], e) /\ nreq'.external = e
    BY <1>3, <2>1
  <2> QED BY <1>2, <1>4, <2>1, <2>2, <2>3, HAllocatedIs
<1>9. AllocationExact'
  BY <1>1, <1>2, <1>8 DEF AllocationExact, Asked, HitGroups, Cdiv
<1> QED BY <1>1, <1>5, <1>6, <1>7, <1>9 DEF HInv

(* Every step of lookup and allocation keeps the invariant.                 *)
LEMMA HStep ==
  ASSUME HInv, [HitNext]_nvars
  PROVE  HInv'
<1>1. CASE AskFull
  BY <1>1, HAskFullKeeps
<1>2. CASE SkipMamba
  BY <1>2, HSkipMambaKeeps
<1>3. CASE AskManager
  BY <1>3, HAskManagerKeeps
<1>4. CASE NextRound
  BY <1>4, HNextRoundKeeps
<1>5. CASE Truncate
  BY <1>5, HTruncateKeeps
<1>6. CASE Allocate
  BY <1>6, HAllocateKeeps
<1>7. CASE UNCHANGED nvars
  <2>1. ncfg' = ncfg /\ nhit' = nhit /\ ncurr' = ncurr /\ nidx' = nidx /\ nblocks' = nblocks /\ nreq' = nreq /\ npc' = npc
    BY <1>7 DEF nvars
  <2>2. HTyped' /\ HLongest' /\ GroupsAgree' /\ AllocationExact'
    BY <2>1, HSame DEF HInv, HTyped, HLongest, GroupsAgree, AllocationExact, EffectiveBlockSize, Cdiv
  <2>3. \A i : HFound(i)' <=> HFound(i)
    BY <2>1, HSame DEF HFound, Usable, Needs, IsFull
  <2>4. HFoundAll' <=> HFoundAll
    BY <2>1, <2>3, HSame DEF HFoundAll
  <2>5. HLoop' <=> HLoop
    BY <2>1, <2>4, HSame DEF HLoop, HAligned, IsFull
  <2>6. HAgreed' <=> HAgreed
    BY <2>1, <2>3, HSame DEF HAgreed, HAligned, IsFull
  <2> QED BY <2>1, <2>2, <2>5, <2>6 DEF HInv
<1>8. CASE HitDone
  BY <1>7, <1>8 DEF HitDone
<1> QED BY <1>1, <1>2, <1>3, <1>4, <1>5, <1>6, <1>7, <1>8 DEF HitNext

(* For every set of groups with token-sized blocks of which lcm_block_size  *)
(* is a multiple, whatever each group still holds: the patched              *)
(* find_longest_cache_hit ends with one length for all groups, which all of *)
(* them hold and, without a drafter, none longer would do, and              *)
(* allocate_new_computed_blocks gives each group a block for every entry.   *)
THEOREM HitHolds == HitSpec => []HitRight
<1>1. HitInit => HInv
  BY HInitIs
<1>2. HInv /\ [HitNext]_nvars => HInv'
  BY HStep
<1>3. HInv => HitRight
  BY DEF HInv, HitRight, HLongest, HitIsLongest
<1> QED BY <1>1, <1>2, <1>3, PTL DEF HitSpec
=============================================================================
