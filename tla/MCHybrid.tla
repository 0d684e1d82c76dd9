------------------------------ MODULE MCHybrid ------------------------------
(***************************************************************************)
(* Small deployments of the connectors for hybrid models, of the layouts   *)
(* of their caches and of the lookup in the engine's own cache.  Block     *)
(* sizes are 2 to 8 tokens; the second request shares its first tokens     *)
(* (common) with the first one, or all of them.                            *)
(***************************************************************************)
EXTENDS HybridConnector, KvLayout, HybridHit

CacheGroup(k, b, t) == [kind |-> k, bs |-> b, tail |-> t]
Prompts(m, n) == {[c |-> 1, n |-> m], [c |-> 2, n |-> n]}
HlaBase ==
  [family |-> "hla", groups |-> <<CacheGroup("fa", 2, 0), CacheGroup("state", 4, 0)>>, rows |-> 1,
   lw |-> FALSE, mtp |-> FALSE, ahead |-> 0, hbs |-> 2, tp |-> 1, blockwise |-> TRUE, pool |-> 5, common |-> 4,
   rec |-> 1, persist |-> 0, least |-> 0, split |-> FALSE, local |-> {}, chunks |-> {3, 4},
   prompts |-> Prompts(8, 9), out |-> 0, reqs |-> 2, preempts |-> 0, faults |-> {}, nfaults |-> 1]
FawaBase ==
  [family |-> "fawa", tp |-> 2, chunks |-> {5}, hbs |-> 4, pool |-> 6, prompts |-> Prompts(9, 12),
   groups |-> <<CacheGroup("fa", 8, 0), CacheGroup("window", 2, 4), CacheGroup("window", 4, 2)>>] @@ HlaBase

\* Chunks of any size, preemption, a local prefix.
HlaChunks == [preempts |-> 1, local |-> {4}, out |-> 1] @@ HlaBase
\* Two state groups, chunks cut at block boundaries, one fault.
HlaFaults ==
  [groups |-> <<CacheGroup("fa", 2, 0), CacheGroup("state", 2, 0), CacheGroup("state", 2, 0)>>, split |-> TRUE,
   chunks |-> {3}, prompts |-> Prompts(5, 6), faults |-> {"load", "dump", "gc", "lookup"},
   persist |-> 6, reqs |-> 3] @@ HlaBase
\* Three rows of layers, loaded one ahead.
HlaLayerwise ==
  [groups |-> <<CacheGroup("fa", 2, 0), CacheGroup("state", 2, 0)>>, rows |-> 3, lw |-> TRUE, mtp |-> TRUE, ahead |-> 1,
   rec |-> 2, split |-> TRUE, chunks |-> {2}, prompts |-> Prompts(4, 6), common |-> 2,
   faults |-> {"load"}, reqs |-> 3] @@ HlaBase
\* Window rows for every boundary, or for the last of a chunk; preemption.
FawaBlockwise == [preempts |-> 1, local |-> {8}] @@ FawaBase
FawaChunkwise == [blockwise |-> FALSE, tp |-> 3, chunks |-> {4, 8}, out |-> 1] @@ FawaBase
\* Short hits are not loaded; one fault.  Each setup with faults serves three requests: the
\* last one may hit what was dumped after the load of the second one failed.
FawaFaults == [least |-> 4, common |-> 8, faults |-> {"load", "dump", "gc", "lookup"}, reqs |-> 3] @@ FawaBase

HybridSets == {HlaChunks, HlaFaults, HlaLayerwise, FawaBlockwise, FawaChunkwise, FawaFaults}

----------------------------------------------------------------------------
(* Caches of a few bytes per block. *)
Plain(lw, hidden, menu, n) ==
  [layout |-> "plain", lw |-> lw, hidden |-> hidden, menu |-> {[sizes |-> s] : s \in menu}, count |-> n,
   sfa8 |-> FALSE, li8 |-> FALSE, npu |-> FALSE, blocks |-> 3, span |-> 0, seg |-> 0]
Indexer(sfa8, li8, menu) ==
  [layout |-> "indexer", sfa8 |-> sfa8, li8 |-> li8] @@ Plain(TRUE, 0, menu, 3)
PageMenu ==
  {[page |-> 8, conv |-> c, ssm |-> 3, k |-> 2, v |-> v, attn |-> a, mamba |-> m] :
     c \in {1, 2}, v \in {2, 4}, a \in BOOLEAN, m \in BOOLEAN}
Page(lw, npu) ==
  [layout |-> "page", npu |-> npu, menu |-> {e \in PageMenu : e.attn \/ e.mamba}] @@ Plain(lw, 0, {}, 2)
GroupOf(span, seg) ==
  [layout |-> "group", span |-> span, seg |-> seg,
   menu |-> {[tbs |-> 4, spt |-> 1], [tbs |-> 2, spt |-> 3]}] @@ Plain(FALSE, 0, {}, 2)

LayoutSets ==
  {Plain(lw, h, {<<2, 2>>, <<3>>, <<1, 1, 2>>}, 2) : lw \in BOOLEAN, h \in {0}}
    \union {Plain(TRUE, 4, {<<2, 2>>, <<3>>}, 2), Plain(FALSE, 4, {<<2, 2>>}, 2)}
    \union {Indexer(FALSE, FALSE, {<<2, 1>>, <<2, 1, 2>>, <<2, 1, 2, 1>>}),
             Indexer(FALSE, TRUE, {<<2, 1>>, <<2, 1, 4>>, <<2, 1, 2, 1>>}),
             Indexer(TRUE, TRUE, {<<2>>, <<2, 2>>, <<2, 1>>, <<2, 1, 1>>})}
    \union {Page(lw, npu) : lw \in BOOLEAN, npu \in BOOLEAN}
    \union {GroupOf(8, 4), GroupOf(4, 4)}

----------------------------------------------------------------------------
(* Groups of the engine's own cache, each holding any subset of its blocks. *)
HitGroup(k, b, r, w) == [kind |-> k, bs |-> b, ratio |-> r, window |-> w]
HeldBy(g, max) == SUBSET (1..(max \div (g.bs * g.ratio)))
HitSetup(gs, lcm, max, eagle, per, ext) ==
  {[groups |-> gs, lcm |-> lcm, max |-> max, eagle |-> eagle, perGroup |-> per, external |-> ext,
    held |-> IF Len(gs) = 2 THEN <<h[1], h[2]>> ELSE h] :
     h \in HeldBy(gs[1], max) \X HeldBy(gs[2], max) \X (IF Len(gs) = 2 THEN {{}} ELSE HeldBy(gs[3], max))}
HitSets ==
  \* two compressed groups and a window
  HitSetup(<<HitGroup("full", 1, 2, 0), HitGroup("full", 1, 4, 0), HitGroup("window", 2, 1, 4)>>, 4, 8, {}, FALSE, {0, 4, 6})
  \union HitSetup(<<HitGroup("full", 2, 1, 0), HitGroup("window", 4, 1, 5)>>, 4, 8, {}, FALSE, {0, 4})
  \* a drafter's group
  \union HitSetup(<<HitGroup("full", 2, 1, 0), HitGroup("window", 2, 1, 3)>>, 2, 6, {2}, FALSE, {0})
  \union HitSetup(<<HitGroup("full", 2, 1, 0), HitGroup("full", 2, 2, 0), HitGroup("mamba", 4, 1, 0)>>, 4, 8, {1}, FALSE, {0, 8})
  \* hits asked group by group
  \union HitSetup(<<HitGroup("full", 2, 1, 0), HitGroup("mamba", 4, 1, 0)>>, 4, 8, {}, TRUE, {0})
=============================================================================
