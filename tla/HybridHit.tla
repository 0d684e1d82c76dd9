------------------------------ MODULE HybridHit ------------------------------
(***************************************************************************)
(* The engine's own prefix lookup for Ascend hybrid models, as UCM patches *)
(* it.  AscendHybridKVCacheCoordinator.find_longest_cache_hit asks every   *)
(* attention group for the prefix it still holds and repeats until all     *)
(* groups agree on one length; every full-attention group is then cut to   *)
(* that length (v0202, v0210, v0221; v0230 wraps the original lookup and   *)
(* only cuts).  CompressAttentionManager.allocate_new_computed_blocks then *)
(* gives each compressed group the blocks it takes over and the new ones   *)
(* the connector will fill.                                                *)
(*                                                                         *)
(* A group has a kind ("full", "window" or "mamba"), a block size in cache *)
(* entries, a compression ratio (tokens per entry) and, for a window, its  *)
(* width.  What a group holds is a set of block indices.                   *)
(***************************************************************************)
EXTENDS Integers, Sequences, FiniteSets

CONSTANT HitSetups

\* Blocks have tokens, lcm_block_size is a multiple of every block, and a window is wider than
\* the token it ends with.
HitShape(c) ==
  /\ c.max \in Nat /\ c.lcm \in Nat \ {0} /\ c.external \subseteq Nat
  /\ Len(c.groups) \in Nat /\ DOMAIN c.groups = 1..Len(c.groups)
  /\ \A i \in DOMAIN c.groups :
       /\ c.groups[i].bs \in Nat \ {0} /\ c.groups[i].ratio \in Nat \ {0}
       /\ c.lcm % (c.groups[i].bs * c.groups[i].ratio) = 0
       /\ c.groups[i].kind = "window" => c.groups[i].window \in Nat /\ c.groups[i].window >= 2
ASSUME HitAssumption == \A c \in HitSetups : HitShape(c)

VARIABLES ncfg,     \* the groups, what each holds, the longest hit allowed
          nhit,     \* hit_length
          ncurr,    \* curr_hit_length
          nidx,     \* the group of the loop
          nblocks,  \* hit_blocks_by_group: a number of blocks, or None
          nseen,    \* eagle_verified
          nreq,     \* req_to_blocks of the request: what it took over and what is new
          npc
nvars == <<ncfg, nhit, ncurr, nidx, nblocks, nseen, nreq, npc>>

None == -1
HitGroups == ncfg.groups
Down(x, b) == (x \div b) * b
Cdiv(a, b) == (a + b - 1) \div b
Lesser(a, b) == IF a < b THEN a ELSE b

\* _effective_block_size: tokens of one block.
EffectiveBlockSize(g) == g.bs * g.ratio
IsFull(g) == g.kind = "full"
EagleGroup(i) == i \in ncfg.eagle

----------------------------------------------------------------------------
(* The managers' own lookups (vLLM), by what the coordinator uses of them. *)

\* Blocks that must be there right before the end of a hit.
Needs(g) == IF g.kind = "mamba" THEN 1 ELSE Cdiv(g.window - 1, g.bs)
\* Can the first n blocks of g be reused?  With drop a further block must be
\* there, which the hit then leaves out.
Usable(g, held, n, drop) ==
  LET end == n + (IF drop THEN 1 ELSE 0)
  IN  {k \in 1..end : IsFull(g) \/ k > n - Needs(g)} \subseteq held
ManagerHit(g, held, most, drop) ==
  LET size == EffectiveBlockSize(g)
      longest == (most \div size) - (IF drop THEN 1 ELSE 0)
      fits == {0} \union {n \in 1..longest : (n * size) % ncfg.lcm = 0 /\ Usable(g, held, n, drop)}
  IN  CHOOSE n \in fits : \A k \in fits : k <= n

----------------------------------------------------------------------------
(* find_longest_cache_hit *)

IsSimpleHybrid == Len(HitGroups) = 2 /\ IsFull(HitGroups[1])

HitInit ==
  /\ ncfg \in HitSetups
  /\ nhit = ncfg.max /\ ncurr = ncfg.max /\ nidx = 1
  /\ nblocks = [i \in DOMAIN ncfg.groups |-> None]
  /\ nseen = {} /\ nreq = <<>> /\ npc = "loop"

\* The group is asked again only if its answer can change: what full attention
\* holds is a prefix, so its first answer is only aligned.
AlignedHit(g) == Down(ncurr, EffectiveBlockSize(g))

AskFull ==
  LET g == HitGroups[nidx] IN
  /\ npc = "loop" /\ nidx <= Len(HitGroups)
  /\ IsFull(g) /\ nblocks[nidx] # None
  /\ ncurr' = AlignedHit(g)
  /\ nidx' = nidx + 1
  /\ UNCHANGED <<ncfg, nhit, nblocks, nseen, nreq, npc>>

\* find_longest_cache_hit_per_group leaves the mamba groups out.
SkipMamba ==
  /\ npc = "loop" /\ nidx <= Len(HitGroups)
  /\ ncfg.perGroup /\ HitGroups[nidx].kind = "mamba"
  /\ nblocks' = [nblocks EXCEPT ![nidx] = IF @ = None THEN 0 ELSE @]
  /\ nidx' = nidx + 1
  /\ UNCHANGED <<ncfg, nhit, ncurr, nseen, nreq, npc>>

AskManager ==
  LET g == HitGroups[nidx]
      eagle == EagleGroup(nidx) /\ nidx \notin nseen
      most == IF eagle THEN Lesser(ncurr + g.bs, ncfg.max) ELSE ncurr
      found == ManagerHit(g, ncfg.held[nidx], most, eagle)
  IN
  /\ npc = "loop" /\ nidx <= Len(HitGroups)
  /\ ~(IsFull(g) /\ nblocks[nidx] # None)
  /\ ~(ncfg.perGroup /\ g.kind = "mamba")
  /\ ncurr' = found * EffectiveBlockSize(g)
  /\ nseen' = IF eagle THEN nseen \union {nidx}
              ELSE IF ncurr' < ncurr THEN {} ELSE nseen
  /\ nblocks' = [nblocks EXCEPT ![nidx] = found]
  /\ nidx' = nidx + 1
  /\ UNCHANGED <<ncfg, nhit, nreq, npc>>

\* All groups were asked: once more unless none of them shortened the hit.
Agreed == ncurr >= nhit \/ IsSimpleHybrid

NextRound ==
  /\ npc = "loop" /\ nidx > Len(HitGroups)
  /\ nhit' = Lesser(nhit, ncurr)
  /\ IF Agreed THEN npc' = "truncate" /\ UNCHANGED <<ncurr, nidx>>
     ELSE nidx' = 1 /\ ncurr' = nhit' /\ UNCHANGED npc
  /\ UNCHANGED <<ncfg, nblocks, nseen, nreq>>

\* Mutant: only the first group is cut, as before the patch.
TruncatedFirst(g, blocks) ==
  IF g = HitGroups[1] THEN Lesser(blocks, nhit \div EffectiveBlockSize(g)) ELSE blocks
\* _truncate_full_attention_groups
Truncated(g, blocks) ==
  IF IsFull(g) THEN Lesser(blocks, nhit \div EffectiveBlockSize(g)) ELSE blocks

Truncate ==
  /\ npc = "truncate"
  /\ nblocks' = [i \in DOMAIN HitGroups |-> Truncated(HitGroups[i], nblocks[i])]
  /\ npc' = "allocate"
  /\ UNCHANGED <<ncfg, nhit, ncurr, nidx, nseen, nreq>>

----------------------------------------------------------------------------
(* CompressAttentionManager.allocate_new_computed_blocks, for external *)
(* tokens the connector found beyond the hit.                          *)

Skipped(g, entries) ==
  IF g.kind = "window" THEN LET s == entries - g.window + 1 IN IF s > 0 THEN s ELSE 0 ELSE 0
AllocatedBlocks(g, blocks, external) ==
  LET total   == (nhit + external) \div g.ratio
      skipped == Skipped(g, total) \div g.bs
      taken   == IF skipped > 0 THEN (IF blocks > skipped THEN blocks - skipped ELSE 0) ELSE blocks
      left    == IF skipped > 0 THEN Lesser(total - Skipped(g, total), external) ELSE external
      have    == skipped + taken
      new     == Cdiv(total, g.bs) - have
  IN  [nulls |-> skipped, taken |-> taken, cached |-> have,
       new |-> IF left > 0 /\ new > 0 THEN new ELSE 0,
       short |-> left > 0 /\ new < 0]

Allocate ==
  /\ npc = "allocate"
  /\ \E external \in ncfg.external :
       nreq' = [external |-> external,
                groups |-> [i \in DOMAIN HitGroups |-> AllocatedBlocks(HitGroups[i], nblocks[i], external)]]
  /\ npc' = "done"
  /\ UNCHANGED <<ncfg, nhit, ncurr, nidx, nblocks, nseen>>

HitDone == npc = "done" /\ UNCHANGED nvars

HitNext ==
  \/ AskFull
  \/ SkipMamba
  \/ AskManager
  \/ NextRound
  \/ Truncate
  \/ Allocate
  \/ HitDone
HitSpec == HitInit /\ [][HitNext]_nvars

----------------------------------------------------------------------------
Asked == {i \in DOMAIN HitGroups : ~(ncfg.perGroup /\ HitGroups[i].kind = "mamba")}
UsableAt(i, length) ==
  /\ length % EffectiveBlockSize(HitGroups[i]) = 0
  /\ Usable(HitGroups[i], ncfg.held[i], length \div EffectiveBlockSize(HitGroups[i]), FALSE)
CommonHits == {n \in 0..ncfg.max : n % ncfg.lcm = 0 /\ \A i \in Asked : UsableAt(i, n)}

\* The groups return exactly the blocks of one common length, and every
\* group holds what that length needs: no token of the hit is recomputed
\* from a block that was evicted.
GroupsAgree ==
  npc \in {"allocate", "done"} =>
    \A i \in Asked : nblocks[i] * EffectiveBlockSize(HitGroups[i]) = nhit /\ UsableAt(i, nhit)
\* Without a drafter the hit is the longest all groups can serve.
HitIsLongest ==
  npc \in {"allocate", "done"} /\ ncfg.eagle = {} => \A n \in CommonHits : n <= nhit
\* The request ends up with a block for every entry of its computed tokens,
\* and the guard against a negative allocation never has to act.
AllocationExact ==
  npc = "done" =>
    \A i \in Asked :
      LET a == nreq.groups[i]
          total == (nhit + nreq.external) \div HitGroups[i].ratio
      IN  ~a.short /\ a.cached + a.new = Cdiv(total, HitGroups[i].bs)

(* HitRight: find_longest_cache_hit returns one length for all groups, the *)
(* longest they can serve, and allocate_new_computed_blocks then gives     *)
(* every group exactly the blocks of its computed tokens.                  *)
HitRight == GroupsAgree /\ HitIsLongest /\ AllocationExact
=============================================================================
